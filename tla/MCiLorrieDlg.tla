---------------------------- MODULE MCiLorrieDlg ----------------------------
(***************************************************************************)
(* The instances of iLorrieDlg that TLC checks.                            *)
(***************************************************************************)
EXTENDS iLorrieDlg, TLC

CONSTANTS p1, p2     \* two programs on one database

TwoPrograms == {p1, p2}
OneProgram == {p1}

MCTimes == {"t1", "t2", "t3"}

(* Four hours, of which the clock shows the second twice: it is put back an*)
(* hour after two, when daylight saving time ends. A listing has a record  *)
(* of hour one at two and a record of hour two at three.                   *)
MCInstants == 1..4
MCTimeToString == [tm \in MCInstants |-> CASE tm = 1 -> "t1" [] tm = 2 -> "t2"
                                           [] tm = 3 -> "t2" [] tm = 4 -> "t3"]
MCStringToTime == [text \in MCTimes |-> CASE text = "t1" -> 2 [] text = "t2" -> 3
                                           [] text = "t3" -> 4]

(* Two users may press the button within one second (1 and 2), and two     *)
(* records may be of the same event time (2 and 3).                        *)
Rec(title, create, event, valid) ==
    [title |-> title, create |-> create, event |-> event, valid |-> valid]

MCRecs == {Rec(1, "t1", "t1", {"event"}), Rec(2, "t1", "t2", {"event"}),
           Rec(3, "t2", "t2", {"event"}), Rec(4, "t3", "t3", {"event"})}

NothingShipped == {{}}

(* A file with records that have a feedback or an effect, or nothing.      *)
DetailedRecs == {Rec(1, "t1", "t1", {"event"}), Rec(2, "t2", "t2", {"event", "feedback"}),
                 Rec(3, "t3", "t3", {"event", "effect"})}

DetailedShipped == SUBSET DetailedRecs

Symmetry == Permutations({p1, p2} \cap Clients)
=============================================================================
