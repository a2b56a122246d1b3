--------------------------- MODULE MCDBInterface ---------------------------
(***************************************************************************)
(* The instances of DBInterface that TLC checks.                           *)
(***************************************************************************)
EXTENDS DBInterface, TLC

CONSTANTS c1, c2    \* programs with the database open

TwoClients == {c1, c2}
OneClient == {c1}

MCTimes == {"t1", "t2"}
MCIds == 1..4

(* Three hours, of which the clock shows the second a second time: it is   *)
(* put back an hour after two, when daylight saving time ends. A listing   *)
(* has the record of hour one at two and a record of hour two at three.    *)
MCInstants == 1..3
MCTimeToString == [tm \in MCInstants |-> IF tm = 1 THEN "t1" ELSE "t2"]
MCStringToTime == [text \in MCTimes |-> IF text = "t1" THEN 2 ELSE 3]

(* Two hours outside of daylight saving time.                              *)
WinterInstants == 1..2
WinterTimeToString == [tm \in WinterInstants |-> IF tm = 1 THEN "t1" ELSE "t2"]
WinterStringToTime == [text \in MCTimes |-> IF text = "t1" THEN 1 ELSE 2]

Good(id, create, event) == [id |-> id, create |-> create, event |-> event, bad |-> {}]

(* Records that clash in the creation time, in the event time and in       *)
(* nothing (2 and 3), and one whose text breaks the last of its inserts.   *)
MCRecs == {Good(1, "t1", "t1"), Good(2, "t1", "t2"), Good(3, "t2", "t1"),
           [id |-> 4, create |-> "t2", event |-> "t2", bad |-> {"EFFECT"}]}

(* Two versions of one record, with texts SQLite accepts.                  *)
TwoVersions == {Good(1, "t1", "t1"), Good(2, "t1", "t2")}

Symmetry == Permutations({c1, c2} \cap Clients)
=============================================================================
