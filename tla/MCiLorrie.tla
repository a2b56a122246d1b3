----------------------------- MODULE MCiLorrie -----------------------------
(***************************************************************************)
(* The instance of iLorrie that TLC checks: one program, a configuration   *)
(* file that may be rewritten, and two moments on each of two days.        *)
(***************************************************************************)
EXTENDS iLorrie

CONSTANTS p1,       \* the program
          t1, t2,   \* the types of events
          lunch     \* a title

OneProgram == {p1}

MCInstants == 2 .. 5

(* Daylight saving time ends after the first day: until then, a listing has*)
(* a record at the next moment.                                            *)
MCTimes == {"t2", "t3", "t4", "t5"}
MCTimeToString == [tm \in MCInstants |-> CASE tm = 2 -> "t2" [] tm = 3 -> "t3"
                                           [] tm = 4 -> "t4" [] tm = 5 -> "t5"]
MCStringToTime == [text \in MCTimes |-> CASE text = "t2" -> 3 [] text = "t3" -> 4
                                           [] text = "t4" -> 4 [] text = "t5" -> 5]

(* A time of the first day in its first half, and one of the second day in *)
(* its second half.                                                        *)
MCClock == {2, 5}

MCTitles == {lunch}

MCTexts == {t1, t2}

MCRecs == [title : MCTitles, create : {"t2", "t5"}, event : MCTimes,
           type : MCTexts \cup {Untyped}, valid : {{"event"}}]

NothingShipped == {{}}

File(types, sound) ==
    [sound |-> sound,
     elements |-> [list \in {"EventType", "FeedbackAttitude", "FeedbackType", "EffectLevel"} |->
                     IF list = "EventType" THEN types ELSE <<t1>>]]

(* A file with two types, one that lists none, and one that is not sound,  *)
(* which may be refused or not.                                            *)
MCFiles == {File(<<t1, t2>>, TRUE), File(<<Empty>>, TRUE), File(<<t2>>, FALSE)}
=============================================================================
