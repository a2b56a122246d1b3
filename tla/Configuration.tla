--------------------------- MODULE Configuration ---------------------------
(***************************************************************************)
(* What the program's configuration promises: it is read once, when the    *)
(* program starts (ConfigReaderLib/ConfigData.h), and either refused or    *)
(* known as it was written, never in part. ConfigData.tla implements this. *)
(***************************************************************************)
EXTENDS Integers, Sequences

CONSTANTS Texts,   \* what may be listed
          Empty    \* an element without a text, which lists nothing

VARIABLES written, \* the configuration somebody wrote, and whether it is sound:
                   \* a readable file that is complete and well formed
          read     \* what the program knows of it

Lists == {"EventType", "FeedbackAttitude", "FeedbackType", "EffectLevel"}

Unread == [outcome |-> "unread"]
Refused == [outcome |-> "refused"]

Listed(elements) ==
    LET listed[n \in 0 .. Len(elements)] ==
          IF n = 0 THEN <<>>
          ELSE IF elements[n] = Empty THEN listed[n - 1] ELSE Append(listed[n - 1], elements[n])
    IN  listed[Len(elements)]

(* Every list needs an element, be it an empty one.                        *)
Complete == written.sound /\ \A list \in Lists : written.elements[list] # <<>>

Init == read = Unread

Accept ==
    /\ read = Unread
    /\ read' = [outcome |-> "accepted",
                lists |-> [list \in Lists |-> Listed(written.elements[list])]]
    /\ UNCHANGED written

Refuse ==
    /\ read = Unread
    /\ ~Complete
    /\ read' = Refused
    /\ UNCHANGED written

Next == Accept \/ Refuse

(* What is never done, and that it is decided in the end.                  *)
Safety == Init /\ [][Next]_<<written, read>>

Spec == Safety /\ WF_<<written, read>>(Next)
=============================================================================
