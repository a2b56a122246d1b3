--------------------------- MODULE DBAnswerProofs ---------------------------
(***************************************************************************)
(* Proofs about what DBInterface answers, for every set of programs and    *)
(* records: why a call fails, that a ReadRecord hands over the sections of *)
(* one single record although each of its selects is a transaction of its  *)
(* own, and, as long as nobody deletes, that it hands over a whole record  *)
(* for every time no listing has wrong, and that each time a program knows *)
(* is one of a stored record.                                              *)
(*                                                                         *)
(* A read holds no lock between its selects, so its invariants cannot rest *)
(* on locks. They rest on what every step of any program does to the       *)
(* committed file: no index is used for a second record (RowsStay).        *)
(*                                                                         *)
(* When nothing goes wrong of itself, a call fails only because another    *)
(* connection is in the file, the indices have run out, or its record      *)
(* cannot be written. A statement is judged by the uncommitted tables, the *)
(* reason by the committed ones. IInv relates the two: of a call that is   *)
(* alone in the file they differ in nothing but the one row it is writing. *)
(***************************************************************************)
EXTENDS DBInterfaceProofs

(* What a step of client c does to its call.                               *)

ReadStarts(c) ==
    /\ call'[c].op = "read" /\ call'[c].pc = "ReadRecInfo" /\ call'[c].ok
    /\ call'[c].time \in known[c]
    /\ call'[c].got = [t \in Tables |-> NoRow]

(* The selects of ReadRecord: the table, the step and the step to come.    *)
Selects == {<<"EVENT", "ReadEvent", "ReadFeedback">>,
            <<"FEEDBACK", "ReadFeedback", "ReadEffect">>,
            <<"EFFECT", "ReadEffect", "CloseDB">>}

ReadGoesOn(c) ==
    LET k == call[c]
    IN  /\ k.op = "read" /\ k.ok
        /\ call'[c].time = k.time /\ call'[c].key = k.key
        /\ \/ /\ k.pc = "ReadRecInfo" /\ call'[c].pc = "ReadIndex"
              /\ \E i \in IndexesFor(file, k.key) :
                   call'[c].got = [k.got EXCEPT !["RECORD"] = RowAt(file, "RECORD", i)]
           \/ /\ k.pc = "ReadIndex" /\ call'[c].pc = "ReadEvent"
              /\ call'[c].idx \in IndexesFor(file, k.key)
              /\ call'[c].got = k.got
           \/ \E s \in Selects :
                /\ k.pc = s[2] /\ call'[c].pc = s[3]
                /\ call'[c].idx = k.idx
                /\ call'[c].got = [k.got EXCEPT ![s[1]] = RowAt(file, s[1], k.idx)]

NoGoodRead(c) == call'[c].op # "read" \/ ~call'[c].ok

(* What it may learn: what is stored, or what it has written.              *)
Learnt(c) ==
    {StringToTime[file.tab["RECORD"][i].create] : i \in {j \in Index : Holds(file, j)}}
      \cup {tm \in {call[c].time} : call[c].op = "write" /\ call[c].ok /\ At(c, "CloseDB")}

StepOf(c) ==
    /\ \A d \in Clients \ {c} : call'[d] = call[d] /\ known'[d] = known[d]
    /\ call'[c].op \in {call[c].op, "none"} \cup Ops
    /\ known'[c] \subseteq known[c] \cup Learnt(c)
    /\ file' = file \/ (CommitTransaction(c) /\ file' = work)
    /\ call'[c] = call[c] \/ ReadStarts(c) \/ ReadGoesOn(c) \/ NoGoodRead(c)

-----------------------------------------------------------------------------
(* The fields of a call.                                                   *)
LEMMA CallFields ==
    ASSUME TypeOK, NEW c \in Clients
    PROVE  /\ call[c] \in Calls
           /\ DOMAIN call[c] = {"pc", "op", "rec", "time", "key", "ok", "seen", "idx", "got"}
           /\ call[c].got \in [Tables -> Row] /\ call[c].ok \in BOOLEAN
           /\ call[c].idx \in Index \cup {NoIndex}
BY DEF TypeOK, Calls

(* A step after which the call has failed.                                 *)
LEMMA FailingStep ==
    ASSUME IInv, NEW c \in Clients, NEW step, FailTo(c, step), UNCHANGED known,
           file' = file
    PROVE  StepOf(c)
<1>1. call'[c] = [call[c] EXCEPT !.ok = FALSE, !.pc = step]
      /\ \A d \in Clients \ {c} : call'[d] = call[d]
  BY BecomesCall DEF IInv, FailTo
<1>2. call'[c].ok = FALSE /\ call'[c].op = call[c].op
  BY <1>1, CallFields DEF IInv
<1> QED BY <1>1, <1>2 DEF StepOf, NoGoodRead

(* A step of a write or a delete, none of which reads a record.            *)
LEMMA WritingStep ==
    ASSUME IInv, NEW c \in Clients, call[c].op # "read", UNCHANGED known,
           file' = file \/ (CommitTransaction(c) /\ file' = work),
           NEW step, GoTo(c, step) \/ \E i : GoToWithIndex(c, step, i)
    PROVE  StepOf(c)
<1>1. call'[c].op = call[c].op /\ \A d \in Clients \ {c} : call'[d] = call[d]
  <2>1. CASE GoTo(c, step)
    <3>1. call'[c] = [call[c] EXCEPT !.pc = step] /\ \A d \in Clients \ {c} : call'[d] = call[d]
      BY <2>1, BecomesCall DEF IInv, GoTo
    <3> QED BY <3>1, CallFields DEF IInv
  <2>2. ASSUME NEW i, GoToWithIndex(c, step, i)
        PROVE  call'[c].op = call[c].op /\ \A d \in Clients \ {c} : call'[d] = call[d]
    <3>1. call'[c] = [call[c] EXCEPT !.pc = step, !.idx = i]
          /\ \A d \in Clients \ {c} : call'[d] = call[d]
      BY <2>2, BecomesCall DEF IInv, GoToWithIndex
    <3> QED BY <3>1, CallFields DEF IInv
  <2> QED BY <2>1, <2>2
<1> QED BY <1>1 DEF StepOf, NoGoodRead

(* A call is entered.                                                      *)
LEMMA EnteringStep ==
    ASSUME IInv, NEW c \in Clients, NEW op, NEW r, NEW tm, NEW first,
           Enter(c, op, r, tm, first),
           op # "read" \/ (first = "ReadRecInfo" /\ tm \in known[c])
    PROVE  StepOf(c)
<1>1. op \in Ops /\ file' = file /\ known' = known
  BY DEF Enter, dbVars
<1>2. PICK opened \in BOOLEAN :
        Becomes(c, [NoCall EXCEPT !.pc = IF opened THEN first ELSE "CloseDB",
                                  !.op = op, !.rec = r, !.time = tm,
                                  !.key = TimeToString[tm], !.ok = opened])
  BY DEF Enter
<1>3. /\ \A d \in Clients \ {c} : call'[d] = call[d]
      /\ call'[c].op = op /\ call'[c].ok = opened /\ call'[c].time = tm
      /\ call'[c].pc = IF opened THEN first ELSE "CloseDB"
      /\ call'[c].got = [t \in Tables |-> NoRow]
  <2> DEFINE pc == IF opened THEN first ELSE "CloseDB"
  <2>1. call'[c] = [NoCall EXCEPT !.pc = pc, !.op = op, !.rec = r, !.time = tm,
                                  !.key = TimeToString[tm], !.ok = opened]
        /\ \A d \in Clients \ {c} : call'[d] = call[d]
    BY <1>2, BecomesCall DEF IInv
  <2> HIDE DEF pc
  <2>2. call'[c].op = op /\ call'[c].ok = opened /\ call'[c].time = tm /\ call'[c].pc = pc
    BY <2>1 DEF NoCall
  <2>3. call'[c].got = [t \in Tables |-> NoRow]
    BY <2>1 DEF NoCall
  <2> QED BY <2>1, <2>2, <2>3 DEF pc
<1> QED BY <1>1, <1>3 DEF StepOf, NoGoodRead, ReadStarts

(* The call returns or the program dies.                                   *)
LEMMA LeavingStep ==
    ASSUME IInv, NEW c \in Clients, CloseDB(c) \/ Crash(c)
    PROVE  StepOf(c)
<1>1. call'[c] = NoCall /\ \A d \in Clients \ {c} : call'[d] = call[d]
  BY BecomesCall DEF CloseDB, Crash, IInv
<1>2. file' = file
  BY DEF CloseDB, Crash, Release
<1>3. known \in [Clients -> SUBSET Instants]
  BY DEF IInv, TypeOK
<1>4. \A d \in Clients \ {c} : known'[d] = known[d]
  BY <1>3 DEF CloseDB, Crash
<1>5. known'[c] \subseteq known[c] \cup Learnt(c)
  <2>1. CASE Crash(c)
    BY <1>3, <2>1 DEF Crash
  <2>2. CASE CloseDB(c)
    <3>1. At(c, "CloseDB")
      BY <2>2 DEF CloseDB
    <3>2. known'[c] = known[c] \cup {tm \in {call[c].time} : call[c].op = "write" /\ call[c].ok}
      BY <1>3, <2>2 DEF CloseDB
    <3> QED BY <3>1, <3>2 DEF Learnt
  <2> QED BY <2>1, <2>2
<1> QED BY <1>1, <1>2, <1>4, <1>5 DEF StepOf, NoGoodRead, NoCall

(* A listing tells its caller what is stored.                              *)
LEMMA ListingStep ==
    ASSUME IInv, NEW c \in Clients, ReadAllRecordTime(c) \/ ReadAllRecordAbstract(c)
    PROVE  StepOf(c)
<1>1. PICK indexes \in SUBSET {i \in Index : Holds(file, i)} : Learn(c, indexes)
  BY DEF ReadAllRecordTime, ReadAllRecordAbstract, Holds
<1>2. known \in [Clients -> SUBSET Instants]
  BY DEF IInv, TypeOK
<1>3. /\ known'[c] = known[c]
           \cup {StringToTime[file.tab["RECORD"][i].create] : i \in indexes}
      /\ \A d \in Clients \ {c} : known'[d] = known[d]
  BY <1>1, <1>2 DEF Learn
<1>4. known'[c] \subseteq known[c] \cup Learnt(c)
  BY <1>3 DEF Learnt
<1>5. call' = call /\ file' = file
  BY <1>1 DEF Learn, dbVars
<1> QED BY <1>3, <1>4, <1>5 DEF StepOf

(* A read sees the committed file: it holds no lock, so it is no writer.   *)
LEMMA ReaderSeesFile ==
    ASSUME IInv, NEW c \in Clients, call[c].pc \in ReadSteps
    PROVE  View(c) = file /\ call[c].op = "read" /\ call[c].ok
BY DEF IInv, CallInv, OpInv, LockInv, View, IsWriter

(* A select of ReadRecord that succeeds.                                   *)
LEMMA ReadingStep ==
    ASSUME IInv, NEW c \in Clients, call[c].pc \in ReadSteps, UNCHANGED <<dbVars, known>>,
           \A d \in Clients \ {c} : call'[d] = call[d],
           call'[c].op = "read",
           call'[c].time = call[c].time /\ call'[c].key = call[c].key,
           \/ /\ call[c].pc = "ReadRecInfo" /\ call'[c].pc = "ReadIndex"
              /\ \E i \in IndexesFor(file, call[c].key) :
                   call'[c].got = [call[c].got EXCEPT !["RECORD"] = RowAt(file, "RECORD", i)]
           \/ /\ call[c].pc = "ReadIndex" /\ call'[c].pc = "ReadEvent"
              /\ call'[c].idx \in IndexesFor(file, call[c].key)
              /\ call'[c].got = call[c].got
           \/ \E s \in Selects :
                /\ call[c].pc = s[2] /\ call'[c].pc = s[3]
                /\ call'[c].idx = call[c].idx
                /\ call'[c].got = [call[c].got EXCEPT ![s[1]] = RowAt(file, s[1], call[c].idx)]
    PROVE  StepOf(c)
BY ReaderSeesFile DEF StepOf, ReadGoesOn, dbVars

(* The select of ReadRecInfoByDateTime.                                    *)
LEMMA ReadRecInfoStep ==
    ASSUME IInv, NEW c \in Clients, ReadRecInfoByDateTime(c)
    PROVE  StepOf(c)
<1>1. call[c].pc = "ReadRecInfo" /\ UNCHANGED <<dbVars, known>> /\ call[c].pc \in ReadSteps
  BY DEF ReadRecInfoByDateTime, At, ReadSteps
<1>2. View(c) = file /\ call[c].op = "read"
  BY <1>1, ReaderSeesFile
<1>3. CASE FailTo(c, "CloseDB")
  BY <1>1, <1>3, FailingStep DEF dbVars
<1>4. ASSUME NEW i \in IndexesFor(file, call[c].key),
             Becomes(c, [call[c] EXCEPT !.pc = "ReadIndex",
                                        !.got["RECORD"] = RowAt(file, "RECORD", i)])
      PROVE  StepOf(c)
  <2>1. call'[c] = [call[c] EXCEPT !.pc = "ReadIndex",
                                   !.got["RECORD"] = RowAt(file, "RECORD", i)]
        /\ \A d \in Clients \ {c} : call'[d] = call[d]
    BY <1>4, BecomesCall DEF IInv
  <2>2. /\ call'[c].op = "read" /\ call'[c].pc = "ReadIndex"
        /\ call'[c].time = call[c].time /\ call'[c].key = call[c].key
        /\ call'[c].got = [call[c].got EXCEPT !["RECORD"] = RowAt(file, "RECORD", i)]
    BY <1>2, <2>1, CallFields DEF IInv
  <2> QED BY <1>1, <2>1, <2>2, ReadingStep
<1> QED BY <1>2, <1>3, <1>4 DEF ReadRecInfoByDateTime

(* The select of ReadIndexByDateTime.                                      *)
LEMMA ReadIndexStep ==
    ASSUME IInv, NEW c \in Clients, ReadIndexByDateTime(c)
    PROVE  StepOf(c)
<1>1. call[c].pc = "ReadIndex" /\ UNCHANGED <<dbVars, known>> /\ call[c].pc \in ReadSteps
  BY DEF ReadIndexByDateTime, At, ReadSteps
<1>2. View(c) = file /\ call[c].op = "read"
  BY <1>1, ReaderSeesFile
<1>3. CASE FailTo(c, "CloseDB")
  BY <1>1, <1>3, FailingStep DEF dbVars
<1>4. ASSUME NEW i \in IndexesFor(file, call[c].key), GoToWithIndex(c, "ReadEvent", i)
      PROVE  StepOf(c)
  <2>1. call'[c] = [call[c] EXCEPT !.pc = "ReadEvent", !.idx = i]
        /\ \A d \in Clients \ {c} : call'[d] = call[d]
    BY <1>4, BecomesCall DEF IInv, GoToWithIndex
  <2>2. /\ call'[c].op = "read" /\ call'[c].pc = "ReadEvent"
        /\ call'[c].time = call[c].time /\ call'[c].key = call[c].key
        /\ call'[c].idx = i /\ call'[c].got = call[c].got
    BY <1>2, <2>1, CallFields DEF IInv
  <2> QED BY <1>1, <2>1, <2>2, ReadingStep
<1> QED BY <1>2, <1>3, <1>4 DEF ReadIndexByDateTime

(* The select of one section.                                              *)
LEMMA ReadSectionStep ==
    ASSUME IInv, NEW c \in Clients, NEW s \in Selects, ReadSection(c, s[1], s[2], s[3])
    PROVE  StepOf(c)
<1>1. call[c].pc = s[2] /\ UNCHANGED <<dbVars, known>> /\ call[c].pc \in ReadSteps
  BY DEF ReadSection, At, ReadSteps, Selects
<1>2. View(c) = file /\ call[c].op = "read"
  BY <1>1, ReaderSeesFile
<1>3. CASE FailTo(c, "CloseDB")
  BY <1>1, <1>3, FailingStep DEF dbVars
<1>4. CASE Becomes(c, [call[c] EXCEPT !.pc = s[3],
                                      !.got[s[1]] = RowAt(View(c), s[1], call[c].idx)])
  <2>1. call'[c] = [call[c] EXCEPT !.pc = s[3],
                                   !.got[s[1]] = RowAt(file, s[1], call[c].idx)]
        /\ \A d \in Clients \ {c} : call'[d] = call[d]
    BY <1>2, <1>4, BecomesCall DEF IInv
  <2>2. /\ call'[c].op = "read" /\ call'[c].pc = s[3]
        /\ call'[c].time = call[c].time /\ call'[c].key = call[c].key
        /\ call'[c].idx = call[c].idx
        /\ call'[c].got = [call[c].got EXCEPT ![s[1]] = RowAt(file, s[1], call[c].idx)]
    BY <1>2, <2>1, CallFields DEF IInv
  <2> QED BY <1>1, <2>1, <2>2, ReadingStep
<1> QED BY <1>3, <1>4 DEF ReadSection

(* Every step of a call is one of these.                                   *)
LEMMA StepIsStep ==
    ASSUME IInv, NEW c \in Clients, Step(c)
    PROVE  StepOf(c)
<1> USE DEF At
<1>1. ASSUME call[c].pc \in WriteSteps \cup DelSteps \cup {"EndTransaction"}
      PROVE  call[c].op # "read"
  BY <1>1 DEF IInv, CallInv, OpInv
<1>2. CASE CloseDB(c)
  BY <1>2, LeavingStep
<1>3. CASE HasRecordTimeExisted(c)
  <2>1. UNCHANGED <<file, known>> /\ call[c].op = "write"
    BY <1>3 DEF HasRecordTimeExisted, IInv, CallInv, OpInv, WriteSteps
  <2>2. PICK k : Becomes(c, k) /\ k.op = "write"
    <3>1. [call[c] EXCEPT !.pc = "WriteRecInfo"].op = "write"
      BY <2>1, CallFields DEF IInv
    <3>2. \A b : [call[c] EXCEPT !.pc = "WriteRecInfo", !.seen = b].op = "write"
      BY <2>1, CallFields DEF IInv
    <3> QED BY <1>3, <3>1, <3>2 DEF HasRecordTimeExisted, GoTo
  <2>3. call'[c] = k /\ \A d \in Clients \ {c} : call'[d] = call[d]
    BY <2>2, BecomesCall DEF IInv
  <2> QED BY <2>1, <2>2, <2>3 DEF StepOf, NoGoodRead
<1>4. CASE WriteRecInfoByDateTime(c)
  <2>1. UNCHANGED <<file, known>> /\ call[c].op # "read"
    BY <1>1, <1>4 DEF WriteRecInfoByDateTime, WriteSteps
  <2>2. FailTo(c, "EndTransaction") \/ \E i : GoToWithIndex(c, "WriteEvent", i)
    BY <1>4 DEF WriteRecInfoByDateTime
  <2> QED BY <2>1, <2>2, FailingStep, WritingStep
<1>5. ASSUME NEW t, NEW here \in WriteSteps, NEW next, PutSection(c, t, here, next)
      PROVE  StepOf(c)
  <2>1. UNCHANGED <<file, known>> /\ call[c].op # "read"
    BY <1>1, <1>5 DEF PutSection
  <2>2. FailTo(c, "EndTransaction") \/ GoTo(c, next)
    BY <1>5 DEF PutSection
  <2> QED BY <2>1, <2>2, FailingStep, WritingStep
<1>6. CASE WriteEventByIndex(c) \/ WriteFeedbackByIndex(c) \/ WriteEffectByIndex(c)
  BY <1>5, <1>6 DEF WriteEventByIndex, WriteFeedbackByIndex, WriteEffectByIndex, WriteSteps
<1>7. CASE DelReadIndex(c)
  <2>1. UNCHANGED <<file, known>> /\ call[c].op # "read"
    BY <1>1, <1>7 DEF DelReadIndex, DelSteps
  <2>2. FailTo(c, "DelRecInfo") \/ \E i : GoToWithIndex(c, "DelRecInfo", i)
    BY <1>7 DEF DelReadIndex
  <2> QED BY <2>1, <2>2, FailingStep, WritingStep
<1>8. CASE DelRecInfoByDateTime(c)
  <2>1. UNCHANGED <<file, known>> /\ call[c].op # "read"
    BY <1>1, <1>8 DEF DelRecInfoByDateTime, DelSteps
  <2>2. FailTo(c, "EndTransaction") \/ \E step : GoTo(c, step)
    BY <1>8 DEF DelRecInfoByDateTime
  <2> QED BY <2>1, <2>2, FailingStep, WritingStep
<1>9. ASSUME NEW t, NEW here \in DelSteps, NEW next, DelSection(c, t, here, next)
       PROVE  StepOf(c)
  <2>1. UNCHANGED <<file, known>> /\ call[c].op # "read"
    BY <1>1, <1>9 DEF DelSection
  <2>2. FailTo(c, "EndTransaction") \/ GoTo(c, next)
    BY <1>9 DEF DelSection
  <2> QED BY <2>1, <2>2, FailingStep, WritingStep
<1>10. CASE DelEventByIndex(c) \/ DelFeedbackByIndex(c) \/ DelEffectByIndex(c)
  BY <1>9, <1>10 DEF DelEventByIndex, DelFeedbackByIndex, DelEffectByIndex, DelSteps
<1>11. CASE CommitTransaction(c)
  <2>1. UNCHANGED known /\ call[c].op # "read"
    BY <1>1, <1>11 DEF CommitTransaction
  <2>2. (file' = work /\ GoTo(c, "CloseDB")) \/ (file' = file /\ FailTo(c, "CloseDB"))
    BY <1>11 DEF CommitTransaction
  <2> QED BY <1>11, <2>1, <2>2, FailingStep, WritingStep
<1>12. CASE RollbackTransaction(c)
  <2>1. UNCHANGED known /\ call[c].op # "read" /\ file' = file /\ GoTo(c, "CloseDB")
    BY <1>1, <1>12 DEF RollbackTransaction, Release, dbVars
  <2> QED BY <2>1, WritingStep
<1>13. CASE ReadRecInfoByDateTime(c) \/ ReadIndexByDateTime(c)
  BY <1>13, ReadRecInfoStep, ReadIndexStep
<1>14. CASE ReadEventByIndex(c) \/ ReadFeedbackByIndex(c) \/ ReadEffectByIndex(c)
  <2>1. PICK s \in Selects : ReadSection(c, s[1], s[2], s[3])
    BY <1>14 DEF ReadEventByIndex, ReadFeedbackByIndex, ReadEffectByIndex, Selects
  <2> QED BY <2>1, ReadSectionStep
<1> QED
  BY <1>2, <1>3, <1>4, <1>6, <1>7, <1>8, <1>10, <1>11, <1>12, <1>13, <1>14 DEF Step

(* And so is every step.                                                   *)
LEMMA NextIsStep ==
    ASSUME IInv, Next
    PROVE  \E c \in Clients : StepOf(c)
<1>1. PICK c \in Clients :
        \/ \E tm \in Instants : \/ \E r \in Recs : WriteRecord(c, r, tm)
                                \/ ReadRecord(c, tm) \/ DelRecord(c, tm)
        \/ ReadAllRecordTime(c) \/ ReadAllRecordAbstract(c)
        \/ Step(c)
        \/ Crash(c)
  BY DEF Next
<1>2. CASE \E tm \in Instants : \E r \in Recs : WriteRecord(c, r, tm)
  BY <1>2, EnteringStep DEF WriteRecord
<1>3. CASE \E tm \in Instants : ReadRecord(c, tm) \/ DelRecord(c, tm)
  BY <1>3, EnteringStep DEF ReadRecord, DelRecord
<1>4. CASE ReadAllRecordTime(c) \/ ReadAllRecordAbstract(c)
  BY <1>4, ListingStep
<1> QED BY <1>1, <1>2, <1>3, <1>4, LeavingStep, StepIsStep

-----------------------------------------------------------------------------
(* What becomes of the committed rows                                      *)

(* A row of the file is a record that is stored.                           *)
LEMMA StoredRows ==
    ASSUME IInv
    PROVE  /\ Stored(file) = {file.tab["RECORD"][i] : i \in {j \in Index : Holds(file, j)}}
           /\ \A i \in Index : /\ Holds(file, i) => file.tab["RECORD"][i] \in Recs
                               /\ ~Holds(file, i) => file.tab["RECORD"][i] = NoRow
                               /\ \A t \in Tables : file.tab[t][i] = file.tab["RECORD"][i]
<1>1. \A i \in Index : file.tab["RECORD"][i] \in Recs \cup {NoRow}
  BY DEF IInv, TypeOK, DBTypeOK, Database, Tables, Row
<1>2. \A i \in Index : \A t \in Tables : file.tab[t][i] = file.tab["RECORD"][i]
  BY DEF IInv, FileInv, Whole
<1>3. "RECORD" \in Tables /\ NoRow \notin Recs
  BY RecsAssumption DEF Tables
<1>4. Stored(file) = {file.tab["RECORD"][i] : i \in {j \in Index : Holds(file, j)}}
  BY <1>1, <1>2, <1>3 DEF Stored, Holds
<1> QED BY <1>1, <1>2, <1>4 DEF Holds

(* A row stays as it is or is deleted, and its index is not given out      *)
(* again: a new record gets an index above all that were.                  *)
LEMMA RowsStay ==
    ASSUME IInv, [Next]_vars
    PROVE  /\ file.seq \in Nat /\ file'.seq \in Nat /\ file.seq <= file'.seq
           /\ \A i \in Index : Holds(file, i) => i <= file.seq
           /\ \A i \in Index : i <= file.seq =>
                \/ file'.tab["RECORD"][i] = file.tab["RECORD"][i]
                \/ file'.tab["RECORD"][i] = NoRow
           /\ (\A c \in Clients : call[c].op # "del") =>
                \A i \in Index : Holds(file, i) =>
                   file'.tab["RECORD"][i] = file.tab["RECORD"][i]
<1>1. file.seq \in Nat /\ \A i \in Index : Holds(file, i) => i <= file.seq
  BY MaxIndexAssumption DEF IInv, TypeOK, DBTypeOK, Database, FileInv, Fresh, Index
<1>2. CASE file' = file
  BY <1>1, <1>2
<1>3. ASSUME NEW c \in Clients, CommitTransaction(c), file' = work PROVE
           /\ file'.seq \in Nat /\ file.seq <= file'.seq
           /\ \A i \in Index : i <= file.seq =>
                \/ file'.tab["RECORD"][i] = file.tab["RECORD"][i]
                \/ file'.tab["RECORD"][i] = NoRow
           /\ (\A d \in Clients : call[d].op # "del") =>
                \A i \in Index : Holds(file, i) =>
                   file'.tab["RECORD"][i] = file.tab["RECORD"][i]
  <2>0. "RECORD" \in Tables
    BY DEF Tables
  <2>1. CASE /\ Inserting(call[c]) /\ PutIn(work, file, Tables, call[c].idx, call[c].rec)
    <3>1. /\ call[c].idx = file.seq + 1 /\ work.seq = file.seq + 1
          /\ \A i \in Index : work.tab["RECORD"][i] =
               IF i = file.seq + 1 THEN call[c].rec ELSE file.tab["RECORD"][i]
      BY <2>0, <2>1 DEF Inserting, PutIn
    <3> QED BY <1>1, <1>3, <3>1 DEF Index
  <2>2. CASE /\ call[c].op = "del" /\ Deleting(call[c])
             /\ PutIn(work, file, Tables, call[c].idx, NoRow)
    <3>1. /\ work.seq = file.seq
          /\ \A i \in Index : work.tab["RECORD"][i] =
               IF i = call[c].idx THEN NoRow ELSE file.tab["RECORD"][i]
      BY <2>0, <2>2 DEF Deleting, PutIn
    <3> QED BY <1>1, <1>3, <2>2, <3>1
  <2> QED BY <1>3, <2>1, <2>2, ReadyToCommit
<1>4. file' = file \/ \E c \in Clients : CommitTransaction(c) /\ file' = work
  BY NextIsStep DEF StepOf, vars
<1> QED BY <1>1, <1>2, <1>3, <1>4

-----------------------------------------------------------------------------
(* SectionsOfOneRecord                                                     *)

(* The record that a read has found, and may be deleted since, is the only *)
(* one whose sections it can find.                                         *)
FoundOne(k, db) ==
    \E r \in Recs : /\ r.create = k.key
                    /\ db.tab["RECORD"][k.idx] \in {r, NoRow}
                    /\ \A t \in Sections : k.got[t] \in {r, NoRow}

Later == {"ReadEvent", "ReadFeedback", "ReadEffect", "CloseDB"}

ReadInv(k, db) ==
    k.op = "read" /\ k.ok =>
        /\ k.pc \in ReadSteps \cup {"CloseDB"}
        /\ Recs # {}
        /\ k.pc \notin Later \/ k.idx \notin Index => \A t \in Sections : k.got[t] = NoRow
        /\ k.pc \in Later /\ k.idx \in Index => k.idx <= db.seq /\ FoundOne(k, db)

KnownInv == \A c \in Clients : known[c] # {} => Recs # {}

SectionsInv == IInv /\ KnownInv /\ \A c \in Clients : ReadInv(call[c], file)

(* Who is told of a time is told of a record's.                            *)
LEMMA KnownStep ==
    ASSUME IInv, KnownInv, NEW c \in Clients, StepOf(c)
    PROVE  KnownInv'
<1>1. Learnt(c) # {} => Recs # {}
  <2>1. \A i \in Index : Holds(file, i) => file.tab["RECORD"][i] \in Recs
    BY StoredRows
  <2>2. call[c].op = "write" => call[c].rec \in Recs
    BY DEF IInv, CallInv, OpInv
  <2> QED BY <2>1, <2>2 DEF Learnt
<1> QED BY <1>1 DEF StepOf, KnownInv

(* What other calls commit does not take from a read what it has found.    *)
LEMMA ReadInvStays ==
    ASSUME IInv, [Next]_vars, NEW c \in Clients, ReadInv(call[c], file), call'[c] = call[c]
    PROVE  ReadInv(call'[c], file')
<1> DEFINE k == call[c]
<1>1. ASSUME k.idx \in Index, k.idx <= file.seq, FoundOne(k, file)
      PROVE  k.idx <= file'.seq /\ FoundOne(k, file')
  <2>1. k.idx <= file'.seq
    BY <1>1, RowsStay DEF Index
  <2>2. file'.tab["RECORD"][k.idx] \in {file.tab["RECORD"][k.idx], NoRow}
    BY <1>1, RowsStay
  <2> QED BY <1>1, <2>1, <2>2 DEF FoundOne
<1> QED BY <1>1 DEF ReadInv

(* What is at a found index of the file.                                   *)
LEMMA FoundRow ==
    ASSUME IInv, NEW tm, NEW i \in IndexesFor(file, tm), i \in Index
    PROVE  Holds(file, i) /\ file.tab["RECORD"][i] \in Recs
           /\ file.tab["RECORD"][i].create = tm
<1>1. i \in RecordsAt(file, tm)
  BY DEF IndexesFor, NoIndex, Index
<1> QED BY <1>1, StoredRows DEF RecordsAt, Holds

(* One select of a read finds what belongs to the same record, or nothing. *)
LEMMA ReadGoesOnKeeps ==
    ASSUME IInv, [Next]_vars, NEW c \in Clients, ReadInv(call[c], file), ReadGoesOn(c),
           call'[c] \in Calls, call[c] \in Calls, file' = file
    PROVE  ReadInv(call'[c], file')
<1> DEFINE k == call[c]
           after == call'[c]
<1>0. /\ k.op = "read" /\ k.ok /\ after.key = k.key
      /\ k.got \in [Tables -> Row] /\ k.idx \in Index \cup {NoIndex}
      /\ after.idx \in Index \cup {NoIndex}
      /\ "RECORD" \in Tables /\ "RECORD" \notin Sections
      /\ Sections = {"EVENT", "FEEDBACK", "EFFECT"} /\ Sections \subseteq Tables
      /\ NoRow \notin Recs
  BY RecsAssumption DEF ReadGoesOn, Calls, Tables, Sections
<1>1. Recs # {}
  BY <1>0 DEF ReadInv
<1>2. CASE /\ k.pc = "ReadRecInfo" /\ after.pc = "ReadIndex"
           /\ \E i \in IndexesFor(file, k.key) :
                after.got = [k.got EXCEPT !["RECORD"] = RowAt(file, "RECORD", i)]
  <2>1. \A t \in Sections : k.got[t] = NoRow
    BY <1>0, <1>2 DEF ReadInv, Later
  <2>2. \A t \in Sections : after.got[t] = NoRow
    BY <1>0, <1>2, <2>1
  <2> QED BY <1>0, <1>1, <1>2, <2>2 DEF ReadInv, Later, ReadSteps
<1>3. CASE /\ k.pc = "ReadIndex" /\ after.pc = "ReadEvent"
           /\ after.idx \in IndexesFor(file, k.key) /\ after.got = k.got
  <2>1. \A t \in Sections : k.got[t] = NoRow
    BY <1>0, <1>3 DEF ReadInv, Later
  <2>2. ASSUME after.idx \in Index PROVE after.idx <= file'.seq /\ FoundOne(after, file')
    <3>1. /\ Holds(file, after.idx) /\ file.tab["RECORD"][after.idx] \in Recs
          /\ file.tab["RECORD"][after.idx].create = k.key
      BY <1>3, <2>2, FoundRow
    <3>2. after.idx <= file.seq
      BY <2>2, <3>1, RowsStay
    <3> QED BY <1>0, <1>3, <2>1, <3>1, <3>2 DEF FoundOne
  <2> QED BY <1>0, <1>1, <1>3, <2>1, <2>2 DEF ReadInv, Later, ReadSteps
<1>4. ASSUME NEW s \in Selects, k.pc = s[2], after.pc = s[3], after.idx = k.idx,
             after.got = [k.got EXCEPT ![s[1]] = RowAt(file, s[1], k.idx)]
      PROVE  ReadInv(after, file')
  <2>1. s[1] \in Sections /\ k.pc \in Later /\ after.pc \in Later \cap (ReadSteps \cup {"CloseDB"})
    BY <1>0, <1>4 DEF Selects, Later, ReadSteps
  <2>2. CASE k.idx \in Index
    <3>1. PICK r \in Recs : /\ r.create = k.key
                            /\ file.tab["RECORD"][k.idx] \in {r, NoRow}
                            /\ \A t \in Sections : k.got[t] \in {r, NoRow}
      BY <1>0, <2>1, <2>2 DEF ReadInv, FoundOne
    <3>2. RowAt(file, s[1], k.idx) \in {r, NoRow}
      BY <1>0, <2>1, <2>2, <3>1, StoredRows DEF RowAt
    <3>3. \A t \in Sections : after.got[t] \in {r, NoRow}
      BY <1>0, <1>4, <2>1, <3>1, <3>2
    <3>4. FoundOne(after, file')
      BY <1>0, <1>4, <3>1, <3>3 DEF FoundOne
    <3>5. k.idx <= file.seq
      BY <1>0, <2>1, <2>2 DEF ReadInv
    <3> QED BY <1>0, <1>1, <1>4, <2>1, <2>2, <3>4, <3>5 DEF ReadInv
  <2>3. CASE k.idx \notin Index
    <3>1. \A t \in Sections : k.got[t] = NoRow
      BY <1>0, <2>3 DEF ReadInv
    <3>2. RowAt(file, s[1], k.idx) = NoRow
      BY <2>3 DEF RowAt
    <3>3. \A t \in Sections : after.got[t] = NoRow
      BY <1>0, <1>4, <2>1, <3>1, <3>2
    <3> QED BY <1>0, <1>1, <1>4, <2>1, <2>3, <3>3 DEF ReadInv
  <2> QED BY <2>2, <2>3
<1> QED BY <1>2, <1>3, <1>4 DEF ReadGoesOn

(* Of any step, then, every read's invariant is kept.                      *)
LEMMA SectionsStep == SectionsInv /\ [Next]_vars => SectionsInv'
<1> SUFFICES ASSUME SectionsInv, [Next]_vars PROVE SectionsInv'
  OBVIOUS
<1>1. IInv /\ IInv' /\ KnownInv
  BY IInvStep DEF SectionsInv
<1>2. CASE UNCHANGED vars
  <2>1. call' = call /\ known' = known
    BY <1>2 DEF vars
  <2>2. \A d \in Clients : ReadInv(call'[d], file')
    BY <1>1, <2>1, ReadInvStays DEF SectionsInv
  <2> QED BY <1>1, <2>1, <2>2 DEF SectionsInv, KnownInv
<1>3. CASE Next
  <2>1. PICK c \in Clients : StepOf(c)
    BY <1>1, <1>3, NextIsStep
  <2>2. KnownInv'
    BY <1>1, <2>1, KnownStep
  <2>3. ASSUME NEW d \in Clients, call'[d] = call[d] PROVE ReadInv(call'[d], file')
    BY <1>1, <2>3, ReadInvStays DEF SectionsInv
  <2>4. CASE ReadStarts(c)
    <3>1. Recs # {}
      BY <1>1, <2>4 DEF ReadStarts, KnownInv
    <3>2. ReadInv(call'[c], file')
      BY <2>4, <3>1 DEF ReadStarts, ReadInv, ReadSteps, Later, Sections
    <3> QED BY <1>1, <2>1, <2>2, <2>3, <3>2 DEF SectionsInv, StepOf
  <2>5. CASE ReadGoesOn(c)
    <3>1. call'[c] \in Calls /\ call[c] \in Calls
      BY <1>1 DEF IInv, TypeOK
    <3>2. file' = file
      <4>1. call[c].op = "read" /\ call[c].ok
        BY <2>5 DEF ReadGoesOn
      <4>2. ~CommitTransaction(c)
        BY <1>1, <4>1, ReadyToCommit
      <4> QED BY <2>1, <4>2 DEF StepOf
    <3>3. ReadInv(call'[c], file')
      BY <1>1, <2>5, <3>1, <3>2, ReadGoesOnKeeps DEF SectionsInv
    <3> QED BY <1>1, <2>1, <2>2, <2>3, <3>3 DEF SectionsInv, StepOf
  <2>6. CASE NoGoodRead(c)
    <3>1. ReadInv(call'[c], file')
      BY <2>6 DEF NoGoodRead, ReadInv
    <3> QED BY <1>1, <2>1, <2>2, <2>3, <3>1 DEF SectionsInv, StepOf
  <2>7. CASE call'[c] = call[c]
    BY <1>1, <2>1, <2>2, <2>3, <2>7 DEF SectionsInv, StepOf
  <2> QED BY <2>1, <2>4, <2>5, <2>6, <2>7 DEF StepOf
<1> QED BY <1>2, <1>3

(* However the record is deleted and another written with its creation     *)
(* time between its selects: the sections a successful ReadRecord hands    *)
(* over are blank or those of one single record of the text asked for.     *)
THEOREM AlwaysOneRecord == Spec => []SectionsOfOneRecord
<1>1. Init => SectionsInv
  <2> SUFFICES ASSUME Init PROVE SectionsInv
    OBVIOUS
  <2>1. \A c \in Clients : call[c] = NoCall /\ known[c] = {}
    BY DEF Init
  <2>2. \A c \in Clients : ReadInv(call[c], file)
    BY <2>1 DEF NoCall, ReadInv
  <2> QED BY <2>1, <2>2, IInvInit DEF SectionsInv, KnownInv
<1>2. SectionsInv => SectionsOfOneRecord
  <2> SUFFICES ASSUME SectionsInv, NEW c \in Clients,
                      call[c].pc = "CloseDB", call[c].op = "read", call[c].ok
               PROVE  \E r \in Recs : \A t \in Sections :
                        \/ call[c].got[t] = NoRow
                        \/ call[c].got[t] = r /\ r.create = call[c].key
    BY DEF SectionsOfOneRecord, At
  <2>1. ReadInv(call[c], file) /\ "CloseDB" \in Later
    BY DEF SectionsInv, Later
  <2>2. CASE call[c].idx \in Index
    BY <2>1, <2>2 DEF ReadInv, FoundOne
  <2>3. CASE call[c].idx \notin Index
    BY <2>1, <2>3 DEF ReadInv
  <2> QED BY <2>2, <2>3
<1> QED BY <1>1, <1>2, SectionsStep, PTL DEF Spec

-----------------------------------------------------------------------------
(* KnownIsStored                                                           *)

(* Nobody deletes, and a write that succeeded is stored.                   *)
StoredInv ==
    /\ IInv
    /\ \A c \in Clients : call[c].op # "del"
    /\ \A c \in Clients : CallStatus[c].phase = "ok" /\ CallStatus[c].op = "write" =>
                             CallStatus[c].rec \in Stored(file)
    /\ KnownIsStored

(* The store of whole records only grows.                                  *)
LEMMA StoreGrows ==
    ASSUME StoredInv, [Next]_vars
    PROVE  /\ Stored(file) \subseteq Stored(file)'
           /\ \A c \in Clients : CallStatus'[c].phase = "ok" /\ CallStatus'[c].op = "write" =>
                                    CallStatus'[c].rec \in Stored(file)'
<1>1. [Store!Next]_(Store!vars)
  BY NextImplements DEF StoredInv
<1>2. /\ DOMAIN CallStatus = Clients
      /\ \A d \in Clients : /\ DOMAIN CallStatus[d] = {"phase", "op", "rec"}
                            /\ CallStatus[d].op # "del"
                            /\ CallStatus[d].phase = "ok" /\ CallStatus[d].op = "write" =>
                                  CallStatus[d].rec \in Stored(file)
  BY DEF CallStatus, StoredInv
<1>3. CASE UNCHANGED Store!vars
  BY <1>2, <1>3 DEF Store!vars
<1>4. ASSUME NEW c \in Clients, NEW s,
             CallStatus' = [CallStatus EXCEPT ![c] = s], Stored(file) \subseteq Stored(file)',
             s.phase = "ok" /\ s.op = "write" => s.rec \in Stored(file)'
      PROVE  \A d \in Clients : CallStatus'[d].phase = "ok" /\ CallStatus'[d].op = "write" =>
                                   CallStatus'[d].rec \in Stored(file)'
  BY <1>2, <1>4
<1>5. ASSUME NEW c \in Clients, Store!Invoke(c) \/ Store!Leave(c)
      PROVE  /\ Stored(file)' = Stored(file)
             /\ \E s : CallStatus' = [CallStatus EXCEPT ![c] = s] /\ s.phase # "ok"
  BY <1>5 DEF Store!Invoke, Store!Leave, Store!Idle
<1>6. ASSUME NEW c \in Clients, Store!Read(c) \/ Store!Fail(c)
      PROVE  /\ Stored(file)' = Stored(file)
             /\ \E s : CallStatus' = [CallStatus EXCEPT ![c] = s] /\ ~ (s.phase = "ok" /\ s.op = "write")
  <2>1. CASE Store!Read(c)
    <3>1. CallStatus' = [CallStatus EXCEPT ![c] = [CallStatus[c] EXCEPT !.phase = "ok"]]
      BY <2>1 DEF Store!Read, Store!Become
    <3>2. [CallStatus[c] EXCEPT !.phase = "ok"].op = "read"
      BY <1>2, <2>1 DEF Store!Read
    <3> QED BY <2>1, <3>1, <3>2 DEF Store!Read
  <2>2. CASE Store!Fail(c)
    <3>1. CallStatus' = [CallStatus EXCEPT ![c] = [CallStatus[c] EXCEPT !.phase = "failed"]]
      BY <2>2 DEF Store!Fail, Store!Become
    <3>2. [CallStatus[c] EXCEPT !.phase = "failed"].phase = "failed"
      BY <1>2
    <3> QED BY <2>2, <3>1, <3>2 DEF Store!Fail
  <2> QED BY <1>6, <2>1, <2>2
<1>7. ASSUME NEW c \in Clients, Store!Insert(c)
      PROVE  /\ Stored(file)' = Stored(file) \cup {CallStatus[c].rec}
             /\ \E s : CallStatus' = [CallStatus EXCEPT ![c] = s] /\ s.rec = CallStatus[c].rec
  <2>1. CallStatus' = [CallStatus EXCEPT ![c] = [CallStatus[c] EXCEPT !.phase = "ok"]]
    BY <1>7 DEF Store!Insert, Store!Become
  <2>2. [CallStatus[c] EXCEPT !.phase = "ok"].rec = CallStatus[c].rec
    BY <1>2
  <2> QED BY <1>7, <2>1, <2>2 DEF Store!Insert
<1>8. \A c \in Clients : ~Store!Delete(c)
  BY <1>2 DEF Store!Delete
<1>9. CASE Store!Next
  <2>1. PICK c \in Clients : \/ Store!Invoke(c) \/ Store!Insert(c) \/ Store!Delete(c)
                             \/ Store!Read(c) \/ Store!Fail(c) \/ Store!Leave(c)
    BY <1>9 DEF Store!Next
  <2>2. CASE Store!Invoke(c) \/ Store!Leave(c)
    BY <1>4, <1>5, <2>2
  <2>3. CASE Store!Read(c) \/ Store!Fail(c)
    BY <1>4, <1>6, <2>3
  <2>4. CASE Store!Insert(c)
    BY <1>4, <1>7, <2>4
  <2> QED BY <1>8, <2>1, <2>2, <2>3, <2>4
<1> QED BY <1>1, <1>3, <1>9

(* Without deletions what is known stays stored.                           *)
LEMMA StoredStep ==
    ASSUME "del" \notin Ops, StoredInv, [Next]_vars
    PROVE  StoredInv'
<1>1. /\ IInv /\ IInv' /\ KnownIsStored /\ Stored(file) \subseteq Stored(file)'
      /\ \A c \in Clients : CallStatus'[c].phase = "ok" /\ CallStatus'[c].op = "write" =>
                               CallStatus'[c].rec \in Stored(file)'
  BY IInvStep, StoreGrows DEF StoredInv
<1>2. CASE UNCHANGED vars
  BY <1>1, <1>2 DEF vars, StoredInv, KnownIsStored, TimeOf
<1>3. CASE Next
  <2>1. PICK c \in Clients : StepOf(c)
    BY <1>1, <1>3, NextIsStep
  <2>2. \A d \in Clients : call'[d].op # "del"
    BY <2>1 DEF StepOf, StoredInv
  <2>3. \A tm \in Learnt(c) : \E r \in Stored(file) : TimeOf(tm, r)
    <3>1. ASSUME call[c].op = "write", call[c].ok, At(c, "CloseDB")
          PROVE  call[c].rec \in Stored(file) /\ TimeOf(call[c].time, call[c].rec)
      <4>1. CallStatus[c].phase = "ok" /\ CallStatus[c].op = "write" /\ CallStatus[c].rec = call[c].rec
        BY <3>1 DEF CallStatus, Phase, At
      <4> QED
        BY <1>1, <3>1, <4>1 DEF StoredInv, IInv, CallInv, OpInv, KeyInv, TimeOf
    <3>2. \A i \in Index : Holds(file, i) =>
            /\ file.tab["RECORD"][i] \in Stored(file)
            /\ TimeOf(StringToTime[file.tab["RECORD"][i].create], file.tab["RECORD"][i])
      BY <1>1, StoredRows DEF TimeOf
    <3> QED BY <3>1, <3>2 DEF Learnt
  <2>4. \A d \in Clients : \A tm \in known'[d] : \E r \in Stored(file) : TimeOf(tm, r)
    BY <1>1, <2>1, <2>3 DEF StepOf, KnownIsStored
  <2>5. KnownIsStored'
    BY <1>1, <2>4 DEF KnownIsStored, TimeOf
  <2> QED BY <1>1, <2>2, <2>5 DEF StoredInv
<1> QED BY <1>2, <1>3

(* At the start nothing is known.                                          *)
LEMMA StoredInit == Init => StoredInv
<1> SUFFICES ASSUME Init PROVE StoredInv
  OBVIOUS
<1>1. \A c \in Clients : call[c] = NoCall /\ known[c] = {}
  BY DEF Init
<1>2. \A c \in Clients : call[c].op # "del" /\ CallStatus[c].phase # "ok"
  <2>1. NoCall.op = "none" /\ NoCall.pc = "idle"
    BY DEF NoCall
  <2>2. \A c \in Clients : CallStatus[c].phase = "idle"
    BY <1>1, <2>1 DEF CallStatus, Phase
  <2> QED BY <1>1, <2>1, <2>2
<1> QED BY <1>1, <1>2, IInvInit DEF StoredInv, KnownIsStored

(* As long as nobody deletes, every creation time a program knows is that  *)
(* of a whole stored record, as it was written or as a listing reads it,   *)
(* although others fail and die.                                           *)
THEOREM KnownStaysStored ==
    ASSUME "del" \notin Ops
    PROVE  Spec => []KnownIsStored
<1>1. StoredInv /\ [Next]_vars => StoredInv'
  BY StoredStep
<1>2. StoredInv => KnownIsStored
  BY DEF StoredInv
<1> QED BY <1>1, <1>2, StoredInit, PTL DEF Spec

-----------------------------------------------------------------------------
(* ReadReturnsStored                                                       *)

(* The tables a read has been in before step pc.                           *)
ReadBefore(pc) == CASE pc = "ReadRecInfo"               -> {}
                    [] pc \in {"ReadIndex", "ReadEvent"} -> {"RECORD"}
                    [] pc = "ReadFeedback"              -> {"RECORD", "EVENT"}
                    [] pc = "ReadEffect"                -> {"RECORD", "EVENT", "FEEDBACK"}
                    [] OTHER                            -> Tables

(* The record at index i of the file is the one that is being read.        *)
ReadsAt(k, db, i) ==
    /\ Holds(db, i)
    /\ db.tab["RECORD"][i].create = k.key
    /\ k.pc \in Later => k.idx = i
    /\ \A t \in ReadBefore(k.pc) : k.got[t] = db.tab["RECORD"][i]

(* The time of the read is not that of the record it was listed for, but an*)
(* hour off: there is no record of this time, or one that was added since. *)
MisheardIn(db, tm) ==
    \E r \in Stored(db) : StringToTime[r.create] = tm /\ TimeToString[tm] # r.create

AddedSince(k, db, i) ==
    /\ Holds(db, i)
    /\ db.tab["RECORD"][i].create = k.key
    /\ k.pc \in Later /\ k.idx = i
    /\ \A t \in ReadBefore(k.pc) \ {"RECORD"} : k.got[t] = db.tab["RECORD"][i]

ReadsAmiss(k, db) ==
    /\ MisheardIn(db, k.time)
    /\ k.got["RECORD"] = NoRow
    /\ \/ /\ k.pc \in Later => k.idx = NoIndex
          /\ \A t \in Sections : k.got[t] = NoRow
       \/ \E i \in Index : AddedSince(k, db, i)

WholeReadInv(k, db) ==
    k.op = "read" /\ k.ok => /\ k.pc \in ReadSteps \cup {"CloseDB"}
                             /\ (\E i \in Index : ReadsAt(k, db, i)) \/ ReadsAmiss(k, db)

WholeInv == StoredInv /\ \A c \in Clients : WholeReadInv(call[c], file)

(* The file holds one record of a time at most.                            *)
LEMMA FoundIsTheOne ==
    ASSUME IInv, NEW i \in Index, Holds(file, i),
           NEW j \in IndexesFor(file, file.tab["RECORD"][i].create)
    PROVE  j = i
<1>1. i \in RecordsAt(file, file.tab["RECORD"][i].create)
  BY DEF RecordsAt, Holds
<1> QED BY <1>1 DEF IndexesFor

(* One more select of a read finds the same record.                        *)
LEMMA ReadsAtGoesOn ==
    ASSUME IInv, NEW c \in Clients, NEW i \in Index, ReadsAt(call[c], file, i),
           ReadGoesOn(c), call[c] \in Calls
    PROVE  WholeReadInv(call'[c], file)
<1> DEFINE k == call[c]
           after == call'[c]
<1>1. ReadsAt(k, file, i)
  OBVIOUS
<1>2. /\ k.got \in [Tables -> Row] /\ after.key = k.key
      /\ Tables = {"RECORD", "EVENT", "FEEDBACK", "EFFECT"}
      /\ Holds(file, i) /\ file.tab["RECORD"][i].create = k.key
      /\ \A t \in Tables : RowAt(file, t, i) = file.tab["RECORD"][i]
      /\ \A j \in IndexesFor(file, k.key) : j = i
  BY <1>1, StoredRows, FoundIsTheOne DEF ReadGoesOn, Calls, Tables, ReadsAt, RowAt
<1>3. CASE /\ k.pc = "ReadRecInfo" /\ after.pc = "ReadIndex"
           /\ \E j \in IndexesFor(file, k.key) :
                after.got = [k.got EXCEPT !["RECORD"] = RowAt(file, "RECORD", j)]
  <2>1. after.got["RECORD"] = file.tab["RECORD"][i]
    BY <1>2, <1>3
  <2> QED BY <1>2, <1>3, <2>1 DEF WholeReadInv, ReadsAt, ReadBefore, Later, ReadSteps
<1>4. CASE /\ k.pc = "ReadIndex" /\ after.pc = "ReadEvent"
           /\ after.idx \in IndexesFor(file, k.key) /\ after.got = k.got
  <2>1. ReadBefore(k.pc) = {"RECORD"} /\ ReadBefore(after.pc) = {"RECORD"} /\ after.idx = i
    BY <1>2, <1>4 DEF ReadBefore
  <2> QED BY <1>1, <1>2, <1>4, <2>1 DEF WholeReadInv, ReadsAt, ReadSteps
<1>5. ASSUME NEW s \in Selects, k.pc = s[2], after.pc = s[3], after.idx = k.idx,
             after.got = [k.got EXCEPT ![s[1]] = RowAt(file, s[1], k.idx)]
      PROVE  WholeReadInv(after, file)
  <2>1. /\ s[1] \in Tables /\ k.pc \in Later /\ after.pc \in ReadSteps \cup {"CloseDB"}
        /\ ReadBefore(after.pc) = ReadBefore(k.pc) \cup {s[1]}
        /\ ReadBefore(k.pc) \subseteq Tables
    BY <1>2, <1>5 DEF Selects, Later, ReadSteps, ReadBefore
  <2>2. k.idx = i
    BY <1>1, <2>1 DEF ReadsAt
  <2>3. \A t \in ReadBefore(after.pc) : after.got[t] = file.tab["RECORD"][i]
    BY <1>1, <1>2, <1>5, <2>1, <2>2 DEF ReadsAt
  <2>4. ReadsAt(after, file, i)
    BY <1>2, <1>5, <2>2, <2>3 DEF ReadsAt
  <2> QED BY <2>1, <2>4 DEF WholeReadInv
<1> QED BY <1>3, <1>4, <1>5 DEF ReadGoesOn

(* One more select of a read at a time that was misheard finds nothing, or *)
(* the record that was added since.                                        *)
LEMMA ReadsAmissGoesOn ==
    ASSUME IInv, NEW c \in Clients, ReadsAmiss(call[c], file),
           ReadGoesOn(c), call[c] \in Calls
    PROVE  WholeReadInv(call'[c], file)
<1> DEFINE k == call[c]
           after == call'[c]
<1>1. /\ k.got \in [Tables -> Row] /\ after.time = k.time /\ after.key = k.key
      /\ Tables = {"RECORD", "EVENT", "FEEDBACK", "EFFECT"}
      /\ Sections = {"EVENT", "FEEDBACK", "EFFECT"}
      /\ MisheardIn(file, k.time) /\ k.got["RECORD"] = NoRow
      /\ NoIndex \notin Index
  BY DEF ReadGoesOn, Calls, Tables, Sections, ReadsAmiss, NoIndex, Index
<1>2. ASSUME NEW j \in IndexesFor(file, k.key)
      PROVE  \/ j = NoIndex
             \/ /\ j \in Index /\ Holds(file, j) /\ file.tab["RECORD"][j].create = k.key
                /\ RowAt(file, "RECORD", j) = file.tab["RECORD"][j]
  BY <1>1, <1>2, IndexesAreIndexes, FoundRow DEF RowAt
<1>3. CASE /\ k.pc = "ReadRecInfo" /\ after.pc = "ReadIndex"
           /\ \E j \in IndexesFor(file, k.key) :
                after.got = [k.got EXCEPT !["RECORD"] = RowAt(file, "RECORD", j)]
  <2>1. PICK j \in IndexesFor(file, k.key) :
          after.got = [k.got EXCEPT !["RECORD"] = RowAt(file, "RECORD", j)]
    BY <1>3
  <2>2. CASE j = NoIndex
    <3>1. \A t \in Sections : k.got[t] = NoRow
      BY <1>3 DEF ReadsAmiss, AddedSince, Later
    <3>2. after.got["RECORD"] = NoRow /\ \A t \in Sections : after.got[t] = NoRow
      BY <1>1, <2>1, <2>2, <3>1 DEF RowAt
    <3> QED BY <1>1, <1>3, <3>2 DEF WholeReadInv, ReadsAmiss, ReadSteps, Later
  <2>3. CASE j # NoIndex
    <3>1. after.got["RECORD"] = file.tab["RECORD"][j] /\ j \in Index
      BY <1>1, <1>2, <2>1, <2>3
    <3>2. ReadsAt(after, file, j)
      BY <1>1, <1>2, <1>3, <2>3, <3>1 DEF ReadsAt, ReadBefore, Later
    <3> QED BY <1>3, <3>1, <3>2 DEF WholeReadInv, ReadSteps
  <2> QED BY <2>2, <2>3
<1>4. CASE /\ k.pc = "ReadIndex" /\ after.pc = "ReadEvent"
           /\ after.idx \in IndexesFor(file, k.key) /\ after.got = k.got
  <2>1. \A t \in Sections : k.got[t] = NoRow
    BY <1>4 DEF ReadsAmiss, AddedSince, Later
  <2>2. CASE after.idx = NoIndex
    BY <1>1, <1>4, <2>1, <2>2 DEF WholeReadInv, ReadsAmiss, ReadSteps
  <2>3. CASE after.idx # NoIndex
    <3>1. after.idx \in Index /\ AddedSince(after, file, after.idx)
      BY <1>1, <1>2, <1>4, <2>3 DEF AddedSince, ReadBefore, Later
    <3> QED BY <1>1, <1>4, <3>1 DEF WholeReadInv, ReadsAmiss, ReadSteps
  <2> QED BY <2>2, <2>3
<1>5. ASSUME NEW s \in Selects, k.pc = s[2], after.pc = s[3], after.idx = k.idx,
             after.got = [k.got EXCEPT ![s[1]] = RowAt(file, s[1], k.idx)]
      PROVE  WholeReadInv(after, file)
  <2>1. /\ s[1] \in Sections /\ s[1] \in Tables
        /\ k.pc \in Later /\ after.pc \in Later \cap (ReadSteps \cup {"CloseDB"})
        /\ ReadBefore(after.pc) = ReadBefore(k.pc) \cup {s[1]}
        /\ ReadBefore(k.pc) \subseteq Tables
    BY <1>1, <1>5 DEF Selects, Later, ReadSteps, ReadBefore
  <2>2. after.got["RECORD"] = NoRow
    BY <1>1, <1>5, <2>1
  <2>3. CASE k.idx = NoIndex
    <3>1. \A t \in Sections : k.got[t] = NoRow
      BY <1>1, <2>3 DEF ReadsAmiss, AddedSince
    <3>2. \A t \in Sections : after.got[t] = NoRow
      BY <1>1, <1>5, <2>1, <2>3, <3>1 DEF RowAt
    <3> QED BY <1>1, <1>5, <2>1, <2>2, <2>3, <3>2 DEF WholeReadInv, ReadsAmiss
  <2>4. CASE k.idx # NoIndex
    <3>1. PICK i \in Index : AddedSince(k, file, i)
      BY <2>1, <2>4 DEF ReadsAmiss
    <3>2. k.idx = i /\ RowAt(file, s[1], i) = file.tab["RECORD"][i]
      BY <2>1, <3>1, StoredRows DEF AddedSince, RowAt
    <3>3. \A t \in ReadBefore(after.pc) \ {"RECORD"} : after.got[t] = file.tab["RECORD"][i]
      BY <1>1, <1>5, <2>1, <3>1, <3>2 DEF AddedSince
    <3>4. AddedSince(after, file, i)
      BY <1>1, <1>5, <2>1, <3>1, <3>2, <3>3 DEF AddedSince
    <3> QED BY <1>1, <2>1, <2>2, <3>4 DEF WholeReadInv, ReadsAmiss
  <2> QED BY <2>3, <2>4
<1> QED BY <1>3, <1>4, <1>5 DEF ReadGoesOn

(* Either way, the read goes on as it should.                              *)
LEMMA WholeReadGoesOn ==
    ASSUME IInv, NEW c \in Clients, WholeReadInv(call[c], file), ReadGoesOn(c),
           call[c] \in Calls
    PROVE  WholeReadInv(call'[c], file)
BY ReadsAtGoesOn, ReadsAmissGoesOn DEF WholeReadInv, ReadGoesOn

(* Without deletions a read goes on in one record.                         *)
LEMMA WholeStep ==
    ASSUME "del" \notin Ops, WholeInv, [Next]_vars
    PROVE  WholeInv'
<1>1. IInv /\ IInv' /\ StoredInv' /\ KnownIsStored
  BY StoredStep DEF WholeInv, StoredInv
<1>2. \A i \in Index : Holds(file, i) => /\ Holds(file', i)
                                        /\ file'.tab["RECORD"][i] = file.tab["RECORD"][i]
  BY <1>1, RowsStay DEF WholeInv, StoredInv, Holds
(* What is being read stays as long as nobody deletes.                     *)
<1>3. ASSUME NEW k, WholeReadInv(k, file) PROVE WholeReadInv(k, file')
  <2>1. Stored(file) \subseteq Stored(file')
    BY StoreGrows DEF WholeInv, Stored
  <2>2. MisheardIn(file, k.time) => MisheardIn(file', k.time)
    BY <2>1 DEF MisheardIn
  <2>3. \A i \in Index : AddedSince(k, file, i) => AddedSince(k, file', i)
    BY <1>2 DEF AddedSince
  <2>4. \A i \in Index : ReadsAt(k, file, i) => ReadsAt(k, file', i)
    BY <1>2 DEF ReadsAt
  <2> QED BY <1>3, <2>2, <2>3, <2>4 DEF WholeReadInv, ReadsAmiss
<1>4. CASE UNCHANGED vars
  BY <1>1, <1>4 DEF vars, WholeInv
<1>5. CASE Next
  <2>1. PICK c \in Clients : StepOf(c)
    BY <1>1, <1>5, NextIsStep
  <2>2. ASSUME NEW d \in Clients, call'[d] = call[d] PROVE WholeReadInv(call'[d], file')
    BY <1>3, <2>2 DEF WholeInv
  <2>3. CASE ReadStarts(c)
    <3>1. PICK r \in Stored(file) : TimeOf(call'[c].time, r)
      BY <1>1, <2>3 DEF ReadStarts, KnownIsStored
    <3>2. PICK i \in Index : Holds(file, i) /\ file.tab["RECORD"][i] = r
      BY <1>1, <3>1, StoredRows
    <3>3. WholeReadInv(call'[c], file)
      <4>1. call'[c].key = TimeToString[call'[c].time]
        BY <1>1, <2>3 DEF ReadStarts, IInv, KeyInv
      <4>2. CASE TimeToString[call'[c].time] = r.create
        BY <2>3, <3>2, <4>1, <4>2
           DEF ReadStarts, WholeReadInv, ReadsAt, ReadBefore, Later, ReadSteps
      <4>3. CASE TimeToString[call'[c].time] # r.create
        <5>1. MisheardIn(file, call'[c].time)
          BY <3>1, <4>3 DEF TimeOf, MisheardIn
        <5> QED
          BY <2>3, <5>1
             DEF ReadStarts, WholeReadInv, ReadsAmiss, Later, ReadSteps, Tables, Sections
      <4> QED BY <4>2, <4>3
    <3> QED BY <1>1, <1>3, <2>1, <2>2, <3>3 DEF WholeInv, StepOf
  <2>4. CASE ReadGoesOn(c)
    <3>1. call[c] \in Calls
      BY <1>1 DEF IInv, TypeOK
    <3>2. WholeReadInv(call'[c], file)
      BY <1>1, <2>4, <3>1, WholeReadGoesOn DEF WholeInv
    <3> QED BY <1>1, <1>3, <2>1, <2>2, <3>2 DEF WholeInv, StepOf
  <2>5. CASE NoGoodRead(c)
    <3>1. WholeReadInv(call'[c], file')
      BY <2>5 DEF NoGoodRead, WholeReadInv
    <3> QED BY <1>1, <2>1, <2>2, <3>1 DEF WholeInv, StepOf
  <2>6. CASE call'[c] = call[c]
    BY <1>1, <2>1, <2>2, <2>6 DEF WholeInv, StepOf
  <2> QED BY <2>1, <2>3, <2>4, <2>5, <2>6 DEF StepOf
<1> QED BY <1>4, <1>5

(* As long as nobody deletes, a ReadRecord that returns true hands over a  *)
(* whole stored record, although other programs write between its selects; *)
(* for nothing but a time a listing has wrong it hands over a blank one.   *)
THEOREM AlwaysReadsStored ==
    ASSUME "del" \notin Ops
    PROVE  Spec => []ReadReturnsStored
<1>1. Init => WholeInv
  <2> SUFFICES ASSUME Init PROVE WholeInv
    OBVIOUS
  <2>1. \A c \in Clients : WholeReadInv(call[c], file)
    BY DEF Init, NoCall, WholeReadInv
  <2> QED BY <2>1, StoredInit DEF WholeInv
<1>2. WholeInv /\ [Next]_vars => WholeInv'
  BY WholeStep
<1>3. WholeInv => ReadReturnsStored
  <2> DEFINE Parts(k, tables) == \E r \in Stored(file) : /\ r.create = k.key
                                                        /\ \A t \in tables : k.got[t] = r
             Blank(k, tables) == \A t \in tables : k.got[t] = NoRow
  <2> SUFFICES ASSUME WholeInv, NEW c \in Clients,
                      call[c].pc = "CloseDB", call[c].op = "read", call[c].ok
               PROVE  \/ Parts(call[c], Tables)
                      \/ /\ Misheard(call[c].time)
                         /\ Blank(call[c], {"RECORD"})
                         /\ Blank(call[c], Sections) \/ Parts(call[c], Sections)
    BY DEF ReadReturnsStored, At
  <2>1. ReadBefore(call[c].pc) = Tables /\ Sections \subseteq Tables \ {"RECORD"}
    BY DEF ReadBefore, Tables, Sections
  <2>2. \A i \in Index : Holds(file, i) => file.tab["RECORD"][i] \in Stored(file)
    BY StoredRows DEF WholeInv, StoredInv
  <2>3. ASSUME NEW i \in Index, ReadsAt(call[c], file, i) PROVE Parts(call[c], Tables)
    BY <2>1, <2>2, <2>3 DEF ReadsAt
  <2>4. CASE ReadsAmiss(call[c], file)
    <3>1. Misheard(call[c].time) /\ Blank(call[c], {"RECORD"})
      BY <2>4 DEF ReadsAmiss, MisheardIn, Misheard
    <3>2. ASSUME NEW i \in Index, AddedSince(call[c], file, i) PROVE Parts(call[c], Sections)
      BY <2>1, <2>2, <3>2 DEF AddedSince
    <3> QED BY <2>4, <3>1, <3>2 DEF ReadsAmiss
  <2> QED BY <2>3, <2>4 DEF WholeInv, WholeReadInv
<1> QED BY <1>1, <1>2, <1>3, PTL DEF Spec

-----------------------------------------------------------------------------
(* Failures                                                                *)

Alone(c) == \A d \in Clients \ {c} : lock[d] = "none"

Fails(c) == call[c].ok /\ ~call'[c].ok /\ call'[c].pc # "idle"

FailsOnlyFor(c) ==
    \/ ~Alone(c)
    \/ call[c].op = "write" /\ NotWritable(call[c].rec)
    \/ call[c].op = "write" /\ file.seq = MaxIndex

NothingFails == Faults \cap {"select", "exec", "commit"} = {}

-----------------------------------------------------------------------------
(* Nobody keeps a call that is alone from anything it asks of SQLite.      *)
LEMMA AloneMayDoAll ==
    ASSUME NEW c \in Clients, Alone(c), NothingFails
    PROVE  /\ CanRead(c) /\ CanWrite(c) /\ CanCommit(c)
           /\ ~SelectFails(c)
           /\ \A parses, accepted \in BOOLEAN :
                Refuses(c, parses, accepted) => ~parses \/ ~accepted
BY DEF Alone, NothingFails, CanRead, CanWrite, CanCommit, IsWriter, SelectFails, Refuses

(* A call that is alone and has written nothing sees the committed file.   *)
LEMMA AloneSeesFile ==
    ASSUME IInv, NEW c \in Clients, Alone(c), ~IsWriter(c)
    PROVE  work = file /\ View(c) = file
BY DEF IInv, WorkInv, Alone, IsWriter, View

(* A committed row makes a stored record.                                  *)
LEMMA RowIsStored ==
    ASSUME IInv, NEW i \in Index, NEW t \in Tables, file.tab[t][i] # NoRow
    PROVE  file.tab[t][i] \in Stored(file)
<1>1. \A u \in Tables : file.tab[u][i] = file.tab[t][i]
  BY DEF IInv, FileInv, Whole
<1>2. file.tab[t][i] \in Recs
  BY DEF IInv, TypeOK, DBTypeOK, Database, Row
<1> QED BY <1>1, <1>2 DEF Stored

(* A creation time that is in the file cannot be inserted again.           *)
LEMMA TimeTaken ==
    ASSUME IInv, NEW r \in Recs, RecordsAt(file, r.create) # {}
    PROVE  NotWritable(r)
<1>1. PICK i \in Index : file.tab["RECORD"][i] # NoRow /\ file.tab["RECORD"][i].create = r.create
  BY DEF RecordsAt
<1> QED BY <1>1, RowIsStored DEF NotWritable, Tables

(* In the committed file the index of a creation time is always found.     *)
LEMMA IndexIsFound ==
    ASSUME IInv, NEW tm
    PROVE  IndexesFor(file, tm) # {}
<1>1. \A i, j \in RecordsAt(file, tm) : i = j
  BY DEF IInv, FileInv, Unique, Holds, RecordsAt
<1> QED BY <1>1 DEF IndexesFor

(* A call whose step leaves bResult as it is does not fail.                *)
LEMMA GoingOn ==
    ASSUME TypeOK, NEW c \in Clients, NEW step, NEW k,
           \/ GoTo(c, step)
           \/ \E i : GoToWithIndex(c, step, i)
           \/ Becomes(c, k) /\ k.ok = call[c].ok
    PROVE  ~Fails(c)
<1>1. call[c] \in Calls
  BY BecomesCall
<1>2. CASE GoTo(c, step)
  <2>1. call'[c] = [call[c] EXCEPT !.pc = step]
    BY <1>2, BecomesCall DEF GoTo
  <2> QED BY <1>1, <2>1 DEF Calls, Fails
<1>3. ASSUME NEW i, GoToWithIndex(c, step, i) PROVE ~Fails(c)
  <2>1. call'[c] = [call[c] EXCEPT !.pc = step, !.idx = i]
    BY <1>3, BecomesCall DEF GoToWithIndex
  <2> QED BY <1>1, <2>1 DEF Calls, Fails
<1>4. CASE Becomes(c, k) /\ k.ok = call[c].ok
  BY <1>4, BecomesCall DEF Fails
<1> QED BY <1>2, <1>3, <1>4

-----------------------------------------------------------------------------
(* The statements of WriteRecord                                           *)

(* The statement on RECORD.                                                *)
LEMMA WriteRecInfoFails ==
    ASSUME IInv, NothingFails, NEW c \in Clients, WriteRecInfoByDateTime(c), Fails(c)
    PROVE  FailsOnlyFor(c)
<1> DEFINE r == call[c].rec
           update == call[c].seen
           parses == "RECORD" \notin r.bad
           accepted == update \/ (RecordsAt(work, r.create) = {} /\ work.seq < MaxIndex)
<1> SUFFICES ASSUME Alone(c) PROVE NotWritable(r) \/ file.seq = MaxIndex
  BY DEF FailsOnlyFor, IInv, CallInv, OpInv, WriteSteps, WriteRecInfoByDateTime, At
<1>1. /\ r \in Recs /\ call[c].key = r.create /\ ~IsWriter(c)
      /\ update => RecordsAt(file, r.create) # {}
  BY DEF WriteRecInfoByDateTime, IInv, At, CallInv, OpInv, LockInv, AnswerInv, WriteSteps,
     IsWriter
<1>2. work = file /\ file \in Database /\ file.seq \in 0..MaxIndex /\ update \in BOOLEAN
  BY <1>1, AloneSeesFile, BecomesCall DEF IInv, TypeOK, DBTypeOK, Database, Calls
<1>3. CASE update
  BY <1>1, <1>3, TimeTaken
<1>4. CASE ~update /\ ~accepted
  BY <1>1, <1>2, <1>4, TimeTaken, MaxIndexAssumption
<1>5. CASE ~parses
  BY <1>5 DEF NotWritable
<1>6. CASE ~update /\ accepted /\ parses
  <2>1. ~Refuses(c, parses, accepted)
    BY <1>6, AloneMayDoAll
  <2>2. work' = RecordRowPut(file, r, FALSE)
    BY <1>2, <1>6, <2>1 DEF WriteRecInfoByDateTime, Executes
  <2>3. IndexesFor(work', r.create) = {file.seq + 1}
    BY <1>1, <1>2, <1>6, <2>2, InsertRow
  <2> QED BY <2>1, <2>3, GoingOn DEF WriteRecInfoByDateTime, NothingFails, IInv
<1> QED BY <1>3, <1>4, <1>5, <1>6

(* The statement on one section: an update has no section of its own to    *)
(* write, and an insertion is refused only for its text or its event time. *)
LEMMA PutSectionFails ==
    ASSUME IInv, NothingFails, NEW c \in Clients, NEW t, NEW here, NEW next,
           PutSection(c, t, here, next), Fails(c),
           \/ t = "EVENT" /\ here = "WriteEvent"
           \/ t = "FEEDBACK" /\ here = "WriteFeedback"
           \/ t = "EFFECT" /\ here = "WriteEffect"
    PROVE  FailsOnlyFor(c)
<1> DEFINE r == call[c].rec
           i == call[c].idx
           exists == RowAt(work, t, i) # NoRow
           parses == t \notin r.bad /\ (exists => UpdateParses(t))
           accepted == /\ i \in Index
                       /\ ~exists => ~exists
                       /\ t = "EVENT" => EventTimeFree(work, i, r)
<1>1. /\ call[c].op = "write" /\ r \in Recs /\ call[c].key = r.create
      /\ Inserting(call[c]) \/ Updating(call[c])
      /\ call[c].pc = here /\ t \in Tables
  BY DEF PutSection, IInv, At, CallInv, OpInv, ProgressInv, WriteSteps, PutSteps, Tables
<1> SUFFICES ASSUME Alone(c) PROVE NotWritable(r)
  BY <1>1 DEF FailsOnlyFor
<1>2. Refuses(c, parses, accepted)
  BY GoingOn DEF PutSection, NothingFails, IInv
<1>3. CASE Updating(call[c])
  BY <1>1, <1>3, TimeTaken DEF Updating
<1>4. CASE Inserting(call[c])
  <2>1. i \in Index /\ i = file.seq + 1 /\ PutIn(work, file, Done(here), i, r) /\ t \notin Done(here)
    BY <1>1, <1>4 DEF Inserting, Done
  <2>2. \A j \in Index : work.tab[t][j] = file.tab[t][j]
    BY <1>1, <2>1 DEF PutIn
  <2>3. file.tab[t][i] = NoRow
    <3>1. file.seq \in Nat
      BY MaxIndexAssumption DEF IInv, TypeOK, DBTypeOK, Database
    <3> QED BY <1>1, <2>1, <3>1 DEF IInv, FileInv, Whole, Fresh, Holds, Index
  <2>4. ~exists
    BY <2>1, <2>2, <2>3 DEF RowAt
  <2>5. t \in r.bad \/ (t = "EVENT" /\ ~EventTimeFree(work, i, r))
    BY <1>2, <2>1, <2>4, AloneMayDoAll
  <2>6. CASE t = "EVENT" /\ ~EventTimeFree(work, i, r)
    <3>1. PICK j \in Index : file.tab[t][j] # NoRow /\ file.tab[t][j].event = r.event
      BY <2>2, <2>6 DEF EventTimeFree
    <3> QED BY <1>1, <3>1, RowIsStored DEF NotWritable
  <2> QED BY <2>5, <2>6 DEF NotWritable
<1> QED BY <1>1, <1>3, <1>4

-----------------------------------------------------------------------------
(* The other statements fail for nothing but another connection            *)

(* The select of DelRecord.                                                *)
LEMMA DelReadIndexFails ==
    ASSUME IInv, NothingFails, NEW c \in Clients, DelReadIndex(c), Fails(c)
    PROVE  ~Alone(c)
<1> SUFFICES ASSUME Alone(c) PROVE FALSE
  OBVIOUS
<1>1. ~IsWriter(c)
  BY DEF DelReadIndex, At, IInv, CallInv, LockInv, IsWriter
<1>2. View(c) = file /\ ~SelectFails(c) /\ IndexesFor(file, call[c].key) # {}
  BY <1>1, AloneSeesFile, AloneMayDoAll, IndexIsFound
<1> QED BY <1>2, GoingOn DEF DelReadIndex, IInv

(* The deletions.                                                          *)
LEMMA DeletionFails ==
    ASSUME IInv, NothingFails, NEW c \in Clients, Fails(c),
           DelRecInfoByDateTime(c) \/ \E t, here, next : DelSection(c, t, here, next)
    PROVE  ~Alone(c)
<1> SUFFICES ASSUME Alone(c) PROVE FALSE
  OBVIOUS
<1>1. ~Refuses(c, TRUE, TRUE)
  BY AloneMayDoAll
<1> QED BY <1>1, GoingOn DEF DelRecInfoByDateTime, DelSection, IInv

(* The selects of ReadRecord.                                              *)
LEMMA ReadFails ==
    ASSUME IInv, NothingFails, NEW c \in Clients, Fails(c),
           \/ ReadRecInfoByDateTime(c) \/ ReadIndexByDateTime(c)
           \/ ReadEventByIndex(c) \/ ReadFeedbackByIndex(c) \/ ReadEffectByIndex(c)
    PROVE  ~Alone(c)
<1> SUFFICES ASSUME Alone(c) PROVE FALSE
  OBVIOUS
<1>1. View(c) = file /\ ~SelectFails(c) /\ IndexesFor(file, call[c].key) # {}
  <2>1. call[c].pc \in ReadSteps
    BY DEF ReadRecInfoByDateTime, ReadIndexByDateTime, ReadEventByIndex,
       ReadFeedbackByIndex, ReadEffectByIndex, ReadSection, At, ReadSteps
  <2> QED BY <2>1, AloneMayDoAll, IndexIsFound DEF IInv, CallInv, LockInv, View, IsWriter
<1>2. ASSUME NEW step, NEW t, NEW row,
             Becomes(c, [call[c] EXCEPT !.pc = step, !.got[t] = row])
      PROVE  FALSE
  <2>1. [call[c] EXCEPT !.pc = step, !.got[t] = row].ok = call[c].ok
    BY BecomesCall DEF IInv, Calls
  <2> QED BY <1>2, <2>1, GoingOn DEF IInv
<1>3. ASSUME NEW i, GoToWithIndex(c, "ReadEvent", i) PROVE FALSE
  BY <1>3, GoingOn DEF IInv
<1> QED
  BY <1>1, <1>2, <1>3 DEF ReadRecInfoByDateTime, ReadIndexByDateTime, ReadEventByIndex,
     ReadFeedbackByIndex, ReadEffectByIndex, ReadSection

(* Any step of a call.                                                     *)
LEMMA StepFails ==
    ASSUME IInv, NothingFails, NEW c \in Clients, Step(c), Fails(c)
    PROVE  FailsOnlyFor(c)
<1>1. CASE HasRecordTimeExisted(c)
  <2>1. \A b : [call[c] EXCEPT !.pc = "WriteRecInfo", !.seen = b].ok = call[c].ok
    BY BecomesCall DEF IInv, Calls
  <2> QED BY <1>1, <2>1, GoingOn DEF HasRecordTimeExisted, IInv
<1>2. CASE WriteEventByIndex(c) \/ WriteFeedbackByIndex(c) \/ WriteEffectByIndex(c)
  BY <1>2, PutSectionFails DEF WriteEventByIndex, WriteFeedbackByIndex, WriteEffectByIndex
<1>3. CASE \/ DelRecInfoByDateTime(c)
           \/ DelEventByIndex(c) \/ DelFeedbackByIndex(c) \/ DelEffectByIndex(c)
  BY <1>3, DeletionFails DEF DelEventByIndex, DelFeedbackByIndex, DelEffectByIndex,
     FailsOnlyFor
<1>4. CASE CommitTransaction(c)
  <2>1. Alone(c) => GoTo(c, "CloseDB")
    BY <1>4, AloneMayDoAll DEF CommitTransaction, NothingFails
  <2> QED BY <2>1, GoingOn DEF FailsOnlyFor, IInv
<1>5. CASE RollbackTransaction(c)
  BY <1>5, GoingOn DEF RollbackTransaction, IInv
<1>6. CASE CloseDB(c)
  BY <1>6, BecomesCall DEF CloseDB, Fails, NoCall, IInv
<1>7. CASE \/ ReadRecInfoByDateTime(c) \/ ReadIndexByDateTime(c)
           \/ ReadEventByIndex(c) \/ ReadFeedbackByIndex(c) \/ ReadEffectByIndex(c)
  BY <1>7, ReadFails DEF FailsOnlyFor
<1> QED
  BY <1>1, <1>2, <1>3, <1>4, <1>5, <1>6, <1>7, WriteRecInfoFails, DelReadIndexFails
     DEF Step, FailsOnlyFor

(* Only a step of its own makes a call fail.                               *)
LEMMA OnlyItself ==
    ASSUME IInv, Next, NEW c \in Clients, Fails(c)
    PROVE  Step(c)
<1>1. PICK d \in Clients :
        \/ \E tm \in Instants : \/ \E r \in Recs : WriteRecord(d, r, tm)
                                \/ ReadRecord(d, tm) \/ DelRecord(d, tm)
        \/ ReadAllRecordTime(d) \/ ReadAllRecordAbstract(d)
        \/ Step(d)
        \/ Crash(d)
  BY DEF Next
<1>2. ASSUME NEW op, NEW r, NEW tm, NEW first, Enter(d, op, r, tm, first) PROVE FALSE
  <2>1. call[d] = NoCall /\ \A e \in Clients \ {d} : call'[e] = call[e]
    BY <1>2, BecomesCall DEF Enter, At, IInv, CallInv, OpInv
  <2> QED BY <2>1 DEF Fails, NoCall
<1>3. CASE ReadAllRecordTime(d) \/ ReadAllRecordAbstract(d)
  BY <1>3 DEF ReadAllRecordTime, ReadAllRecordAbstract, Learn, Fails
<1>4. CASE Crash(d)
  BY <1>4, BecomesCall DEF Crash, Fails, NoCall, IInv
<1>5. ASSUME Step(d), c # d PROVE call'[c] = call[c]
  <2>1. \/ \E step : GoTo(d, step) \/ FailTo(d, step) \/ \E i : GoToWithIndex(d, step, i)
        \/ \E k : Becomes(d, k)
    BY <1>5 DEF Step, HasRecordTimeExisted, WriteRecInfoByDateTime, WriteEventByIndex,
       WriteFeedbackByIndex, WriteEffectByIndex, PutSection, DelReadIndex,
       DelRecInfoByDateTime, DelEventByIndex, DelFeedbackByIndex, DelEffectByIndex,
       DelSection, CommitTransaction, RollbackTransaction, CloseDB,
       ReadRecInfoByDateTime, ReadIndexByDateTime, ReadEventByIndex,
       ReadFeedbackByIndex, ReadEffectByIndex, ReadSection
  <2>2. \E k : Becomes(d, k)
    BY <2>1 DEF GoTo, FailTo, GoToWithIndex
  <2> QED BY <1>5, <2>2, BecomesCall DEF IInv
<1> QED
  BY <1>1, <1>2, <1>3, <1>4, <1>5 DEF WriteRecord, ReadRecord, DelRecord, Fails

-----------------------------------------------------------------------------
(* When no select, statement or commit fails of itself, every call that    *)
(* fails after sqlite3_open has a reason that can be named: the error chain*)
(* of bResult (DBInterface.cpp) refuses nothing it need not refuse.        *)
THEOREM AlwaysForAReason ==
    ASSUME NothingFails
    PROVE  Spec => FailsForAReason
<1> DEFINE ForAReason ==
      \A c \in Clients :
          (call[c].ok /\ ~call'[c].ok /\ call'[c].pc # "idle") =>
              \/ \E d \in Clients \ {c} : lock[d] # "none"
              \/ call[c].op = "write" /\ NotWritable(call[c].rec)
              \/ call[c].op = "write" /\ file.seq = MaxIndex
<1>1. IInv /\ [Next]_vars => [ForAReason]_vars
  <2> SUFFICES ASSUME IInv, Next, NEW c \in Clients, Fails(c) PROVE FailsOnlyFor(c)
    BY DEF Fails, FailsOnlyFor, Alone
  <2> QED BY OnlyItself, StepFails
<1>2. Spec => [][Next]_vars
  BY DEF Spec
<1> QED BY <1>1, <1>2, Invariance, PTL DEF FailsForAReason
=============================================================================
