------------------------- MODULE DBInterfaceProofs -------------------------
(***************************************************************************)
(* Proofs about DBInterface, for every set of programs and records: its    *)
(* type invariant, that the committed tables always agree, that no lock or *)
(* uncommitted change survives a call, and that it implements RecordStore. *)
(*                                                                         *)
(* None of these is inductive alone. What carries them is IInv, which says *)
(* how far the one writing transaction has got (its uncommitted tables are *)
(* the committed ones with one row put or cleared in those it has reached) *)
(* and what the SHARED lock of a call protects (an answer it relies on).   *)
(***************************************************************************)
EXTENDS DBInterface, TLAPS

(* The inductive invariant                                                 *)

Holds(db, i) == db.tab["RECORD"][i] # NoRow

Whole(db) == \A i \in Index : \A t \in Tables : db.tab[t][i] = db.tab["RECORD"][i]

Fresh(db) == \A i \in Index : i > db.seq => ~Holds(db, i)

Unique(db) == \A i, j \in Index : i # j /\ Holds(db, i) /\ Holds(db, j) =>
                  /\ db.tab["RECORD"][i].create # db.tab["RECORD"][j].create
                  /\ db.tab["RECORD"][i].event # db.tab["RECORD"][j].event

FileInv == Whole(file) /\ Fresh(file) /\ Unique(file)

WorkInv == /\ \A c, d \in Clients : IsWriter(c) /\ IsWriter(d) => c = d
           /\ (\A c \in Clients : ~IsWriter(c)) => work = file

(* The steps at which a call of each kind can be.                          *)
WriteSteps == {"HasRecordTimeExisted", "WriteRecInfo", "WriteEvent", "WriteFeedback",
               "WriteEffect"}
DelSteps   == {"DelReadIndex", "DelRecInfo", "DelEvent", "DelFeedback", "DelEffect"}
ReadSteps  == {"ReadRecInfo", "ReadIndex", "ReadEvent", "ReadFeedback", "ReadEffect"}

(* The steps that follow a statement which changed the database.           *)
PutSteps   == {"WriteEvent", "WriteFeedback", "WriteEffect"}
ClearSteps == {"DelEvent", "DelFeedback", "DelEffect"}

OpInv(k) ==
    /\ k.pc = "idle" => k = NoCall
    /\ k.pc # "idle" => k.op \in {"write", "del", "read"}
    /\ k.pc \in WriteSteps => k.op = "write" /\ k.ok
    /\ k.pc \in DelSteps => k.op = "del"
    /\ k.pc \in DelSteps \ {"DelRecInfo"} => k.ok
    /\ k.pc \in ReadSteps => k.op = "read" /\ k.ok
    /\ k.pc = "EndTransaction" => k.op \in {"write", "del"}
    /\ k.op = "write" => k.rec \in Recs /\ k.key = k.rec.create
    /\ k.op # "write" => k.rec = NoRow
    /\ k.op \in {"del", "read"} => k.key \in Times

LockInv(k, l) ==
    /\ k.pc \in ReadSteps \cup {"idle"} => l = "none"
    /\ k.pc \in {"HasRecordTimeExisted", "WriteRecInfo", "DelReadIndex", "DelRecInfo"}
          => l \in {"none", "shared"}
    /\ k.pc \in PutSteps \cup ClearSteps => l = "reserved"
    /\ k.pc = "EndTransaction" /\ k.ok => l = "reserved"
    /\ k.pc = "CloseDB" /\ k.ok => l = "none"
    /\ l = "pending" => k.pc = "CloseDB"

(* What a call was told and relies on is still so.                         *)
AnswerInv(k, l) ==
    /\ k.pc = "HasRecordTimeExisted" => ~k.seen
    /\ k.pc = "WriteRecInfo" /\ k.seen => l = "shared" /\ RecordsAt(file, k.key) # {}
    /\ k.pc = "DelRecInfo" /\ k.ok => l = "shared" /\ k.idx \in IndexesFor(file, k.key)

(* The tables a transaction has reached before step pc.                    *)
Done(pc) == CASE pc \in {"WriteEvent", "DelEvent"}       -> {"RECORD"}
              [] pc \in {"WriteFeedback", "DelFeedback"} -> {"RECORD", "EVENT"}
              [] pc \in {"WriteEffect", "DelEffect"}     -> {"RECORD", "EVENT", "FEEDBACK"}
              [] OTHER                                   -> Tables

(* db is base with row r at index i of the tables in done.                 *)
PutIn(db, base, done, i, r) ==
    \A t \in Tables : \A j \in Index :
        db.tab[t][j] = IF t \in done /\ j = i THEN r ELSE base.tab[t][j]

Inserting(k) ==
    /\ k.idx = file.seq + 1
    /\ k.idx \in Index
    /\ work.seq = k.idx
    /\ RecordsAt(file, k.key) = {}
    /\ PutIn(work, file, Done(k.pc), k.idx, k.rec)
    /\ k.pc # "WriteEvent" => EventTimeFree(file, k.idx, k.rec)

(* An update gets no further than its first section.                       *)
Updating(k) ==
    /\ k.pc = "WriteEvent"
    /\ k.idx \in Index
    /\ Holds(file, k.idx)
    /\ RecordsAt(file, k.key) # {}
    /\ \A t \in Sections : work.tab[t] = file.tab[t]

Deleting(k) ==
    /\ k.idx \in IndexesFor(file, k.key)
    /\ work.seq = file.seq
    /\ PutIn(work, file, Done(k.pc), k.idx, NoRow)

ProgressInv(k) ==
    /\ k.pc \in PutSteps \/ (k.pc = "EndTransaction" /\ k.ok /\ k.op = "write")
          => Inserting(k) \/ Updating(k)
    /\ k.pc \in ClearSteps \/ (k.pc = "EndTransaction" /\ k.ok /\ k.op = "del")
          => Deleting(k)

CallInv(c) == /\ OpInv(call[c])
              /\ LockInv(call[c], lock[c])
              /\ AnswerInv(call[c], lock[c])
              /\ ProgressInv(call[c])

(* A call looks for the text of the time it was made with.                 *)
KeyInv == \A c \in Clients : call[c].op # "none" =>
              call[c].time \in Instants /\ call[c].key = TimeToString[call[c].time]

IInv == /\ TypeOK
        /\ KeyInv
        /\ FileInv
        /\ WorkInv
        /\ \A c \in Clients : CallInv(c)

-----------------------------------------------------------------------------
(* Type correctness                                                        *)

(* An index found by a select is an index, or the empty string.            *)
LEMMA IndexesAreIndexes ==
    ASSUME NEW db, NEW tm
    PROVE  /\ RecordsAt(db, tm) \subseteq Index
           /\ IndexesFor(db, tm) \subseteq Index \cup {NoIndex}
BY DEF RecordsAt, IndexesFor

(* The statements that change the database keep its shape.                 *)
LEMMA DatabaseShapes ==
    ASSUME NEW db \in Database, NEW r \in Row, NEW tm, NEW t \in Tables, NEW i
    PROVE  /\ RecordRowPut(db, r, TRUE) \in Database
           /\ db.seq < MaxIndex => RecordRowPut(db, r, FALSE) \in Database
           /\ i \in Index => [db EXCEPT !.tab[t][i] = r] \in Database
           /\ RecordRowsDeleted(db, tm) \in Database
           /\ SectionRowDeleted(db, t, i) \in Database
<1>1. "RECORD" \in Tables /\ NoRow \in Row
  BY DEF Tables, Row
<1>2. /\ db.tab \in [Tables -> [Index -> Row]] /\ db.seq \in 0..MaxIndex
      /\ db = [tab |-> db.tab, seq |-> db.seq]
  BY DEF Database
<1>3. RecordRowPut(db, r, TRUE) \in Database
  BY <1>1, <1>2 DEF RecordRowPut, Database
<1>4. ASSUME db.seq < MaxIndex PROVE RecordRowPut(db, r, FALSE) \in Database
  <2>1. db.seq + 1 \in Index /\ db.seq + 1 \in 0..MaxIndex
    BY <1>2, <1>4, MaxIndexAssumption DEF Index
  <2> QED
    BY <1>1, <1>2, <2>1 DEF RecordRowPut, Database
<1>5. i \in Index => [db EXCEPT !.tab[t][i] = r] \in Database
  BY <1>2 DEF Database
<1>6. RecordRowsDeleted(db, tm) \in Database
  <2>1. [j \in Index |-> IF j \in RecordsAt(db, tm) THEN NoRow ELSE db.tab["RECORD"][j]]
          \in [Index -> Row]
    BY <1>1, <1>2
  <2> QED
    BY <1>1, <1>2, <2>1 DEF RecordRowsDeleted, Database
<1>7. SectionRowDeleted(db, t, i) \in Database
  BY <1>1, <1>2 DEF SectionRowDeleted, Database
<1> QED
  BY <1>3, <1>4, <1>5, <1>6, <1>7

(* Any place of a table holds a record or nothing.                         *)
LEMMA RowAtIsRow ==
    ASSUME NEW db \in Database, NEW t \in Tables, NEW i
    PROVE  RowAt(db, t, i) \in Row
BY DEF RowAt, Database, Row

(* What a connection sees is a database.                                   *)
LEMMA ViewIsDatabase ==
    ASSUME TypeOK, NEW c
    PROVE  View(c) \in Database
BY DEF TypeOK, DBTypeOK, View

(* The idle call is well-typed.                                            *)
LEMMA NoCallIsCall == NoCall \in Calls
BY DEF NoCall, Calls, Steps, Row

(* The moves of one call that the actions are made of.                     *)
LEMMA CallMoves ==
    ASSUME NEW k \in Calls, NEW step \in Steps
    PROVE  /\ [k EXCEPT !.pc = step] \in Calls
           /\ [k EXCEPT !.ok = FALSE, !.pc = step] \in Calls
           /\ \A b \in BOOLEAN : [k EXCEPT !.pc = step, !.seen = b] \in Calls
           /\ \A i \in Index \cup {NoIndex} : [k EXCEPT !.pc = step, !.idx = i] \in Calls
           /\ \A t \in Tables, r \in Row : [k EXCEPT !.pc = step, !.got[t] = r] \in Calls
<1>1. [k EXCEPT !.pc = step] \in Calls /\ [k EXCEPT !.ok = FALSE, !.pc = step] \in Calls
  BY DEF Calls
<1>2. ASSUME NEW b \in BOOLEAN PROVE [k EXCEPT !.pc = step, !.seen = b] \in Calls
  BY DEF Calls
<1>3. ASSUME NEW i \in Index \cup {NoIndex} PROVE [k EXCEPT !.pc = step, !.idx = i] \in Calls
  BY DEF Calls
<1>4. ASSUME NEW t \in Tables, NEW r \in Row
      PROVE  [k EXCEPT !.pc = step, !.got[t] = r] \in Calls
  BY DEF Calls
<1> QED
  BY <1>1, <1>2, <1>3, <1>4

(* A step of one call keeps the type of all calls.                         *)
LEMMA BecomesCall ==
    ASSUME TypeOK, NEW c \in Clients
    PROVE  /\ \A k : Becomes(c, k) =>
                  call'[c] = k /\ \A d \in Clients \ {c} : call'[d] = call[d]
           /\ \A k \in Calls : Becomes(c, k) => call' \in [Clients -> Calls]
           /\ call[c] \in Calls
           /\ \A step \in Steps :
                GoTo(c, step) \/ FailTo(c, step) => call' \in [Clients -> Calls]
           /\ \A step \in Steps, i \in Index \cup {NoIndex} :
                GoToWithIndex(c, step, i) => call' \in [Clients -> Calls]
<1>1. call \in [Clients -> Calls]
  BY DEF TypeOK
<1>2. \A k : Becomes(c, k) => call'[c] = k /\ \A d \in Clients \ {c} : call'[d] = call[d]
  BY <1>1 DEF Becomes
<1>3. \A k \in Calls : Becomes(c, k) => call' \in [Clients -> Calls]
  BY <1>1 DEF Becomes
<1> QED
  BY <1>1, <1>2, <1>3, CallMoves DEF GoTo, FailTo, GoToWithIndex

(* A step of one lock keeps the type of all locks.                         *)
LEMMA LockMoves ==
    ASSUME TypeOK, NEW c \in Clients
    PROVE  /\ HoldShared(c) => lock' \in [Clients -> Locks]
           /\ \A l \in Locks : [lock EXCEPT ![c] = l] \in [Clients -> Locks]
BY DEF TypeOK, DBTypeOK, Locks, HoldShared

(* Executed or refused, a statement keeps the types.                       *)
LEMMA StatementTypes ==
    ASSUME TypeOK, NEW c \in Clients, NEW parses, NEW accepted, NEW result
    PROVE  /\ Executes(c, parses, accepted, result) /\ result \in Database =>
                work' \in Database /\ lock' \in [Clients -> Locks]
           /\ Refuses(c, parses, accepted) =>
                work' \in Database /\ lock' \in [Clients -> Locks]
           /\ Release(c) =>
                file' \in Database /\ work' \in Database /\ lock' \in [Clients -> Locks]
<1>1. "reserved" \in Locks /\ "none" \in Locks
  BY DEF Locks
<1> QED
  BY <1>1, LockMoves DEF TypeOK, DBTypeOK, Executes, Refuses, Release, HoldReserved

(* Every step keeps the types. That a finished write has a creation time to*)
(* add to known takes KeyInv.                                              *)
LEMMA TypeStep ==
    ASSUME TypeOK, KeyInv, [Next]_vars
    PROVE  TypeOK'
<1> USE DEF TypeOK, DBTypeOK
<1>0. Tables = {"RECORD", "EVENT", "FEEDBACK", "EFFECT"}
  BY DEF Tables
<1>1. ASSUME NEW c \in Clients, NEW op, NEW r \in Row, NEW tm \in Instants,
             NEW first \in Steps, Enter(c, op, r, tm, first),
             op \in {"write", "read", "del"}
      PROVE  TypeOK'
  <2>1. PICK opened \in BOOLEAN :
          Becomes(c, [NoCall EXCEPT !.pc = IF opened THEN first ELSE "CloseDB",
                                    !.op = op, !.rec = r, !.time = tm,
                                    !.key = TimeToString[tm], !.ok = opened])
    BY <1>1 DEF Enter
  <2>2. (IF opened THEN first ELSE "CloseDB") \in Steps
    BY DEF Steps
  <2>3. [NoCall EXCEPT !.pc = IF opened THEN first ELSE "CloseDB",
                       !.op = op, !.rec = r, !.time = tm,
                       !.key = TimeToString[tm], !.ok = opened] \in Calls
    BY <1>1, <2>2, NoCallIsCall, ConversionAssumption DEF Calls
  <2> QED
    BY <1>1, <2>1, <2>3, BecomesCall DEF Enter, dbVars
<1>2. ASSUME NEW c \in Clients, NEW r \in Recs, NEW tm \in Instants,
             WriteRecord(c, r, tm)
      PROVE  TypeOK'
  BY <1>1, <1>2, RecsAssumption DEF WriteRecord, Row, Steps
<1>3. ASSUME NEW c \in Clients, NEW tm \in Instants, ReadRecord(c, tm) \/ DelRecord(c, tm)
      PROVE  TypeOK'
  BY <1>1, <1>3 DEF ReadRecord, DelRecord, Row, Steps
<1>4. ASSUME NEW c \in Clients, ReadAllRecordTime(c) \/ ReadAllRecordAbstract(c)
      PROVE  TypeOK'
  <2>1. ASSUME NEW i \in Index, file.tab["RECORD"][i] # NoRow
        PROVE  StringToTime[file.tab["RECORD"][i].create] \in Instants
    BY <2>1, <1>0, RecsAssumption, ConversionAssumption DEF Database, Row
  <2>2. PICK indexes \in SUBSET Index :
          /\ \A i \in indexes : file.tab["RECORD"][i] # NoRow
          /\ Learn(c, indexes)
    BY <1>4 DEF ReadAllRecordTime, ReadAllRecordAbstract
  <2> QED
    BY <2>1, <2>2 DEF Learn, dbVars
<1>5. ASSUME NEW c \in Clients, HasRecordTimeExisted(c) PROVE TypeOK'
  <2>1. "WriteRecInfo" \in Steps
    BY DEF Steps
  <2>2. call' \in [Clients -> Calls]
    BY <1>5, <2>1, CallMoves, BecomesCall DEF HasRecordTimeExisted
  <2> QED
    BY <1>5, <2>2, LockMoves DEF HasRecordTimeExisted
<1>6. ASSUME NEW c \in Clients, WriteRecInfoByDateTime(c) PROVE TypeOK'
  <2> DEFINE r == call[c].rec
             update == call[c].seen
             accepted == update \/ (RecordsAt(work, r.create) = {} /\ work.seq < MaxIndex)
  <2>1. "WriteEvent" \in Steps /\ "EndTransaction" \in Steps
    BY DEF Steps
  <2>2. call' \in [Clients -> Calls]
    BY <1>6, <2>1, BecomesCall, IndexesAreIndexes DEF WriteRecInfoByDateTime
  <2>3. r \in Row /\ update \in BOOLEAN
    BY DEF Calls
  <2>4. accepted => RecordRowPut(work, r, update) \in Database
    <3>1. CASE update
      BY <3>1, <2>3, <1>0, DatabaseShapes
    <3>2. CASE ~update
      BY <3>2, <2>3, <1>0, DatabaseShapes
    <3> QED
      BY <3>1, <3>2
  <2>5. \/ Executes(c, "RECORD" \notin r.bad, accepted, RecordRowPut(work, r, update))
        \/ Refuses(c, "RECORD" \notin r.bad, accepted)
    BY <1>6 DEF WriteRecInfoByDateTime
  <2>6. work' \in Database /\ lock' \in [Clients -> Locks]
    <3>1. accepted /\ Executes(c, "RECORD" \notin r.bad, accepted, RecordRowPut(work, r, update))
            => work' \in Database /\ lock' \in [Clients -> Locks]
      BY <2>4, StatementTypes
    <3> QED
      BY <2>5, <3>1, StatementTypes DEF Executes
  <2> QED
    BY <1>6, <2>2, <2>6 DEF WriteRecInfoByDateTime
<1>7. ASSUME NEW c \in Clients, NEW t \in Tables, NEW here, NEW next \in Steps,
             PutSection(c, t, here, next)
      PROVE  TypeOK'
  <2> DEFINE r == call[c].rec
             i == call[c].idx
  <2>1. PICK parses \in BOOLEAN, accepted \in BOOLEAN :
          /\ accepted => i \in Index
          /\ \/ /\ Executes(c, parses, accepted, [work EXCEPT !.tab[t][i] = r])
                /\ GoTo(c, next)
             \/ /\ Refuses(c, parses, accepted)
                /\ FailTo(c, "EndTransaction")
    BY <1>7 DEF PutSection
  <2>2. "EndTransaction" \in Steps
    BY DEF Steps
  <2>3. call' \in [Clients -> Calls]
    BY <2>1, <2>2, BecomesCall
  <2>4. r \in Row
    BY DEF Calls
  <2>5. accepted => [work EXCEPT !.tab[t][i] = r] \in Database
    BY <2>1, <2>4, DatabaseShapes
  <2>6. work' \in Database /\ lock' \in [Clients -> Locks]
    BY <2>1, <2>5, StatementTypes DEF Executes
  <2> QED
    BY <1>7, <2>3, <2>6 DEF PutSection
<1>8. ASSUME NEW c \in Clients, DelReadIndex(c) PROVE TypeOK'
  <2>1. "DelRecInfo" \in Steps
    BY DEF Steps
  <2>2. call' \in [Clients -> Calls]
    BY <1>8, <2>1, BecomesCall, IndexesAreIndexes DEF DelReadIndex
  <2> QED
    BY <1>8, <2>2, LockMoves DEF DelReadIndex
<1>9. ASSUME NEW c \in Clients, NEW result \in Database, NEW step \in Steps,
             \/ Executes(c, TRUE, TRUE, result) /\ GoTo(c, step)
             \/ Refuses(c, TRUE, TRUE) /\ FailTo(c, "EndTransaction"),
             UNCHANGED <<file, known>>
      PROVE  TypeOK'
  <2>1. "EndTransaction" \in Steps
    BY DEF Steps
  <2>2. call' \in [Clients -> Calls]
    BY <1>9, <2>1, BecomesCall
  <2> QED
    BY <1>9, <2>2, StatementTypes
<1>10. ASSUME NEW c \in Clients, DelRecInfoByDateTime(c) PROVE TypeOK'
  <2>1. RecordRowsDeleted(work, call[c].key) \in Database
    BY <1>0, DatabaseShapes DEF Row
  <2>2. (IF call[c].ok THEN "DelEvent" ELSE "EndTransaction") \in Steps
    BY DEF Steps
  <2> QED
    BY <1>9, <1>10, <2>1, <2>2 DEF DelRecInfoByDateTime
<1>11. ASSUME NEW c \in Clients, NEW t \in Tables, NEW here, NEW next \in Steps,
              DelSection(c, t, here, next)
       PROVE  TypeOK'
  <2>1. SectionRowDeleted(work, t, call[c].idx) \in Database
    BY DatabaseShapes DEF Row
  <2> QED
    BY <1>9, <1>11, <2>1 DEF DelSection
<1>12. ASSUME NEW c \in Clients, CommitTransaction(c) PROVE TypeOK'
  <2>1. "CloseDB" \in Steps /\ "none" \in Locks /\ "pending" \in Locks
    BY DEF Steps, Locks
  <2>2. call' \in [Clients -> Calls]
    BY <1>12, <2>1, BecomesCall DEF CommitTransaction
  <2>3. lock' \in [Clients -> Locks]
    BY <1>12, <2>1, LockMoves DEF CommitTransaction
  <2> QED
    BY <1>12, <2>2, <2>3 DEF CommitTransaction
<1>13. ASSUME NEW c \in Clients, RollbackTransaction(c) PROVE TypeOK'
  <2>1. "CloseDB" \in Steps
    BY DEF Steps
  <2>2. call' \in [Clients -> Calls]
    BY <1>13, <2>1, BecomesCall DEF RollbackTransaction
  <2> QED
    BY <1>13, <2>2, StatementTypes DEF RollbackTransaction, dbVars
<1>14. ASSUME NEW c \in Clients, CloseDB(c) PROVE TypeOK'
  <2>1. call' \in [Clients -> Calls]
    BY <1>14, BecomesCall, NoCallIsCall DEF CloseDB
  <2>2. call[c].op = "write" => call[c].time \in Instants
    BY DEF KeyInv
  <2> QED
    BY <1>14, <2>1, <2>2, StatementTypes DEF CloseDB
<1>15. ASSUME NEW c \in Clients, ReadRecInfoByDateTime(c) PROVE TypeOK'
  <2>1. "ReadIndex" \in Steps /\ "CloseDB" \in Steps
    BY DEF Steps
  <2>2. \A i : RowAt(View(c), "RECORD", i) \in Row
    BY <1>0, RowAtIsRow, ViewIsDatabase
  <2>3. call' \in [Clients -> Calls]
    BY <1>0, <1>15, <2>1, <2>2, CallMoves, BecomesCall DEF ReadRecInfoByDateTime
  <2> QED
    BY <1>15, <2>3 DEF ReadRecInfoByDateTime, dbVars
<1>16. ASSUME NEW c \in Clients, ReadIndexByDateTime(c) PROVE TypeOK'
  <2>1. "ReadEvent" \in Steps /\ "CloseDB" \in Steps
    BY DEF Steps
  <2>2. call' \in [Clients -> Calls]
    BY <1>16, <2>1, BecomesCall, IndexesAreIndexes DEF ReadIndexByDateTime
  <2> QED
    BY <1>16, <2>2 DEF ReadIndexByDateTime, dbVars
<1>17. ASSUME NEW c \in Clients, NEW t \in Tables, NEW here, NEW next \in Steps,
              ReadSection(c, t, here, next)
       PROVE  TypeOK'
  <2>1. "CloseDB" \in Steps
    BY DEF Steps
  <2>2. RowAt(View(c), t, call[c].idx) \in Row
    BY RowAtIsRow, ViewIsDatabase
  <2>3. call' \in [Clients -> Calls]
    BY <1>17, <2>1, <2>2, CallMoves, BecomesCall DEF ReadSection
  <2> QED
    BY <1>17, <2>3 DEF ReadSection, dbVars
<1>18. ASSUME NEW c \in Clients, Crash(c) PROVE TypeOK'
  <2>1. call' \in [Clients -> Calls]
    BY <1>18, BecomesCall, NoCallIsCall DEF Crash
  <2> QED
    BY <1>18, <2>1, StatementTypes DEF Crash
<1>19. ASSUME NEW c \in Clients, Step(c) PROVE TypeOK'
  <2>1. {"WriteFeedback", "WriteEffect", "EndTransaction", "DelFeedback", "DelEffect",
         "ReadFeedback", "ReadEffect", "CloseDB"} \subseteq Steps
    BY DEF Steps
  <2>2. CASE WriteEventByIndex(c) \/ WriteFeedbackByIndex(c) \/ WriteEffectByIndex(c)
    BY <1>0, <1>7, <2>1, <2>2 DEF WriteEventByIndex, WriteFeedbackByIndex, WriteEffectByIndex
  <2>3. CASE DelEventByIndex(c) \/ DelFeedbackByIndex(c) \/ DelEffectByIndex(c)
    BY <1>0, <1>11, <2>1, <2>3 DEF DelEventByIndex, DelFeedbackByIndex, DelEffectByIndex
  <2>4. CASE ReadEventByIndex(c) \/ ReadFeedbackByIndex(c) \/ ReadEffectByIndex(c)
    BY <1>0, <1>17, <2>1, <2>4 DEF ReadEventByIndex, ReadFeedbackByIndex, ReadEffectByIndex
  <2> QED
    BY <1>5, <1>6, <1>8, <1>10, <1>12, <1>13, <1>14, <1>15, <1>16, <1>19, <2>2, <2>3, <2>4
       DEF Step
<1>20. CASE UNCHANGED vars
  BY <1>20 DEF vars
<1> QED
  BY <1>2, <1>3, <1>4, <1>18, <1>19, <1>20 DEF Next

(* A call keeps its time and its key until it is over.                     *)
LEMMA KeyStep ==
    ASSUME TypeOK, KeyInv, [Next]_vars
    PROVE  KeyInv'
<1> DEFINE SameKey(c) == /\ \A d \in Clients \ {c} : call'[d] = call[d]
                        /\ \/ call'[c] = NoCall
                           \/ /\ call'[c].op = call[c].op
                              /\ call'[c].time = call[c].time
                              /\ call'[c].key = call[c].key
<1>0. call \in [Clients -> Calls]
  BY DEF TypeOK
<1>1. ASSUME NEW c \in Clients, SameKey(c) PROVE KeyInv'
  BY <1>1 DEF KeyInv, NoCall
<1>2. ASSUME NEW c \in Clients, NEW step \in Steps, GoTo(c, step) \/ FailTo(c, step)
      PROVE  SameKey(c)
  BY <1>0, <1>2 DEF GoTo, FailTo, Becomes, Calls
<1>3. ASSUME NEW c \in Clients, NEW step \in Steps, NEW i, GoToWithIndex(c, step, i)
      PROVE  SameKey(c)
  BY <1>0, <1>3 DEF GoToWithIndex, Becomes, Calls
<1>4. ASSUME NEW c \in Clients, NEW step \in Steps, NEW b \in BOOLEAN,
             Becomes(c, [call[c] EXCEPT !.pc = step, !.seen = b])
      PROVE  SameKey(c)
  BY <1>0, <1>4 DEF Becomes, Calls
<1>5. ASSUME NEW c \in Clients, NEW step \in Steps, NEW t, NEW r,
             Becomes(c, [call[c] EXCEPT !.pc = step, !.got[t] = r])
      PROVE  SameKey(c)
  BY <1>0, <1>5 DEF Becomes, Calls
<1>6. ASSUME NEW c \in Clients, Becomes(c, NoCall) PROVE SameKey(c)
  BY <1>0, <1>6 DEF Becomes
<1> HIDE DEF SameKey
<1>7. {"EndTransaction", "CloseDB", "DelRecInfo", "DelEvent", "DelFeedback", "DelEffect",
       "WriteRecInfo", "WriteEvent", "WriteFeedback", "WriteEffect", "ReadIndex",
       "ReadEvent", "ReadFeedback", "ReadEffect"} \subseteq Steps
  BY DEF Steps
<1>8. ASSUME NEW c \in Clients, HasRecordTimeExisted(c) PROVE SameKey(c)
  BY <1>8, <1>2, <1>4, <1>7 DEF HasRecordTimeExisted
<1>9. ASSUME NEW c \in Clients, WriteRecInfoByDateTime(c) PROVE SameKey(c)
  BY <1>9, <1>2, <1>3, <1>7 DEF WriteRecInfoByDateTime
<1>10. ASSUME NEW c \in Clients,
              \/ WriteEventByIndex(c) \/ WriteFeedbackByIndex(c) \/ WriteEffectByIndex(c)
       PROVE  SameKey(c)
  BY <1>10, <1>2, <1>7 DEF PutSection, WriteEventByIndex, WriteFeedbackByIndex,
     WriteEffectByIndex
<1>11. ASSUME NEW c \in Clients, DelReadIndex(c) \/ DelRecInfoByDateTime(c) PROVE SameKey(c)
  BY <1>11, <1>2, <1>3, <1>7 DEF DelReadIndex, DelRecInfoByDateTime
<1>12. ASSUME NEW c \in Clients,
              DelEventByIndex(c) \/ DelFeedbackByIndex(c) \/ DelEffectByIndex(c)
       PROVE  SameKey(c)
  BY <1>12, <1>2, <1>7 DEF DelSection, DelEventByIndex, DelFeedbackByIndex, DelEffectByIndex
<1>13. ASSUME NEW c \in Clients, CommitTransaction(c) \/ RollbackTransaction(c)
       PROVE  SameKey(c)
  BY <1>13, <1>2, <1>7 DEF CommitTransaction, RollbackTransaction
<1>14. ASSUME NEW c \in Clients, CloseDB(c) \/ Crash(c) PROVE SameKey(c)
  BY <1>14, <1>6 DEF CloseDB, Crash
<1>15. ASSUME NEW c \in Clients, ReadRecInfoByDateTime(c) \/ ReadIndexByDateTime(c)
       PROVE  SameKey(c)
  BY <1>15, <1>2, <1>3, <1>5, <1>7 DEF ReadRecInfoByDateTime, ReadIndexByDateTime
<1>16. ASSUME NEW c \in Clients,
              ReadEventByIndex(c) \/ ReadFeedbackByIndex(c) \/ ReadEffectByIndex(c)
       PROVE  SameKey(c)
  BY <1>16, <1>2, <1>5, <1>7 DEF ReadSection, ReadEventByIndex, ReadFeedbackByIndex,
     ReadEffectByIndex
<1>17. ASSUME NEW c \in Clients, Step(c) \/ Crash(c) PROVE KeyInv'
  BY <1>17, <1>1, <1>8, <1>9, <1>10, <1>11, <1>12, <1>13, <1>14, <1>15, <1>16 DEF Step
<1>18. ASSUME NEW c \in Clients, NEW op, NEW r, NEW tm \in Instants, NEW first,
              Enter(c, op, r, tm, first)
       PROVE  KeyInv'
  <2>1. PICK opened \in BOOLEAN :
          Becomes(c, [NoCall EXCEPT !.pc = IF opened THEN first ELSE "CloseDB",
                                    !.op = op, !.rec = r, !.time = tm,
                                    !.key = TimeToString[tm], !.ok = opened])
    BY <1>18 DEF Enter
  <2>2. /\ call'[c].time = tm /\ call'[c].key = TimeToString[tm]
        /\ \A d \in Clients \ {c} : call'[d] = call[d]
    BY <1>0, <2>1 DEF Becomes, NoCall
  <2> QED
    BY <2>2 DEF KeyInv
<1>19. ASSUME UNCHANGED call PROVE KeyInv'
  BY <1>19 DEF KeyInv
<1> QED
  BY <1>17, <1>18, <1>19 DEF Next, vars, WriteRecord, ReadRecord, DelRecord,
     ReadAllRecordTime, ReadAllRecordAbstract, Learn

-----------------------------------------------------------------------------
(* What the statements do to the tables                                    *)

(* What an insert into RECORD does to each table.                          *)
LEMMA InsertRow ==
    ASSUME NEW db \in Database, NEW r \in Recs, RecordsAt(db, r.create) = {},
           db.seq < MaxIndex
    PROVE  LET new == RecordRowPut(db, r, FALSE)
           IN  /\ db.seq + 1 \in Index
               /\ new.seq = db.seq + 1
               /\ PutIn(new, db, {"RECORD"}, db.seq + 1, r)
               /\ IndexesFor(new, r.create) = {db.seq + 1}
<1> DEFINE new == RecordRowPut(db, r, FALSE)
           n == db.seq + 1
<1>0. "RECORD" \in Tables /\ r # NoRow
  BY RecsAssumption DEF Tables
<1>1. n \in Index
  BY MaxIndexAssumption DEF Index, Database
<1>2. new.seq = n /\ PutIn(new, db, {"RECORD"}, n, r)
  BY <1>0, <1>1 DEF RecordRowPut, PutIn, Database
<1>3. new.tab["RECORD"][n] = r /\ \A j \in Index \ {n} : new.tab["RECORD"][j] = db.tab["RECORD"][j]
  BY <1>0, <1>1, <1>2 DEF PutIn
<1>4. RecordsAt(new, r.create) = {n}
  <2> HIDE DEF new, n
  <2> QED
    BY <1>0, <1>1, <1>3 DEF RecordsAt
<1>5. IndexesFor(new, r.create) = {n}
  <2> HIDE DEF new, n
  <2> QED
    BY <1>4 DEF IndexesFor
<1> QED
  BY <1>1, <1>2, <1>5

(* What an update of RECORD does to each table.                            *)
LEMMA UpdateRow ==
    ASSUME NEW db \in Database, NEW r \in Recs
    PROVE  LET new == RecordRowPut(db, r, TRUE)
           IN  /\ RecordsAt(new, r.create) = RecordsAt(db, r.create)
               /\ \A t \in Sections : new.tab[t] = db.tab[t]
<1> DEFINE new == RecordRowPut(db, r, TRUE)
<1>0. "RECORD" \in Tables /\ r # NoRow
  BY RecsAssumption DEF Tables
<1>1. \A j \in Index : new.tab["RECORD"][j] =
          IF j \in RecordsAt(db, r.create) THEN r ELSE db.tab["RECORD"][j]
  BY <1>0 DEF RecordRowPut, Database
<1>2. \A t \in Sections : new.tab[t] = db.tab[t]
  BY <1>0 DEF RecordRowPut, Database, Sections
<1>3. RecordsAt(new, r.create) = RecordsAt(db, r.create)
  <2> HIDE DEF new
  <2> QED
    BY <1>0, <1>1 DEF RecordsAt
<1> QED
  BY <1>2, <1>3

(* What the write of one section does to each table.                       *)
LEMMA PutRow ==
    ASSUME NEW db \in Database, NEW base, NEW done, NEW i \in Index, NEW r,
           NEW t \in Tables, PutIn(db, base, done, i, r)
    PROVE  LET new == [db EXCEPT !.tab[t][i] = r]
           IN  PutIn(new, base, done \cup {t}, i, r) /\ new.seq = db.seq
BY DEF PutIn, Database

(* What the deletion from RECORD does to each table.                       *)
LEMMA ClearRecord ==
    ASSUME NEW db \in Database, NEW tm, NEW i \in IndexesFor(db, tm)
    PROVE  LET new == RecordRowsDeleted(db, tm)
           IN  PutIn(new, db, {"RECORD"}, i, NoRow) /\ new.seq = db.seq
<1> DEFINE new == RecordRowsDeleted(db, tm)
<1>1. new.seq = db.seq /\ \A t \in Sections : new.tab[t] = db.tab[t]
  BY DEF RecordRowsDeleted, Database, Sections
<1>2. \A j \in Index : new.tab["RECORD"][j] =
          IF j \in RecordsAt(db, tm) THEN NoRow ELSE db.tab["RECORD"][j]
  BY DEF RecordRowsDeleted, Database, Tables
<1>3. \A j \in Index : j \in RecordsAt(db, tm) <=> j = i
  BY DEF IndexesFor, Index, NoIndex
<1>4. PutIn(new, db, {"RECORD"}, i, NoRow)
  <2> HIDE DEF new
  <2> QED
    BY <1>1, <1>2, <1>3 DEF PutIn, Sections
<1> QED
  BY <1>1, <1>4

(* What the deletion of one section does to each table.                    *)
LEMMA ClearRow ==
    ASSUME NEW db \in Database, NEW base, NEW done, NEW i, NEW t \in Tables,
           PutIn(db, base, done, i, NoRow)
    PROVE  LET new == SectionRowDeleted(db, t, i)
           IN  PutIn(new, base, done \cup {t}, i, NoRow) /\ new.seq = db.seq
BY DEF PutIn, Database, SectionRowDeleted

(* A finished insertion or deletion leaves the tables in order.            *)
LEMMA InsertedWhole ==
    ASSUME NEW db \in Database, NEW base \in Database, NEW r \in Recs,
           Whole(base), Fresh(base), Unique(base),
           base.seq + 1 \in Index, db.seq = base.seq + 1,
           RecordsAt(base, r.create) = {},
           EventTimeFree(base, base.seq + 1, r),
           PutIn(db, base, Tables, base.seq + 1, r)
    PROVE  Whole(db) /\ Fresh(db) /\ Unique(db)
<1> DEFINE n == base.seq + 1
<1>0. "RECORD" \in Tables /\ "EVENT" \in Tables
  BY DEF Tables
<1>1. \A t \in Tables : \A j \in Index :
          db.tab[t][j] = IF j = n THEN r ELSE base.tab[t][j]
  BY DEF PutIn
<1>2. Whole(db)
  BY <1>0, <1>1 DEF Whole
<1>3. Fresh(db)
  BY <1>0, <1>1, MaxIndexAssumption DEF Fresh, Holds, Index, Database
<1>4. ASSUME NEW j \in Index, j # n, Holds(base, j)
      PROVE  base.tab["RECORD"][j].create # r.create /\ base.tab["RECORD"][j].event # r.event
  BY <1>0, <1>4 DEF Holds, RecordsAt, EventTimeFree, Whole
<1>5. Unique(db)
  BY <1>0, <1>1, <1>4 DEF Unique, Holds
<1> QED
  BY <1>2, <1>3, <1>5

(* A transaction that has deleted from all tables may be committed.        *)
LEMMA DeletedWhole ==
    ASSUME NEW db \in Database, NEW base \in Database, NEW i,
           Whole(base), Fresh(base), Unique(base), db.seq = base.seq,
           PutIn(db, base, Tables, i, NoRow)
    PROVE  Whole(db) /\ Fresh(db) /\ Unique(db)
<1>0. "RECORD" \in Tables
  BY DEF Tables
<1>1. \A t \in Tables : \A j \in Index :
          db.tab[t][j] = IF j = i THEN NoRow ELSE base.tab[t][j]
  BY DEF PutIn
<1> QED
  BY <1>0, <1>1 DEF Whole, Fresh, Unique, Holds

-----------------------------------------------------------------------------
(* A step of one client and the invariant of the others                    *)

(* What the others rely on is protected by their own locks: the committed  *)
(* file changes only when they hold none, the uncommitted tables only when *)
(* they are not the writer.                                                *)
LEMMA OthersKeep ==
    ASSUME NEW d \in Clients, CallInv(d), call'[d] = call[d], lock'[d] = lock[d],
           file' = file \/ lock[d] = "none",
           (file' = file /\ work' = work) \/ ~IsWriter(d)
    PROVE  CallInv(d)'
<1>1. OpInv(call[d])'
  BY DEF CallInv, OpInv
<1>2. LockInv(call[d], lock[d])'
  BY DEF CallInv, LockInv
<1>3. AnswerInv(call[d], lock[d])'
  BY DEF CallInv, AnswerInv, RecordsAt, IndexesFor
<1>4. ProgressInv(call[d])'
  <2>1. CASE file' = file /\ work' = work
    BY <2>1 DEF CallInv, ProgressInv, Inserting, Updating, Deleting, RecordsAt,
                IndexesFor, PutIn, Holds, EventTimeFree
  <2>2. CASE ~IsWriter(d)
    BY <2>2 DEF CallInv, ProgressInv, LockInv, IsWriter
  <2> QED
    BY <2>1, <2>2
<1> QED
  BY <1>1, <1>2, <1>3, <1>4 DEF CallInv

(* The lock of one client changes, and nobody else's.                      *)
LEMMA LockBecomes ==
    ASSUME TypeOK, NEW c \in Clients, NEW l, lock' = [lock EXCEPT ![c] = l]
    PROVE  lock'[c] = l /\ \A d \in Clients \ {c} : lock'[d] = lock[d]
BY DEF TypeOK, DBTypeOK

(* A statement that changes the database, or is refused.                   *)
LEMMA StatementKeeps ==
    ASSUME IInv, NEW c \in Clients, NEW parses, NEW accepted, NEW result,
           \/ Executes(c, parses, accepted, result)
           \/ Refuses(c, parses, accepted),
           file' = file, \A d \in Clients \ {c} : call'[d] = call[d]
    PROVE  /\ FileInv' /\ WorkInv'
           /\ \A d \in Clients \ {c} : CallInv(d)'
           /\ lock'[c] \in {lock[c], "reserved"}
           /\ Executes(c, parses, accepted, result) => lock'[c] = "reserved"
<1>1. FileInv'
  BY DEF IInv, FileInv, Whole, Fresh, Unique, Holds
<1>2. \A d \in Clients \ {c} : lock'[d] = lock[d]
  BY LockBecomes DEF IInv, Executes, Refuses, HoldReserved
<1>3. /\ lock'[c] \in {lock[c], "reserved"}
      /\ Executes(c, parses, accepted, result) => lock'[c] = "reserved"
  BY LockBecomes DEF IInv, Executes, Refuses, HoldReserved
<1>4. \/ work' = work /\ lock' = lock
      \/ lock'[c] = "reserved" /\ \A d \in Clients \ {c} : ~IsWriter(d)
  BY <1>3, LockBecomes DEF IInv, Executes, Refuses, HoldReserved, CanWrite
<1>5. WorkInv'
  BY <1>1, <1>2, <1>4 DEF IInv, WorkInv, IsWriter
<1>6. ASSUME NEW d \in Clients \ {c} PROVE CallInv(d)'
  <2>1. work' = work \/ ~IsWriter(d)
    BY <1>4
  <2> QED
    BY <1>2, <2>1, OthersKeep DEF IInv
<1> QED
  BY <1>1, <1>3, <1>5, <1>6

(* A select, or any other step that leaves the database and its writer be. *)
LEMMA SelectKeeps ==
    ASSUME IInv, NEW c \in Clients, file' = file, work' = work,
           UNCHANGED lock \/ HoldShared(c),
           \A d \in Clients \ {c} : call'[d] = call[d]
    PROVE  /\ FileInv' /\ WorkInv'
           /\ \A d \in Clients \ {c} : CallInv(d)'
           /\ lock'[c] = lock[c] \/ (lock[c] = "none" /\ lock'[c] = "shared")
           /\ HoldShared(c) /\ ~IsWriter(c) => lock'[c] = "shared"
<1>1. FileInv'
  BY DEF IInv, FileInv, Whole, Fresh, Unique, Holds
<1>2. \A d \in Clients \ {c} : lock'[d] = lock[d]
  BY LockBecomes DEF IInv, HoldShared
<1>3. lock'[c] = lock[c] \/ (lock[c] = "none" /\ lock'[c] = "shared")
  BY LockBecomes DEF IInv, HoldShared
<1>4. HoldShared(c) /\ ~IsWriter(c) => lock'[c] = "shared"
  <2>1. lock[c] \in Locks
    BY DEF IInv, TypeOK, DBTypeOK
  <2> QED
    BY <2>1, LockBecomes DEF IInv, HoldShared, IsWriter, Locks
<1>5. WorkInv'
  BY <1>2, <1>3 DEF IInv, WorkInv, IsWriter
<1>6. ASSUME NEW d \in Clients \ {c} PROVE CallInv(d)'
  BY <1>2, OthersKeep DEF IInv
<1> QED
  BY <1>1, <1>3, <1>4, <1>5, <1>6

(* The end of a transaction that is not committed.                         *)
LEMMA ReleaseKeeps ==
    ASSUME IInv, NEW c \in Clients, Release(c),
           \A d \in Clients \ {c} : call'[d] = call[d]
    PROVE  /\ FileInv' /\ WorkInv'
           /\ \A d \in Clients \ {c} : CallInv(d)'
           /\ lock'[c] = "none"
<1>1. FileInv'
  BY DEF IInv, FileInv, Whole, Fresh, Unique, Holds, Release
<1>2. /\ lock'[c] = "none" /\ file' = file
      /\ \A d \in Clients \ {c} : lock'[d] = lock[d]
  BY LockBecomes DEF IInv, Release
<1>3. WorkInv'
  BY <1>2 DEF IInv, WorkInv, IsWriter, Release
<1>4. ASSUME NEW d \in Clients \ {c} PROVE CallInv(d)'
  <2>1. work' = work \/ ~IsWriter(d)
    BY DEF IInv, WorkInv, Release
  <2> QED
    BY <1>2, <2>1, OthersKeep DEF IInv
<1> QED
  BY <1>1, <1>2, <1>3, <1>4

-----------------------------------------------------------------------------
(* The step itself                                                         *)

(* What a step has to keep besides the types.                              *)
Keeps == /\ FileInv' /\ WorkInv'
         /\ \A c \in Clients : CallInv(c)'

(* A call that has failed promises nothing but its locks.                  *)
LEMMA FailedCall ==
    ASSUME IInv, NEW c \in Clients, NEW step \in {"EndTransaction", "CloseDB"},
           FailTo(c, step), call[c].pc # "idle",
           step = "EndTransaction" =>
              call[c].op \in {"write", "del"} /\ lock'[c] # "pending"
    PROVE  CallInv(c)'
<1>1. /\ call'[c].pc = step /\ call'[c].ok = FALSE /\ call'[c].op = call[c].op
      /\ call'[c].rec = call[c].rec /\ call'[c].key = call[c].key
  BY DEF FailTo, Becomes, IInv, TypeOK, Calls
<1> QED
  BY <1>1 DEF IInv, CallInv, OpInv, LockInv, AnswerInv, ProgressInv, WriteSteps, DelSteps,
              ReadSteps, PutSteps, ClearSteps

(* Entering a call keeps the invariant.                                    *)
LEMMA EnterKeeps ==
    ASSUME IInv, NEW c \in Clients, NEW op, NEW r, NEW tm \in Instants, NEW first,
           Enter(c, op, r, tm, first),
           \/ op = "write" /\ r \in Recs /\ TimeToString[tm] = r.create
              /\ first = "HasRecordTimeExisted"
           \/ op = "del" /\ r = NoRow /\ first = "DelReadIndex"
           \/ op = "read" /\ r = NoRow /\ first = "ReadRecInfo"
    PROVE  Keeps
<1>1. PICK opened \in BOOLEAN :
        Becomes(c, [NoCall EXCEPT !.pc = IF opened THEN first ELSE "CloseDB",
                                  !.op = op, !.rec = r, !.time = tm,
                                  !.key = TimeToString[tm], !.ok = opened])
  BY DEF Enter
<1>2. /\ call'[c].pc = (IF opened THEN first ELSE "CloseDB") /\ call'[c].op = op
      /\ call'[c].rec = r /\ call'[c].time = tm /\ call'[c].key = TimeToString[tm]
      /\ TimeToString[tm] \in Times /\ call'[c].ok = opened
      /\ call'[c].seen = FALSE
      /\ \A d \in Clients \ {c} : call'[d] = call[d]
  BY <1>1, ConversionAssumption DEF Becomes, IInv, TypeOK, NoCall
<1>3. file' = file /\ work' = work /\ lock' = lock
  BY DEF Enter, dbVars
<1>4. lock[c] = "none"
  BY DEF Enter, At, IInv, CallInv, LockInv
<1>5. CallInv(c)'
  BY <1>2, <1>3, <1>4 DEF CallInv, OpInv, LockInv, AnswerInv, ProgressInv, WriteSteps,
     DelSteps, ReadSteps, PutSteps, ClearSteps
<1>6. FileInv' /\ WorkInv' /\ \A d \in Clients \ {c} : CallInv(d)'
  BY <1>2, <1>3, SelectKeeps
<1> QED
  BY <1>5, <1>6 DEF Keeps

(* The action HasRecordTimeExisted keeps the invariant.                    *)
LEMMA HasRecordTimeExistedKeeps ==
    ASSUME IInv, NEW c \in Clients, HasRecordTimeExisted(c)
    PROVE  Keeps
<1>0. /\ call[c] \in Calls /\ call[c].pc = "HasRecordTimeExisted"
      /\ file' = file /\ work' = work
  BY BecomesCall DEF HasRecordTimeExisted, IInv, At
<1>1. lock[c] \in {"none", "shared"} /\ ~IsWriter(c) /\ View(c) = file
  BY <1>0 DEF IInv, CallInv, LockInv, IsWriter, View
<1>2. /\ call'[c].pc = "WriteRecInfo" /\ call'[c].ok = call[c].ok
      /\ call'[c].op = call[c].op /\ call'[c].rec = call[c].rec
      /\ call'[c].key = call[c].key
      /\ \A d \in Clients \ {c} : call'[d] = call[d]
      /\ \/ call'[c].seen = (RecordsAt(file, call[c].key) # {}) /\ HoldShared(c)
         \/ call'[c].seen = call[c].seen /\ lock' = lock
  <2>1. PICK b \in BOOLEAN :
          /\ Becomes(c, [call[c] EXCEPT !.pc = "WriteRecInfo", !.seen = b])
          /\ \/ (b <=> RecordsAt(file, call[c].key) # {}) /\ HoldShared(c)
             \/ (b <=> call[c].seen) /\ lock' = lock
    <3>1. CASE GoTo(c, "WriteRecInfo") /\ lock' = lock
      <4>1. [call[c] EXCEPT !.pc = "WriteRecInfo"]
              = [call[c] EXCEPT !.pc = "WriteRecInfo", !.seen = call[c].seen]
        BY <1>0 DEF Calls
      <4> QED
        BY <1>0, <3>1, <4>1 DEF GoTo, Calls
    <3>2. CASE /\ HoldShared(c)
               /\ Becomes(c, [call[c] EXCEPT !.pc = "WriteRecInfo",
                                             !.seen = RecordsAt(file, call[c].key) # {}])
      <4> WITNESS (RecordsAt(file, call[c].key) # {}) \in BOOLEAN
      <4> QED
        BY <3>2
    <3> QED
      BY <1>1, <3>1, <3>2 DEF HasRecordTimeExisted
  <2> QED
    BY <1>0, <2>1 DEF Becomes, IInv, TypeOK, Calls
<1>3. /\ FileInv' /\ WorkInv' /\ \A d \in Clients \ {c} : CallInv(d)'
      /\ lock'[c] \in {"none", "shared"} /\ (HoldShared(c) => lock'[c] = "shared")
  BY <1>0, <1>1, <1>2, SelectKeeps
<1>4. CallInv(c)'
  <2>1. call[c].op = "write" /\ call[c].ok /\ call[c].rec \in Recs
        /\ call[c].key = call[c].rec.create /\ ~call[c].seen
    BY <1>0 DEF IInv, CallInv, OpInv, AnswerInv, WriteSteps
  <2>2. RecordsAt(file, call[c].key)' = RecordsAt(file, call[c].key)
    BY <1>0, <1>2 DEF RecordsAt
  <2> QED
    BY <1>2, <1>3, <2>1, <2>2 DEF CallInv, OpInv, LockInv, AnswerInv, ProgressInv, WriteSteps,
       DelSteps, ReadSteps, PutSteps, ClearSteps
<1> QED
  BY <1>3, <1>4 DEF Keeps

(* A statement finds no other writer, and what it changes is the file.     *)
LEMMA NotYetWriter ==
    ASSUME IInv, NEW c \in Clients, NEW parses, NEW accepted, NEW result,
           ~IsWriter(c), Executes(c, parses, accepted, result)
    PROVE  work = file
BY DEF IInv, WorkInv, Executes, CanWrite

(* The action WriteRecInfoByDateTime keeps the invariant.                  *)
LEMMA WriteRecInfoByDateTimeKeeps ==
    ASSUME IInv, NEW c \in Clients, WriteRecInfoByDateTime(c)
    PROVE  Keeps
<1> DEFINE r == call[c].rec
           update == call[c].seen
           parses == "RECORD" \notin r.bad
           accepted == update \/ (RecordsAt(work, r.create) = {} /\ work.seq < MaxIndex)
           result == RecordRowPut(work, r, update)
<1>0. /\ call[c] \in Calls /\ call[c].pc = "WriteRecInfo" /\ file' = file
      /\ call[c].op = "write" /\ call[c].ok /\ r \in Recs /\ call[c].key = r.create
      /\ lock[c] \in {"none", "shared"} /\ ~IsWriter(c)
      /\ update => RecordsAt(file, r.create) # {}
  BY BecomesCall DEF WriteRecInfoByDateTime, IInv, At, CallInv, OpInv, LockInv, AnswerInv,
     WriteSteps, IsWriter
<1>1. \A d \in Clients \ {c} : call'[d] = call[d]
  BY BecomesCall DEF WriteRecInfoByDateTime, IInv, FailTo, GoToWithIndex
<1>2. Executes(c, parses, accepted, result) \/ Refuses(c, parses, accepted)
  BY DEF WriteRecInfoByDateTime
<1>3. /\ FileInv' /\ WorkInv' /\ \A d \in Clients \ {c} : CallInv(d)'
      /\ lock'[c] \in {"none", "shared", "reserved"}
      /\ Executes(c, parses, accepted, result) => lock'[c] = "reserved"
  <2> HIDE DEF parses, accepted, result
  <2> QED
    BY <1>0, <1>1, <1>2, StatementKeeps
<1>4. CASE FailTo(c, "EndTransaction")
  BY <1>0, <1>3, <1>4, FailedCall DEF Keeps
<1>5. ASSUME Executes(c, parses, accepted, result), NEW i \in IndexesFor(work', r.create),
             GoToWithIndex(c, "WriteEvent", i)
      PROVE  CallInv(c)'
  <2>1. work = file /\ accepted /\ work' = result /\ lock'[c] = "reserved"
    BY <1>0, <1>3, <1>5, NotYetWriter DEF Executes
  <2>2. /\ call'[c].pc = "WriteEvent" /\ call'[c].idx = i /\ call'[c].ok
        /\ call'[c].op = "write" /\ call'[c].rec = r /\ call'[c].key = r.create
    BY <1>0, <1>5 DEF GoToWithIndex, Becomes, IInv, TypeOK, Calls
  <2>3. file \in Database
    BY DEF IInv, TypeOK, DBTypeOK
  <2>4. CASE ~update
    <3>0. work' = RecordRowPut(file, r, FALSE)
      BY <1>0, <2>1, <2>4 DEF Calls
    <3>1. /\ RecordsAt(file, r.create) = {} /\ i = file.seq + 1 /\ i \in Index
          /\ work'.seq = i /\ PutIn(work', file, {"RECORD"}, i, r)
      BY <1>0, <1>5, <2>1, <2>3, <2>4, <3>0, InsertRow
    <3>2. Inserting(call[c])'
      BY <1>0, <2>2, <3>1 DEF Inserting, Done, RecordsAt, PutIn
    <3> QED
      BY <2>1, <2>2, <3>2, <1>0 DEF CallInv, OpInv, LockInv, AnswerInv, ProgressInv,
         WriteSteps, DelSteps, ReadSteps, PutSteps, ClearSteps
  <2>5. CASE update
    <3>0. work' = RecordRowPut(file, r, TRUE)
      BY <1>0, <2>1, <2>5 DEF Calls
    <3>1. /\ RecordsAt(work', r.create) = RecordsAt(file, r.create)
          /\ \A t \in Sections : work'.tab[t] = file.tab[t]
      BY <1>0, <2>3, <3>0, UpdateRow
    <3>2. i \in RecordsAt(file, r.create)
      BY <1>0, <1>5, <2>5, <3>1 DEF IndexesFor
    <3>3. Updating(call[c])'
      BY <1>0, <2>2, <3>1, <3>2 DEF Updating, RecordsAt, Holds
    <3> QED
      BY <2>1, <2>2, <3>3, <1>0 DEF CallInv, OpInv, LockInv, AnswerInv, ProgressInv,
         WriteSteps, DelSteps, ReadSteps, PutSteps, ClearSteps
  <2> QED
    BY <2>4, <2>5
<1> QED
  BY <1>3, <1>4, <1>5 DEF WriteRecInfoByDateTime, Keeps

(* The action PutSection keeps the invariant.                              *)
LEMMA PutSectionKeeps ==
    ASSUME IInv, NEW c \in Clients, NEW t, NEW here, NEW next,
           PutSection(c, t, here, next),
           \/ t = "EVENT" /\ here = "WriteEvent" /\ next = "WriteFeedback"
           \/ t = "FEEDBACK" /\ here = "WriteFeedback" /\ next = "WriteEffect"
           \/ t = "EFFECT" /\ here = "WriteEffect" /\ next = "EndTransaction"
    PROVE  Keeps
<1> DEFINE r == call[c].rec
           i == call[c].idx
           exists == RowAt(work, t, i) # NoRow
           result == [work EXCEPT !.tab[t][i] = r]
<1>0. /\ call[c] \in Calls /\ call[c].pc = here /\ here \in PutSteps /\ file' = file
      /\ call[c].op = "write" /\ call[c].ok /\ r \in Recs /\ call[c].key = r.create
      /\ lock[c] = "reserved" /\ (Inserting(call[c]) \/ Updating(call[c]))
      /\ t \in Tables /\ work \in Database
  BY BecomesCall DEF PutSection, IInv, TypeOK, DBTypeOK, At, CallInv, OpInv, LockInv,
     ProgressInv, WriteSteps, PutSteps, Tables
<1>1. PICK has \in BOOLEAN, parses \in BOOLEAN, accepted \in BOOLEAN :
        /\ parses => (has => UpdateParses(t))
        /\ accepted => /\ i \in Index
                       /\ ~has => ~exists
                       /\ t = "EVENT" => EventTimeFree(work, i, r)
        /\ \/ Executes(c, parses, accepted, result) /\ GoTo(c, next)
           \/ Refuses(c, parses, accepted) /\ FailTo(c, "EndTransaction")
  BY DEF PutSection
<1>2. \A d \in Clients \ {c} : call'[d] = call[d]
  BY <1>1, BecomesCall DEF IInv, FailTo, GoTo
<1>3. /\ FileInv' /\ WorkInv' /\ \A d \in Clients \ {c} : CallInv(d)'
      /\ lock'[c] = "reserved"
  <2> HIDE DEF result
  <2> QED
    BY <1>0, <1>1, <1>2, StatementKeeps
<1>4. CASE FailTo(c, "EndTransaction")
  <2>1. CallInv(c)'
    BY <1>0, <1>3, <1>4, FailedCall DEF PutSteps
  <2> QED
    BY <1>3, <2>1 DEF Keeps
<1>5. CASE Executes(c, parses, accepted, result) /\ GoTo(c, next)
  <2>1. work' = result /\ parses /\ accepted
    BY <1>5 DEF Executes
  <2>2. /\ call'[c].pc = next /\ call'[c].idx = i /\ call'[c].ok
        /\ call'[c].op = "write" /\ call'[c].rec = r /\ call'[c].key = r.create
    BY <1>0, <1>5 DEF GoTo, Becomes, IInv, TypeOK, Calls
  <2>3. ~Updating(call[c])
    <3>1. ASSUME Updating(call[c]) PROVE exists /\ t = "EVENT"
      BY <1>0, <3>1 DEF Updating, IInv, FileInv, Whole, Holds, RowAt, Sections, Tables
    <3> QED
      BY <1>1, <2>1, <3>1 DEF UpdateParses
  <2>4. Inserting(call[c])
    BY <1>0, <2>3
  <2>5. PutIn(work', file, Done(here) \cup {t}, i, r) /\ work'.seq = work.seq
    BY <1>0, <2>1, <2>4, PutRow DEF Inserting
  <2>6. Done(here) \cup {t} = Done(next)
    BY DEF Done, Tables
  <2>7. EventTimeFree(file, i, r)
    <3>1. ASSUME t = "EVENT" PROVE \A j \in Index \ {i} : work.tab["EVENT"][j] = file.tab["EVENT"][j]
      BY <1>0, <2>4, <3>1 DEF Inserting, PutIn
    <3>2. CASE t = "EVENT"
      BY <1>1, <2>1, <3>1, <3>2 DEF EventTimeFree
    <3>3. CASE t # "EVENT"
      BY <1>0, <2>4, <3>3 DEF Inserting
    <3> QED
      BY <3>2, <3>3
  <2>8. Inserting(call[c])'
    BY <1>0, <2>2, <2>4, <2>5, <2>6, <2>7 DEF Inserting, RecordsAt, EventTimeFree, PutIn
  <2>9. CallInv(c)'
    BY <1>0, <1>3, <2>2, <2>8 DEF CallInv, OpInv, LockInv, AnswerInv, ProgressInv,
       WriteSteps, DelSteps, ReadSteps, PutSteps, ClearSteps
  <2> QED
    BY <1>3, <2>9 DEF Keeps
<1> QED
  BY <1>1, <1>4, <1>5

(* The action DelReadIndex keeps the invariant.                            *)
LEMMA DelReadIndexKeeps ==
    ASSUME IInv, NEW c \in Clients, DelReadIndex(c)
    PROVE  Keeps
<1>0. /\ call[c] \in Calls /\ call[c].pc = "DelReadIndex" /\ call[c].op = "del"
      /\ call[c].ok /\ file' = file /\ work' = work
      /\ lock[c] \in {"none", "shared"} /\ ~IsWriter(c) /\ View(c) = file
      /\ call[c].rec = NoRow /\ call[c].key \in Times
  BY BecomesCall DEF DelReadIndex, IInv, At, CallInv, OpInv, LockInv, DelSteps, IsWriter, View
<1>1. \A d \in Clients \ {c} : call'[d] = call[d]
  BY BecomesCall DEF DelReadIndex, IInv, FailTo, GoToWithIndex
<1>2. /\ FileInv' /\ WorkInv' /\ \A d \in Clients \ {c} : CallInv(d)'
      /\ lock'[c] \in {"none", "shared"} /\ (HoldShared(c) => lock'[c] = "shared")
  BY <1>0, <1>1, SelectKeeps DEF DelReadIndex
<1>3. CASE FailTo(c, "DelRecInfo")
  <2>1. /\ call'[c].pc = "DelRecInfo" /\ call'[c].ok = FALSE /\ call'[c].op = "del"
        /\ call'[c].rec = NoRow /\ call'[c].key \in Times
    BY <1>0, <1>3 DEF FailTo, Becomes, IInv, TypeOK, Calls
  <2>2. CallInv(c)'
    BY <1>2, <2>1 DEF CallInv, OpInv, LockInv, AnswerInv, ProgressInv,
       WriteSteps, DelSteps, ReadSteps, PutSteps, ClearSteps
  <2> QED
    BY <1>2, <2>2 DEF Keeps
<1>4. ASSUME HoldShared(c), NEW i \in IndexesFor(file, call[c].key),
             GoToWithIndex(c, "DelRecInfo", i)
      PROVE  Keeps
  <2>1. /\ call'[c].pc = "DelRecInfo" /\ call'[c].ok /\ call'[c].op = "del"
        /\ call'[c].rec = NoRow /\ call'[c].key = call[c].key /\ call'[c].idx = i
    BY <1>0, <1>4 DEF GoToWithIndex, Becomes, IInv, TypeOK, Calls
  <2>2. call'[c].idx \in IndexesFor(file', call'[c].key)
    BY <1>0, <2>1
  <2>3. CallInv(c)'
    BY <1>0, <1>2, <1>4, <2>1, <2>2 DEF CallInv, OpInv, LockInv, AnswerInv, ProgressInv,
       WriteSteps, DelSteps, ReadSteps, PutSteps, ClearSteps, IndexesFor, RecordsAt
  <2> QED
    BY <1>2, <2>3 DEF Keeps
<1> QED
  BY <1>0, <1>3, <1>4 DEF DelReadIndex

(* The action DelRecInfoByDateTime keeps the invariant.                    *)
LEMMA DelRecInfoByDateTimeKeeps ==
    ASSUME IInv, NEW c \in Clients, DelRecInfoByDateTime(c)
    PROVE  Keeps
<1> DEFINE tm == call[c].key
           result == RecordRowsDeleted(work, tm)
           next == IF call[c].ok THEN "DelEvent" ELSE "EndTransaction"
<1>0. /\ call[c] \in Calls /\ call[c].pc = "DelRecInfo" /\ call[c].op = "del"
      /\ file' = file /\ lock[c] \in {"none", "shared"} /\ ~IsWriter(c)
      /\ call[c].rec = NoRow /\ tm \in Times
      /\ call[c].ok => call[c].idx \in IndexesFor(file, tm)
      /\ file \in Database
  BY BecomesCall DEF DelRecInfoByDateTime, IInv, TypeOK, DBTypeOK, At, CallInv, OpInv,
     LockInv, AnswerInv, DelSteps, IsWriter
<1>1. \/ Executes(c, TRUE, TRUE, result) /\ GoTo(c, next)
      \/ Refuses(c, TRUE, TRUE) /\ FailTo(c, "EndTransaction")
  BY DEF DelRecInfoByDateTime
<1>2. \A d \in Clients \ {c} : call'[d] = call[d]
  BY <1>1, BecomesCall DEF IInv, FailTo, GoTo
<1>3. /\ FileInv' /\ WorkInv' /\ \A d \in Clients \ {c} : CallInv(d)'
      /\ lock'[c] \in {"none", "shared", "reserved"}
      /\ Executes(c, TRUE, TRUE, result) => lock'[c] = "reserved"
  <2> HIDE DEF result
  <2> QED
    BY <1>0, <1>1, <1>2, StatementKeeps
<1>4. CASE FailTo(c, "EndTransaction")
  <2>1. CallInv(c)'
    BY <1>0, <1>3, <1>4, FailedCall
  <2> QED
    BY <1>3, <2>1 DEF Keeps
<1>5. CASE Executes(c, TRUE, TRUE, result) /\ GoTo(c, next)
  <2>1. work = file /\ work' = result /\ lock'[c] = "reserved"
    BY <1>0, <1>3, <1>5, NotYetWriter DEF Executes
  <2>2. /\ call'[c].pc = next /\ call'[c].op = "del" /\ call'[c].ok = call[c].ok
        /\ call'[c].rec = NoRow /\ call'[c].key = tm /\ call'[c].idx = call[c].idx
    BY <1>0, <1>5 DEF GoTo, Becomes, IInv, TypeOK, Calls
  <2>3. CASE call[c].ok
    <3>1. PutIn(work', file, {"RECORD"}, call[c].idx, NoRow) /\ work'.seq = file.seq
      BY <1>0, <2>1, <2>3, ClearRecord
    <3>2. Deleting(call[c])'
      BY <1>0, <2>2, <2>3, <3>1 DEF Deleting, Done, IndexesFor, RecordsAt, PutIn
    <3>3. CallInv(c)'
      BY <1>0, <2>1, <2>2, <2>3, <3>2 DEF CallInv, OpInv, LockInv, AnswerInv, ProgressInv,
         WriteSteps, DelSteps, ReadSteps, PutSteps, ClearSteps
    <3> QED
      BY <1>3, <3>3 DEF Keeps
  <2>4. CASE ~call[c].ok
    <3>1. CallInv(c)'
      BY <1>0, <2>1, <2>2, <2>4 DEF CallInv, OpInv, LockInv, AnswerInv, ProgressInv,
         WriteSteps, DelSteps, ReadSteps, PutSteps, ClearSteps
    <3> QED
      BY <1>3, <3>1 DEF Keeps
  <2> QED
    BY <2>3, <2>4
<1> QED
  BY <1>1, <1>4, <1>5

(* The action DelSection keeps the invariant.                              *)
LEMMA DelSectionKeeps ==
    ASSUME IInv, NEW c \in Clients, NEW t, NEW here, NEW next,
           DelSection(c, t, here, next),
           \/ t = "EVENT" /\ here = "DelEvent" /\ next = "DelFeedback"
           \/ t = "FEEDBACK" /\ here = "DelFeedback" /\ next = "DelEffect"
           \/ t = "EFFECT" /\ here = "DelEffect" /\ next = "EndTransaction"
    PROVE  Keeps
<1> DEFINE i == call[c].idx
           result == SectionRowDeleted(work, t, i)
<1>0. /\ call[c] \in Calls /\ call[c].pc = here /\ here \in ClearSteps /\ file' = file
      /\ call[c].op = "del" /\ call[c].ok /\ call[c].rec = NoRow /\ call[c].key \in Times
      /\ lock[c] = "reserved" /\ Deleting(call[c]) /\ t \in Tables /\ work \in Database
  BY BecomesCall DEF DelSection, IInv, TypeOK, DBTypeOK, At, CallInv, OpInv, LockInv,
     ProgressInv, DelSteps, ClearSteps, Tables
<1>1. \/ Executes(c, TRUE, TRUE, result) /\ GoTo(c, next)
      \/ Refuses(c, TRUE, TRUE) /\ FailTo(c, "EndTransaction")
  BY DEF DelSection
<1>2. \A d \in Clients \ {c} : call'[d] = call[d]
  BY <1>1, BecomesCall DEF IInv, FailTo, GoTo
<1>3. /\ FileInv' /\ WorkInv' /\ \A d \in Clients \ {c} : CallInv(d)'
      /\ lock'[c] = "reserved"
  <2> HIDE DEF result
  <2> QED
    BY <1>0, <1>1, <1>2, StatementKeeps
<1>4. CASE FailTo(c, "EndTransaction")
  <2>1. CallInv(c)'
    BY <1>0, <1>3, <1>4, FailedCall DEF ClearSteps
  <2> QED
    BY <1>3, <2>1 DEF Keeps
<1>5. CASE Executes(c, TRUE, TRUE, result) /\ GoTo(c, next)
  <2>1. work' = result
    BY <1>5 DEF Executes
  <2>2. /\ call'[c].pc = next /\ call'[c].idx = i /\ call'[c].ok /\ call'[c].op = "del"
        /\ call'[c].rec = NoRow /\ call'[c].key = call[c].key
    BY <1>0, <1>5 DEF GoTo, Becomes, IInv, TypeOK, Calls
  <2>3. PutIn(work', file, Done(here) \cup {t}, i, NoRow) /\ work'.seq = work.seq
    BY <1>0, <2>1, ClearRow DEF Deleting
  <2>4. Done(here) \cup {t} = Done(next)
    BY DEF Done, Tables
  <2>5. Deleting(call[c])'
    BY <1>0, <2>2, <2>3, <2>4 DEF Deleting, IndexesFor, RecordsAt, PutIn
  <2>6. CallInv(c)'
    BY <1>0, <1>3, <2>2, <2>5 DEF CallInv, OpInv, LockInv, AnswerInv, ProgressInv,
       WriteSteps, DelSteps, ReadSteps, PutSteps, ClearSteps
  <2> QED
    BY <1>3, <2>6 DEF Keeps
<1> QED
  BY <1>1, <1>4, <1>5

(* A transaction that is about to be committed has reached all the tables. *)
LEMMA ReadyToCommit ==
    ASSUME IInv, NEW c \in Clients, CommitTransaction(c)
    PROVE  /\ call[c].pc = "EndTransaction" /\ call[c].ok /\ lock[c] = "reserved"
           /\ file \in Database /\ work \in Database
           /\ \/ /\ call[c].op = "write" /\ call[c].rec \in Recs
                 /\ call[c].key = call[c].rec.create
                 /\ Inserting(call[c])
                 /\ PutIn(work, file, Tables, call[c].idx, call[c].rec)
                 /\ EventTimeFree(file, call[c].idx, call[c].rec)
              \/ /\ call[c].op = "del" /\ call[c].rec = NoRow /\ call[c].key \in Times
                 /\ Deleting(call[c])
                 /\ PutIn(work, file, Tables, call[c].idx, NoRow)
           /\ Whole(work) /\ Fresh(work) /\ Unique(work)
<1>1. /\ call[c].pc = "EndTransaction" /\ call[c].ok /\ lock[c] = "reserved"
      /\ file \in Database /\ work \in Database
      /\ call[c].op = "write" \/ call[c].op = "del"
  BY DEF CommitTransaction, At, IInv, TypeOK, DBTypeOK, CallInv, OpInv, LockInv
<1>2. Done("EndTransaction") = Tables
  BY DEF Done
<1>3. CASE call[c].op = "write"
  <2>1. /\ call[c].rec \in Recs /\ call[c].key = call[c].rec.create
        /\ Inserting(call[c]) \/ Updating(call[c])
    BY <1>1, <1>3 DEF IInv, CallInv, OpInv, ProgressInv
  <2>2. /\ Inserting(call[c])
        /\ PutIn(work, file, Tables, call[c].idx, call[c].rec)
        /\ EventTimeFree(file, call[c].idx, call[c].rec)
    BY <1>1, <1>2, <2>1 DEF Inserting, Updating
  <2>3. Whole(work) /\ Fresh(work) /\ Unique(work)
    BY <1>1, <2>1, <2>2, InsertedWhole DEF Inserting, IInv, FileInv
  <2> QED
    BY <1>1, <1>3, <2>1, <2>2, <2>3
<1>4. CASE call[c].op = "del"
  <2>1. call[c].rec = NoRow /\ call[c].key \in Times /\ Deleting(call[c])
    BY <1>1, <1>4 DEF IInv, CallInv, OpInv, ProgressInv
  <2>2. PutIn(work, file, Tables, call[c].idx, NoRow)
    BY <1>1, <1>2, <2>1 DEF Deleting
  <2>3. Whole(work) /\ Fresh(work) /\ Unique(work)
    BY <1>1, <2>1, <2>2, DeletedWhole DEF Deleting, IInv, FileInv
  <2> QED
    BY <1>1, <1>4, <2>1, <2>2, <2>3
<1> QED
  BY <1>1, <1>3, <1>4

(* The action CommitTransaction keeps the invariant.                       *)
LEMMA CommitTransactionKeeps ==
    ASSUME IInv, NEW c \in Clients, CommitTransaction(c)
    PROVE  Keeps
<1>0. /\ call[c] \in Calls /\ call[c].pc = "EndTransaction" /\ call[c].ok
      /\ lock[c] = "reserved" /\ work' = work
      /\ \A d \in Clients \ {c} : call'[d] = call[d] /\ ~IsWriter(d)
  BY BecomesCall, ReadyToCommit DEF CommitTransaction, IInv, WorkInv, IsWriter, GoTo, FailTo
<1>1. CASE CanCommit(c) /\ file' = work /\ lock' = [lock EXCEPT ![c] = "none"]
           /\ GoTo(c, "CloseDB")
  <2>1. lock'[c] = "none" /\ \A d \in Clients \ {c} : lock'[d] = lock[d]
    BY <1>1, LockBecomes DEF IInv
  <2>2. FileInv'
    BY <1>1, ReadyToCommit DEF FileInv, Whole, Fresh, Unique, Holds
  <2>3. WorkInv'
    BY <1>0, <1>1, <2>1 DEF WorkInv, IsWriter
  <2>4. ASSUME NEW d \in Clients \ {c} PROVE CallInv(d)'
    BY <1>0, <1>1, <2>1, OthersKeep DEF IInv, CanCommit
  <2>5. /\ call'[c].pc = "CloseDB" /\ call'[c].op = call[c].op
        /\ call'[c].rec = call[c].rec /\ call'[c].key = call[c].key
    BY <1>0, <1>1 DEF GoTo, Becomes, IInv, TypeOK, Calls
  <2>6. CallInv(c)'
    BY <1>0, <2>1, <2>5, ReadyToCommit DEF CallInv, OpInv, LockInv, AnswerInv,
       ProgressInv, WriteSteps, DelSteps, ReadSteps, PutSteps, ClearSteps
  <2> QED
    BY <2>2, <2>3, <2>4, <2>6 DEF Keeps
<1>2. CASE /\ file' = file /\ FailTo(c, "CloseDB")
           /\ lock' = lock \/ lock' = [lock EXCEPT ![c] = "pending"]
  <2>1. /\ lock'[c] \in {"reserved", "pending"}
        /\ \A d \in Clients \ {c} : lock'[d] = lock[d]
    BY <1>0, <1>2, LockBecomes DEF IInv
  <2>2. FileInv'
    BY <1>2 DEF IInv, FileInv, Whole, Fresh, Unique, Holds
  <2>3. WorkInv'
    BY <1>0, <1>2, <2>1 DEF IInv, WorkInv, IsWriter
  <2>4. ASSUME NEW d \in Clients \ {c} PROVE CallInv(d)'
    BY <1>0, <1>2, <2>1, OthersKeep DEF IInv
  <2>5. CallInv(c)'
    BY <1>0, <1>2, FailedCall
  <2> QED
    BY <2>2, <2>3, <2>4, <2>5 DEF Keeps
<1> QED
  BY <1>1, <1>2 DEF CommitTransaction

(* The action RollbackTransaction keeps the invariant.                     *)
LEMMA RollbackTransactionKeeps ==
    ASSUME IInv, NEW c \in Clients, RollbackTransaction(c)
    PROVE  Keeps
<1>0. /\ call[c] \in Calls /\ call[c].pc = "EndTransaction" /\ ~call[c].ok
      /\ call[c].op \in {"write", "del"}
      /\ \A d \in Clients \ {c} : call'[d] = call[d]
  BY BecomesCall DEF RollbackTransaction, IInv, CallInv, OpInv, At, GoTo
<1>1. FileInv' /\ WorkInv' /\ \A d \in Clients \ {c} : CallInv(d)'
  BY <1>0, ReleaseKeeps, SelectKeeps DEF RollbackTransaction, dbVars
<1>2. /\ call'[c].pc = "CloseDB" /\ call'[c].ok = FALSE /\ call'[c].op = call[c].op
      /\ call'[c].rec = call[c].rec /\ call'[c].key = call[c].key
  BY <1>0 DEF RollbackTransaction, GoTo, Becomes, IInv, TypeOK, Calls
<1>3. CallInv(c)'
  BY <1>0, <1>2 DEF IInv, CallInv, OpInv, LockInv, AnswerInv, ProgressInv,
     WriteSteps, DelSteps, ReadSteps, PutSteps, ClearSteps
<1> QED
  BY <1>1, <1>3 DEF Keeps

(* The call is over, by return or by death.                                *)
LEMMA LeaveKeeps ==
    ASSUME IInv, NEW c \in Clients, Release(c), Becomes(c, NoCall)
    PROVE  Keeps
<1>1. call'[c] = NoCall /\ \A d \in Clients \ {c} : call'[d] = call[d]
  BY DEF Becomes, IInv, TypeOK
<1>2. /\ FileInv' /\ WorkInv' /\ \A d \in Clients \ {c} : CallInv(d)'
      /\ lock'[c] = "none"
  BY <1>1, ReleaseKeeps
<1>3. CallInv(c)'
  BY <1>1, <1>2 DEF NoCall, CallInv, OpInv, LockInv, AnswerInv, ProgressInv,
     WriteSteps, DelSteps, ReadSteps, PutSteps, ClearSteps
<1> QED
  BY <1>2, <1>3 DEF Keeps

(* A select of ReadRecord is over; whatever it found, no lock is left.     *)
LEMMA ReadKeeps ==
    ASSUME IInv, NEW c \in Clients, call[c].pc \in ReadSteps, UNCHANGED dbVars,
           \A d \in Clients \ {c} : call'[d] = call[d],
           \/ FailTo(c, "CloseDB")
           \/ /\ call'[c].pc \in ReadSteps \cup {"CloseDB"} /\ call'[c].ok = call[c].ok
              /\ call'[c].op = call[c].op /\ call'[c].rec = call[c].rec
              /\ call'[c].key = call[c].key
    PROVE  Keeps
<1>1. FileInv' /\ WorkInv' /\ \A d \in Clients \ {c} : CallInv(d)'
  BY SelectKeeps DEF dbVars
<1>2. CASE FailTo(c, "CloseDB")
  BY <1>1, <1>2, FailedCall DEF ReadSteps, Keeps
<1>3. CASE /\ call'[c].pc \in ReadSteps \cup {"CloseDB"} /\ call'[c].ok = call[c].ok
           /\ call'[c].op = call[c].op /\ call'[c].rec = call[c].rec
           /\ call'[c].key = call[c].key
  <2>1. call[c].op = "read" /\ call[c].ok /\ lock'[c] = "none"
        /\ call[c].rec = NoRow /\ call[c].key \in Times
    BY DEF IInv, CallInv, OpInv, LockInv, dbVars, ReadSteps
  <2>2. CallInv(c)'
    BY <1>3, <2>1 DEF CallInv, OpInv, LockInv, AnswerInv, ProgressInv,
       WriteSteps, DelSteps, ReadSteps, PutSteps, ClearSteps
  <2> QED
    BY <1>1, <2>2 DEF Keeps
<1> QED
  BY <1>2, <1>3

(* The action ReadSection keeps the invariant.                             *)
LEMMA ReadSectionKeeps ==
    ASSUME IInv, NEW c \in Clients, NEW t, NEW here \in ReadSteps,
           NEW next \in ReadSteps \cup {"CloseDB"}, ReadSection(c, t, here, next)
    PROVE  Keeps
<1>1. /\ call[c] \in Calls /\ call[c].pc \in ReadSteps /\ UNCHANGED dbVars
      /\ \A d \in Clients \ {c} : call'[d] = call[d]
  BY BecomesCall DEF ReadSection, At, IInv, FailTo
<1>2. CASE FailTo(c, "CloseDB")
  BY <1>1, <1>2, ReadKeeps
<1>3. CASE Becomes(c, [call[c] EXCEPT !.pc = next,
                                      !.got[t] = RowAt(View(c), t, call[c].idx)])
  <2>1. /\ call'[c].pc = next /\ call'[c].ok = call[c].ok /\ call'[c].op = call[c].op
        /\ call'[c].rec = call[c].rec /\ call'[c].key = call[c].key
    BY <1>1, <1>3 DEF Becomes, IInv, TypeOK, Calls
  <2> QED
    BY <1>1, <2>1, ReadKeeps
<1> QED
  BY <1>2, <1>3 DEF ReadSection

(* The action ReadRecInfoByDateTime keeps the invariant.                   *)
LEMMA ReadRecInfoByDateTimeKeeps ==
    ASSUME IInv, NEW c \in Clients, ReadRecInfoByDateTime(c)
    PROVE  Keeps
<1>1. /\ call[c] \in Calls /\ call[c].pc \in ReadSteps /\ UNCHANGED dbVars
      /\ \A d \in Clients \ {c} : call'[d] = call[d]
  BY BecomesCall DEF ReadRecInfoByDateTime, At, IInv, FailTo, ReadSteps
<1>2. CASE FailTo(c, "CloseDB")
  BY <1>1, <1>2, ReadKeeps
<1>3. ASSUME NEW i,
             Becomes(c, [call[c] EXCEPT !.pc = "ReadIndex",
                                        !.got["RECORD"] = RowAt(View(c), "RECORD", i)])
      PROVE  Keeps
  <2>1. /\ call'[c].pc = "ReadIndex" /\ call'[c].ok = call[c].ok /\ call'[c].op = call[c].op
        /\ call'[c].rec = call[c].rec /\ call'[c].key = call[c].key
    BY <1>1, <1>3 DEF Becomes, IInv, TypeOK, Calls
  <2> QED
    BY <1>1, <2>1, ReadKeeps DEF ReadSteps
<1> QED
  BY <1>2, <1>3 DEF ReadRecInfoByDateTime

(* The action ReadIndexByDateTime keeps the invariant.                     *)
LEMMA ReadIndexByDateTimeKeeps ==
    ASSUME IInv, NEW c \in Clients, ReadIndexByDateTime(c)
    PROVE  Keeps
<1>1. /\ call[c] \in Calls /\ call[c].pc \in ReadSteps /\ UNCHANGED dbVars
      /\ \A d \in Clients \ {c} : call'[d] = call[d]
  BY BecomesCall DEF ReadIndexByDateTime, At, IInv, FailTo, GoToWithIndex, ReadSteps
<1>2. CASE FailTo(c, "CloseDB")
  BY <1>1, <1>2, ReadKeeps
<1>3. ASSUME NEW i, GoToWithIndex(c, "ReadEvent", i) PROVE Keeps
  <2>1. /\ call'[c].pc = "ReadEvent" /\ call'[c].ok = call[c].ok /\ call'[c].op = call[c].op
        /\ call'[c].rec = call[c].rec /\ call'[c].key = call[c].key
    BY <1>1, <1>3 DEF GoToWithIndex, Becomes, IInv, TypeOK, Calls
  <2> QED
    BY <1>1, <2>1, ReadKeeps DEF ReadSteps
<1> QED
  BY <1>2, <1>3 DEF ReadIndexByDateTime

(* IInv holds at the start and every step keeps it.                        *)
LEMMA IInvInit == Init => IInv
<1> SUFFICES ASSUME Init PROVE IInv
  OBVIOUS
<1> USE DEF Init, DBInit
<1>1. EmptyDB \in Database
  BY MaxIndexAssumption DEF EmptyDB, Database, Row
<1>2. TypeOK
  BY <1>1, NoCallIsCall DEF TypeOK, DBTypeOK, Locks
<1>3. FileInv
  BY DEF EmptyDB, FileInv, Whole, Fresh, Unique, Holds, Tables
<1>4. WorkInv /\ KeyInv
  BY DEF WorkInv, IsWriter, KeyInv, NoCall
<1>5. ASSUME NEW c \in Clients PROVE CallInv(c)
  BY DEF NoCall, CallInv, OpInv, LockInv, AnswerInv, ProgressInv,
     WriteSteps, DelSteps, ReadSteps, PutSteps, ClearSteps
<1> QED
  BY <1>2, <1>3, <1>4, <1>5 DEF IInv

(* Every step keeps the invariant.                                         *)
LEMMA IInvStep == IInv /\ [Next]_vars => IInv'
<1> SUFFICES ASSUME IInv, [Next]_vars PROVE IInv'
  OBVIOUS
<1>1. TypeOK' /\ KeyInv'
  BY TypeStep, KeyStep DEF IInv
<1>2. ASSUME NEW c \in Clients, NEW r \in Recs, NEW tm \in Instants,
             WriteRecord(c, r, tm)
      PROVE  Keeps
  BY <1>2, EnterKeeps DEF WriteRecord
<1>3. ASSUME NEW c \in Clients, NEW tm \in Instants, ReadRecord(c, tm) \/ DelRecord(c, tm)
      PROVE  Keeps
  BY <1>3, EnterKeeps DEF ReadRecord, DelRecord
<1>4. ASSUME UNCHANGED <<dbVars, call>> PROVE Keeps
  <2>1. FileInv' /\ WorkInv'
    BY <1>4 DEF dbVars, IInv, FileInv, Whole, Fresh, Unique, Holds, WorkInv, IsWriter
  <2>2. ASSUME NEW c \in Clients PROVE CallInv(c)'
    BY <1>4, OthersKeep DEF dbVars, IInv
  <2> QED
    BY <2>1, <2>2 DEF Keeps
<1>5. ASSUME NEW c \in Clients, ReadAllRecordTime(c) \/ ReadAllRecordAbstract(c)
      PROVE  Keeps
  BY <1>4, <1>5 DEF ReadAllRecordTime, ReadAllRecordAbstract, Learn
<1>6. ASSUME NEW c \in Clients, Crash(c) PROVE Keeps
  BY <1>6, LeaveKeeps DEF Crash
<1>7. ASSUME NEW c \in Clients, Step(c) PROVE Keeps
  <2>1. CASE WriteEventByIndex(c) \/ WriteFeedbackByIndex(c) \/ WriteEffectByIndex(c)
    BY <2>1, PutSectionKeeps DEF WriteEventByIndex, WriteFeedbackByIndex, WriteEffectByIndex
  <2>2. CASE DelEventByIndex(c) \/ DelFeedbackByIndex(c) \/ DelEffectByIndex(c)
    BY <2>2, DelSectionKeeps DEF DelEventByIndex, DelFeedbackByIndex, DelEffectByIndex
  <2>3. CASE ReadEventByIndex(c) \/ ReadFeedbackByIndex(c) \/ ReadEffectByIndex(c)
    BY <2>3, ReadSectionKeeps DEF ReadEventByIndex, ReadFeedbackByIndex, ReadEffectByIndex,
       ReadSteps
  <2>4. CASE CloseDB(c)
    BY <2>4, LeaveKeeps DEF CloseDB
  <2> QED
    BY <1>7, <2>1, <2>2, <2>3, <2>4, HasRecordTimeExistedKeeps, WriteRecInfoByDateTimeKeeps,
       DelReadIndexKeeps, DelRecInfoByDateTimeKeeps, CommitTransactionKeeps,
       RollbackTransactionKeeps, ReadRecInfoByDateTimeKeeps, ReadIndexByDateTimeKeeps
       DEF Step
<1>8. ASSUME UNCHANGED vars PROVE Keeps
  BY <1>4, <1>8 DEF vars, dbVars
<1>9. Keeps
  BY <1>2, <1>3, <1>5, <1>6, <1>7, <1>8 DEF Next
<1> QED
  BY <1>1, <1>9 DEF Keeps, IInv

-----------------------------------------------------------------------------
(* The theorems                                                            *)

(* However calls interleave, fail or die, the open transaction is as far   *)
(* as its call is, and what a held SHARED lock protects has not changed.   *)
THEOREM Invariance == Spec => []IInv
<1> QED
  BY IInvInit, IInvStep, PTL DEF Spec

(* The variables of DBInterface.tla always have their types: in particular *)
(* no call writes past the last index AUTOINCREMENT can give out.          *)
THEOREM TypeCorrect == Spec => []TypeOK
<1>1. IInv => TypeOK
  BY DEF IInv
<1> QED
  BY <1>1, Invariance, PTL

(* For every set of programs and records, and whatever fails: the four     *)
(* tables of the committed file agree at every index.                      *)
THEOREM AlwaysWhole == Spec => []RecordsWhole
<1>1. IInv => RecordsWhole
  BY DEF IInv, FileInv, Whole, RecordsWhole
<1> QED
  BY <1>1, Invariance, PTL

(* A connection whose call has returned holds no lock, and when all have   *)
(* returned no uncommitted change exists, even after a failed rollback.    *)
THEOREM AlwaysReleased == Spec => []LocksReleased
<1>1. IInv => LocksReleased
  <2> SUFFICES ASSUME IInv PROVE LocksReleased
    OBVIOUS
  <2>1. \A c \in Clients : At(c, "idle") => lock[c] = "none"
    BY DEF IInv, CallInv, LockInv, At
  <2> QED
    BY <2>1 DEF IInv, WorkInv, IsWriter, LocksReleased
<1> QED
  BY <1>1, Invariance, PTL

-----------------------------------------------------------------------------
(* DBInterface implements RecordStore                                      *)

(* The abstract status of the client that moves.                           *)
LEMMA StatusMoves ==
    ASSUME IInv, NEW c \in Clients, \A d \in Clients \ {c} : call'[d] = call[d]
    PROVE  /\ CallStatus' = [CallStatus EXCEPT ![c] =
                 [phase |-> Phase(call'[c]), op |-> call'[c].op, rec |-> call'[c].rec]]
           /\ CallStatus[c] =
                 [phase |-> Phase(call[c]), op |-> call[c].op, rec |-> call[c].rec]
<1>1. \A d \in Clients \ {c} : Phase(call'[d]) = Phase(call[d])
  OBVIOUS
<1> QED
  BY <1>1 DEF CallStatus

(* A step that changes nothing of the status but the phase.                *)
LEMMA PhaseMoves ==
    ASSUME IInv, NEW c \in Clients, \A d \in Clients \ {c} : call'[d] = call[d],
           call'[c].op = call[c].op, call'[c].rec = call[c].rec
    PROVE  /\ Store!Become(c, Phase(call'[c]))
           /\ CallStatus[c].phase = Phase(call[c])
           /\ CallStatus[c].op = call[c].op
           /\ CallStatus[c].rec = call[c].rec
<1>1. /\ CallStatus[c].phase = Phase(call[c])
      /\ CallStatus[c].op = call[c].op /\ CallStatus[c].rec = call[c].rec
  BY DEF CallStatus
<1>2. [phase |-> Phase(call'[c]), op |-> call'[c].op, rec |-> call'[c].rec]
        = [CallStatus[c] EXCEPT !.phase = Phase(call'[c])]
  BY DEF CallStatus
<1>3. CallStatus' = [CallStatus EXCEPT ![c] = [CallStatus[c] EXCEPT !.phase = Phase(call'[c])]]
  BY <1>2, StatusMoves
<1> QED
  BY <1>1, <1>3 DEF Store!Become

(* What is stored depends on the tables only.                              *)
LEMMA SameStored ==
    ASSUME file' = file
    PROVE  Stored(file)' = Stored(file)
BY DEF Stored

(* A step that is internal to its call is a stutter of the store.          *)
LEMMA InternalStutters ==
    ASSUME IInv, NEW c \in Clients, \A d \in Clients \ {c} : call'[d] = call[d],
           file' = file, Phase(call'[c]) = Phase(call[c]),
           call'[c].op = call[c].op, call'[c].rec = call[c].rec
    PROVE  UNCHANGED Store!vars
<1>1. CallStatus' = CallStatus
  <2>1. CallStatus' = [CallStatus EXCEPT ![c] = CallStatus[c]]
    BY StatusMoves, ZenonT(30)
  <2> QED
    BY <2>1 DEF CallStatus
<1> QED
  BY <1>1, SameStored DEF Store!vars

(* A call that fails is a failure of the abstract store.                   *)
LEMMA FailingFails ==
    ASSUME IInv, NEW c \in Clients, NEW step \in {"EndTransaction", "CloseDB", "DelRecInfo"},
           FailTo(c, step), call[c].pc \notin {"idle", "CloseDB"}, file' = file
    PROVE  Store!Fail(c) \/ UNCHANGED Store!vars
<1>1. /\ call'[c].pc = step /\ call'[c].ok = FALSE /\ call'[c].op = call[c].op
      /\ call'[c].rec = call[c].rec /\ \A d \in Clients \ {c} : call'[d] = call[d]
  BY DEF FailTo, Becomes, IInv, TypeOK, Calls
<1>2. Phase(call'[c]) = "failed"
  BY <1>1 DEF Phase
<1>3. CASE call[c].ok
  <2>1. Phase(call[c]) = "busy"
    BY <1>3 DEF Phase
  <2> QED
    BY <1>1, <1>2, <2>1, PhaseMoves, SameStored DEF Store!Fail
<1>4. CASE ~call[c].ok
  <2>1. Phase(call[c]) = "failed"
    BY <1>4 DEF Phase
  <2> QED
    BY <1>1, <1>2, <2>1, InternalStutters
<1>5. call[c].ok \in BOOLEAN
  BY DEF IInv, TypeOK, Calls
<1> QED
  BY <1>3, <1>4, <1>5

(* Entering a call invokes an abstract one.                                *)
LEMMA EnterInvokes ==
    ASSUME IInv, NEW c \in Clients, NEW op, NEW r, NEW tm \in Instants, NEW first,
           Enter(c, op, r, tm, first),
           \/ op = "write" /\ r \in Recs /\ first = "HasRecordTimeExisted"
           \/ op \in {"del", "read"} /\ r = NoRow /\ first \in {"DelReadIndex", "ReadRecInfo"}
    PROVE  Store!Invoke(c)
<1>1. PICK opened \in BOOLEAN :
        Becomes(c, [NoCall EXCEPT !.pc = IF opened THEN first ELSE "CloseDB",
                                  !.op = op, !.rec = r, !.time = tm,
                                  !.key = TimeToString[tm], !.ok = opened])
  BY DEF Enter
<1>2. /\ call'[c].pc = (IF opened THEN first ELSE "CloseDB") /\ call'[c].op = op
      /\ call'[c].rec = r /\ call'[c].ok = opened
      /\ \A d \in Clients \ {c} : call'[d] = call[d]
  BY <1>1, ConversionAssumption DEF Becomes, IInv, TypeOK, NoCall
<1>3. Phase(call'[c]) \in {"busy", "failed"}
  BY <1>2 DEF Phase
<1>4. CallStatus[c] = Store!Idle
  <2>1. call[c] = NoCall
    BY DEF Enter, At, IInv, CallInv, OpInv
  <2> QED
    BY <2>1, StatusMoves DEF CallStatus, Phase, NoCall, Store!Idle
<1>5. [phase |-> Phase(call'[c]), op |-> op, rec |-> r] \in Store!Statuses
  BY <1>3 DEF Store!Statuses
<1>6. Stored(file)' = Stored(file)
  BY SameStored DEF Enter, dbVars
<1> QED
  BY <1>2, <1>3, <1>4, <1>5, <1>6, StatusMoves, RecsAssumption DEF Store!Invoke

(* Returning or dying is leaving the abstract store.                       *)
LEMMA LeavingLeaves ==
    ASSUME IInv, NEW c \in Clients, Becomes(c, NoCall), file' = file
    PROVE  Store!Leave(c) \/ UNCHANGED Store!vars
<1>1. call'[c] = NoCall /\ \A d \in Clients \ {c} : call'[d] = call[d]
  BY DEF Becomes, IInv, TypeOK
<1>2. [phase |-> Phase(call'[c]), op |-> call'[c].op, rec |-> call'[c].rec] = Store!Idle
  BY <1>1 DEF Phase, NoCall, Store!Idle
<1>3. CASE call[c].pc = "idle"
  <2>1. call[c] = NoCall
    BY <1>3 DEF IInv, CallInv, OpInv
  <2> QED
    BY <1>1, <2>1, InternalStutters
<1>4. CASE call[c].pc # "idle"
  <2>1. Phase(call[c]) # "idle"
    BY <1>4 DEF Phase, IInv, TypeOK, Calls
  <2>2. CallStatus[c].phase # "idle"
    BY <2>1 DEF CallStatus
  <2>3. CallStatus' = [CallStatus EXCEPT ![c] = Store!Idle]
    BY <1>1, <1>2, StatusMoves
  <2> QED
    BY <2>2, <2>3, SameStored DEF Store!Leave
<1> QED
  BY <1>3, <1>4

(* A finished insertion adds one whole record.                             *)
LEMMA InsertedStored ==
    ASSUME NEW db \in Database, NEW base \in Database, NEW r \in Recs, NEW i \in Index,
           i = base.seq + 1, Fresh(base), RecordsAt(base, r.create) = {},
           EventTimeFree(base, i, r), PutIn(db, base, Tables, i, r)
    PROVE  /\ Stored(db) = Stored(base) \cup {r}
           /\ \A s \in Stored(base) : s.create # r.create /\ s.event # r.event
<1>0. "RECORD" \in Tables /\ "EVENT" \in Tables /\ NoRow \notin Recs
  BY RecsAssumption DEF Tables
<1>1. \A t \in Tables : \A j \in Index : db.tab[t][j] = IF j = i THEN r ELSE base.tab[t][j]
  BY DEF PutIn
<1>2. base.tab["RECORD"][i] = NoRow
  BY MaxIndexAssumption DEF Fresh, Holds, Index, Database
<1>3. ASSUME NEW s \in Recs, NEW j \in Index, \A t \in Tables : base.tab[t][j] = s
      PROVE  j # i /\ s.create # r.create /\ s.event # r.event
  BY <1>0, <1>2, <1>3 DEF RecordsAt, EventTimeFree
<1>4. \A s \in Stored(base) : s.create # r.create /\ s.event # r.event
  BY <1>3 DEF Stored
<1>5. Stored(db) \subseteq Stored(base) \cup {r}
  <2> SUFFICES ASSUME NEW s \in Recs, NEW j \in Index, \A t \in Tables : db.tab[t][j] = s,
                      s # r
               PROVE  s \in Stored(base)
    BY DEF Stored
  <2>1. j # i
    BY <1>0, <1>1
  <2> QED
    BY <1>1, <2>1 DEF Stored
<1>6. Stored(base) \cup {r} \subseteq Stored(db)
  <2>1. r \in Stored(db)
    BY <1>1 DEF Stored
  <2>2. ASSUME NEW s \in Stored(base) PROVE s \in Stored(db)
    <3>1. PICK j \in Index : \A t \in Tables : base.tab[t][j] = s
      BY DEF Stored
    <3> QED
      BY <1>1, <1>3, <3>1 DEF Stored
  <2> QED
    BY <2>1, <2>2
<1> QED
  BY <1>4, <1>5, <1>6

(* A finished deletion takes out the records of its time.                  *)
LEMMA DeletedStored ==
    ASSUME NEW db \in Database, NEW base \in Database, NEW tm,
           NEW i \in IndexesFor(base, tm), PutIn(db, base, Tables, i, NoRow)
    PROVE  Stored(db) = {s \in Stored(base) : s.create # tm}
<1>0. "RECORD" \in Tables /\ NoRow \notin Recs
  BY RecsAssumption DEF Tables
<1>1. \A t \in Tables : \A j \in Index :
          db.tab[t][j] = IF j = i THEN NoRow ELSE base.tab[t][j]
  BY DEF PutIn
<1>2. \A j \in Index : j \in RecordsAt(base, tm) <=> j = i
  BY DEF IndexesFor, Index, NoIndex
<1>3. ASSUME NEW s \in Recs, NEW j \in Index, \A t \in Tables : base.tab[t][j] = s
      PROVE  s.create = tm <=> j = i
  BY <1>0, <1>2, <1>3 DEF RecordsAt
<1>4. ASSUME NEW s \in Stored(db) PROVE s \in Stored(base) /\ s.create # tm
  <2>1. PICK j \in Index : \A t \in Tables : db.tab[t][j] = s
    BY DEF Stored
  <2>2. s \in Recs /\ j # i
    BY <1>0, <1>1, <2>1 DEF Stored
  <2>3. \A t \in Tables : base.tab[t][j] = s
    BY <1>1, <2>1, <2>2
  <2> QED
    BY <1>3, <2>2, <2>3 DEF Stored
<1>5. ASSUME NEW s \in Stored(base), s.create # tm PROVE s \in Stored(db)
  <2>1. PICK j \in Index : \A t \in Tables : base.tab[t][j] = s
    BY DEF Stored
  <2>2. s \in Recs /\ j # i
    BY <1>3, <1>5, <2>1 DEF Stored
  <2> QED
    BY <1>1, <2>1, <2>2 DEF Stored
<1> QED
  BY <1>4, <1>5

(* The successful commit is the instant at which a call takes effect.      *)
LEMMA CommitStores ==
    ASSUME IInv, NEW c \in Clients, CommitTransaction(c)
    PROVE  Store!Insert(c) \/ Store!Delete(c) \/ Store!Fail(c) \/ UNCHANGED Store!vars
<1>1. /\ call[c] \in Calls /\ call[c].pc = "EndTransaction" /\ call[c].ok
      /\ Phase(call[c]) = "busy"
  BY BecomesCall, ReadyToCommit DEF IInv, Phase
<1>2. CASE CanCommit(c) /\ file' = work /\ GoTo(c, "CloseDB")
  <2>1. /\ call'[c].pc = "CloseDB" /\ call'[c].ok /\ call'[c].op = call[c].op
        /\ call'[c].rec = call[c].rec /\ \A d \in Clients \ {c} : call'[d] = call[d]
    BY <1>1, <1>2 DEF GoTo, Becomes, IInv, TypeOK, Calls
  <2>2. Phase(call'[c]) = "ok"
    BY <2>1 DEF Phase
  <2>3. /\ CallStatus[c].phase = "busy" /\ CallStatus[c].op = call[c].op
        /\ CallStatus[c].rec = call[c].rec /\ Store!Become(c, "ok")
    BY <1>1, <2>1, <2>2, PhaseMoves
  <2>4. Stored(file)' = Stored(work)
    BY <1>2 DEF Stored
  <2>5. CASE call[c].op = "write"
    <3>1. /\ Stored(work) = Stored(file) \cup {call[c].rec}
          /\ \A s \in Stored(file) :
                s.create # call[c].rec.create /\ s.event # call[c].rec.event
      BY <2>5, ReadyToCommit, InsertedStored DEF Inserting, IInv, FileInv
    <3>2. Store!Insert(c)
      BY <2>3, <2>4, <2>5, <3>1 DEF Store!Insert
    <3> QED
      BY <3>2
  <2>6. CASE call[c].op = "del"
    <3>1. /\ Stored(work) = {s \in Stored(file) : s.create # call[c].key}
          /\ call[c].key \in Times
      BY <2>6, ReadyToCommit, DeletedStored DEF Deleting
    <3>2. Store!Delete(c)
      BY <2>3, <2>4, <2>6, <3>1 DEF Store!Delete
    <3> QED
      BY <3>2
  <2> QED
    BY <2>5, <2>6, ReadyToCommit
<1>3. CASE file' = file /\ FailTo(c, "CloseDB")
  BY <1>1, <1>3, FailingFails
<1> QED
  BY <1>2, <1>3 DEF CommitTransaction

(* Reading a section stutters, but for the last one.                       *)
LEMMA ReadSectionReads ==
    ASSUME IInv, NEW c \in Clients, NEW t, NEW here \in ReadSteps,
           NEW next \in ReadSteps \cup {"CloseDB"}, ReadSection(c, t, here, next)
    PROVE  Store!Read(c) \/ Store!Fail(c) \/ UNCHANGED Store!vars
<1>1. /\ call[c] \in Calls /\ call[c].pc = here /\ call[c].op = "read" /\ call[c].ok
      /\ file' = file
  BY BecomesCall DEF ReadSection, At, IInv, CallInv, OpInv, dbVars
<1>2. Phase(call[c]) = "busy"
  BY <1>1 DEF Phase, ReadSteps
<1>3. CASE FailTo(c, "CloseDB")
  BY <1>1, <1>3, FailingFails DEF ReadSteps
<1>4. CASE Becomes(c, [call[c] EXCEPT !.pc = next,
                                      !.got[t] = RowAt(View(c), t, call[c].idx)])
  <2>1. /\ call'[c].pc = next /\ call'[c].ok = call[c].ok /\ call'[c].op = call[c].op
        /\ call'[c].rec = call[c].rec /\ \A d \in Clients \ {c} : call'[d] = call[d]
    BY <1>1, <1>4 DEF Becomes, IInv, TypeOK, Calls
  <2>2. CASE next = "CloseDB"
    <3>1. Phase(call'[c]) = "ok"
      BY <1>1, <2>1, <2>2 DEF Phase
    <3>2. /\ CallStatus[c].phase = "busy" /\ CallStatus[c].op = "read"
          /\ Store!Become(c, "ok")
      BY <1>1, <1>2, <2>1, <3>1, PhaseMoves
    <3> QED
      BY <1>1, <3>2, SameStored DEF Store!Read
  <2>3. CASE next \in ReadSteps
    <3>1. Phase(call'[c]) = "busy"
      BY <1>1, <2>1, <2>3 DEF Phase, ReadSteps
    <3> QED
      BY <1>1, <1>2, <2>1, <3>1, InternalStutters
  <2> QED
    BY <2>2, <2>3
<1> QED
  BY <1>3, <1>4 DEF ReadSection

(* Any other step of a call only moves its pc.                             *)
LEMMA MovingStutters ==
    ASSUME IInv, NEW c \in Clients, NEW k \in Calls, Becomes(c, k), file' = file,
           call[c].pc \notin {"idle", "CloseDB"}, k.pc # "idle",
           k.pc = "CloseDB" => ~k.ok, k.ok = call[c].ok,
           k.op = call[c].op, k.rec = call[c].rec
    PROVE  UNCHANGED Store!vars
<1>1. call'[c] = k /\ \A d \in Clients \ {c} : call'[d] = call[d]
  BY BecomesCall DEF IInv
<1>2. call[c].ok \in BOOLEAN
  BY DEF IInv, TypeOK, Calls
<1>3. Phase(k) = Phase(call[c])
  BY <1>2 DEF Phase
<1> QED
  BY <1>1, <1>3, InternalStutters

(* A step within a call that goes on stutters.                             *)
LEMMA GoingStutters ==
    ASSUME IInv, NEW c \in Clients, NEW step \in Steps \ {"idle"}, file' = file,
           call[c].pc \notin {"idle", "CloseDB"},
           step = "CloseDB" => ~call[c].ok,
           GoTo(c, step) \/ \E i \in Index \cup {NoIndex} : GoToWithIndex(c, step, i)
    PROVE  UNCHANGED Store!vars
<1>1. call[c] \in Calls
  BY DEF IInv, TypeOK
<1>2. CASE GoTo(c, step)
  <2>1. [call[c] EXCEPT !.pc = step] \in Calls
    BY <1>1, CallMoves
  <2> QED
    BY <1>1, <1>2, <2>1, MovingStutters DEF GoTo, Calls
<1>3. ASSUME NEW i \in Index \cup {NoIndex}, GoToWithIndex(c, step, i)
      PROVE  UNCHANGED Store!vars
  <2>1. [call[c] EXCEPT !.pc = step, !.idx = i] \in Calls
    BY <1>1, CallMoves
  <2> QED
    BY <1>1, <1>3, <2>1, MovingStutters DEF GoToWithIndex, Calls
<1> QED
  BY <1>2, <1>3

(* Every step of a call is a step of RecordStore, or none.                 *)
LEMMA StepImplements ==
    ASSUME IInv, NEW c \in Clients, Step(c)
    PROVE  \/ Store!Insert(c) \/ Store!Delete(c) \/ Store!Read(c) \/ Store!Fail(c)
           \/ Store!Leave(c) \/ UNCHANGED Store!vars
<1>0. /\ call[c] \in Calls
      /\ Steps = {"idle", "CloseDB", "EndTransaction"}
                   \cup WriteSteps \cup DelSteps \cup ReadSteps
  BY DEF IInv, TypeOK, Steps, WriteSteps, DelSteps, ReadSteps
<1> USE DEF At
<1>1. CASE HasRecordTimeExisted(c)
  <2>1. PICK k \in Calls : Becomes(c, k) /\ k.pc = "WriteRecInfo" /\ k.ok = call[c].ok
                            /\ k.op = call[c].op /\ k.rec = call[c].rec
    <3>0. "WriteRecInfo" \in Steps
      BY DEF Steps
    <3>1. ASSUME NEW b \in BOOLEAN
          PROVE  LET k == [call[c] EXCEPT !.pc = "WriteRecInfo", !.seen = b]
                 IN  k \in Calls /\ k.pc = "WriteRecInfo" /\ k.ok = call[c].ok
                     /\ k.op = call[c].op /\ k.rec = call[c].rec
      <4>1. [call[c] EXCEPT !.pc = "WriteRecInfo", !.seen = b] \in Calls
        BY <1>0, <3>0, CallMoves
      <4> QED
        BY <1>0, <4>1 DEF Calls
    <3>2. LET k == [call[c] EXCEPT !.pc = "WriteRecInfo"]
          IN  k \in Calls /\ k.pc = "WriteRecInfo" /\ k.ok = call[c].ok
              /\ k.op = call[c].op /\ k.rec = call[c].rec
      <4>1. [call[c] EXCEPT !.pc = "WriteRecInfo"] \in Calls
        BY <1>0, <3>0, CallMoves
      <4> QED
        BY <1>0, <4>1 DEF Calls
    <3> DEFINE b == RecordsAt(View(c), call[c].key) # {}
    <3>3. b \in BOOLEAN
      OBVIOUS
    <3>4. \/ Becomes(c, [call[c] EXCEPT !.pc = "WriteRecInfo", !.seen = b])
          \/ Becomes(c, [call[c] EXCEPT !.pc = "WriteRecInfo"])
      BY <1>1 DEF HasRecordTimeExisted, GoTo
    <3> HIDE DEF b
    <3> QED
      BY <3>1, <3>2, <3>3, <3>4
  <2> QED
    BY <1>1, <2>1, MovingStutters DEF HasRecordTimeExisted
<1>2. CASE WriteRecInfoByDateTime(c)
  <2>1. \/ FailTo(c, "EndTransaction")
        \/ \E i \in Index \cup {NoIndex} : GoToWithIndex(c, "WriteEvent", i)
    BY <1>2, IndexesAreIndexes DEF WriteRecInfoByDateTime
  <2> QED
    BY <1>0, <1>2, <2>1, FailingFails, GoingStutters DEF WriteRecInfoByDateTime, WriteSteps
<1>3. CASE WriteEventByIndex(c) \/ WriteFeedbackByIndex(c) \/ WriteEffectByIndex(c)
  BY <1>0, <1>3, FailingFails, GoingStutters
     DEF WriteEventByIndex, WriteFeedbackByIndex, WriteEffectByIndex, PutSection, WriteSteps
<1>4. CASE DelReadIndex(c)
  <2>1. \/ FailTo(c, "DelRecInfo")
        \/ \E i \in Index \cup {NoIndex} : GoToWithIndex(c, "DelRecInfo", i)
    BY <1>4, IndexesAreIndexes DEF DelReadIndex
  <2> QED
    BY <1>0, <1>4, <2>1, FailingFails, GoingStutters DEF DelReadIndex, DelSteps
<1>5. CASE DelRecInfoByDateTime(c)
  BY <1>0, <1>5, FailingFails, GoingStutters DEF DelRecInfoByDateTime, DelSteps
<1>6. CASE DelEventByIndex(c) \/ DelFeedbackByIndex(c) \/ DelEffectByIndex(c)
  BY <1>0, <1>6, FailingFails, GoingStutters
     DEF DelEventByIndex, DelFeedbackByIndex, DelEffectByIndex, DelSection, DelSteps
<1>7. CASE CommitTransaction(c)
  BY <1>7, CommitStores
<1>8. CASE RollbackTransaction(c)
  <2>1. file' = file
    BY <1>8 DEF RollbackTransaction, Release, dbVars
  <2> QED
    BY <1>0, <1>8, <2>1, GoingStutters DEF RollbackTransaction
<1>9. CASE CloseDB(c)
  BY <1>9, LeavingLeaves DEF CloseDB, Release
<1>10. CASE ReadRecInfoByDateTime(c)
  <2>1. CASE FailTo(c, "CloseDB")
    BY <1>10, <2>1, FailingFails DEF ReadRecInfoByDateTime, dbVars
  <2>2. ASSUME NEW i,
               Becomes(c, [call[c] EXCEPT !.pc = "ReadIndex",
                                          !.got["RECORD"] = RowAt(View(c), "RECORD", i)])
        PROVE  UNCHANGED Store!vars
    <3>1. RowAt(View(c), "RECORD", i) \in Row
      BY RowAtIsRow, ViewIsDatabase DEF IInv, Tables
    <3>2. [call[c] EXCEPT !.pc = "ReadIndex", !.got["RECORD"] = RowAt(View(c), "RECORD", i)]
            \in Calls
      BY <1>0, <3>1, CallMoves DEF Steps, Tables
    <3> QED
      BY <1>0, <1>10, <2>2, <3>2, MovingStutters DEF ReadRecInfoByDateTime, dbVars, Calls
  <2> QED
    BY <1>10, <2>1, <2>2 DEF ReadRecInfoByDateTime
<1>11. CASE ReadIndexByDateTime(c)
  <2>1. \/ FailTo(c, "CloseDB")
        \/ \E i \in Index \cup {NoIndex} : GoToWithIndex(c, "ReadEvent", i)
    BY <1>11, IndexesAreIndexes DEF ReadIndexByDateTime
  <2> QED
    BY <1>0, <1>11, <2>1, FailingFails, GoingStutters DEF ReadIndexByDateTime, dbVars, ReadSteps
<1>12. CASE ReadEventByIndex(c) \/ ReadFeedbackByIndex(c) \/ ReadEffectByIndex(c)
  BY <1>12, ReadSectionReads
     DEF ReadEventByIndex, ReadFeedbackByIndex, ReadEffectByIndex, ReadSteps
<1> QED
  BY <1>1, <1>2, <1>3, <1>4, <1>5, <1>6, <1>7, <1>8, <1>9, <1>10, <1>11, <1>12 DEF Step

(* The empty tables are the empty store.                                   *)
LEMMA InitImplements == Init => Store!Init
<1> SUFFICES ASSUME Init PROVE Store!Init
  OBVIOUS
<1>1. Stored(file) = {}
  BY RecsAssumption DEF Init, DBInit, EmptyDB, Stored, Tables
<1>2. CallStatus = [c \in Clients |-> Store!Idle]
  BY DEF Init, CallStatus, Phase, NoCall, Store!Idle
<1> QED
  BY <1>1, <1>2 DEF Store!Init

(* Every step is one of the abstract store, or none.                       *)
LEMMA NextImplements == IInv /\ [Next]_vars => [Store!Next]_(Store!vars)
<1> SUFFICES ASSUME IInv, [Next]_vars PROVE Store!Next \/ UNCHANGED Store!vars
  OBVIOUS
<1>1. ASSUME NEW c \in Clients, NEW r \in Recs, NEW tm \in Instants,
             WriteRecord(c, r, tm)
      PROVE  Store!Next
  BY <1>1, EnterInvokes DEF WriteRecord, Store!Next
<1>2. ASSUME NEW c \in Clients, NEW tm \in Instants, ReadRecord(c, tm) \/ DelRecord(c, tm)
      PROVE  Store!Next
  BY <1>2, EnterInvokes DEF ReadRecord, DelRecord, Store!Next
<1>3. ASSUME UNCHANGED <<dbVars, call>> PROVE UNCHANGED Store!vars
  BY <1>3, SameStored DEF dbVars, CallStatus, Store!vars
<1>4. ASSUME NEW c \in Clients, ReadAllRecordTime(c) \/ ReadAllRecordAbstract(c)
      PROVE  UNCHANGED Store!vars
  BY <1>3, <1>4 DEF ReadAllRecordTime, ReadAllRecordAbstract, Learn
<1>5. ASSUME NEW c \in Clients, Step(c) PROVE Store!Next \/ UNCHANGED Store!vars
  BY <1>5, StepImplements DEF Store!Next
<1>6. ASSUME NEW c \in Clients, Crash(c) PROVE Store!Next \/ UNCHANGED Store!vars
  BY <1>6, LeavingLeaves DEF Crash, Release, Store!Next
<1>7. CASE UNCHANGED vars
  BY <1>3, <1>7 DEF vars, dbVars
<1> QED
  BY <1>1, <1>2, <1>4, <1>5, <1>6, <1>7 DEF Next

(* Every behaviour of DBInterface is one of RecordStore: each WriteRecord  *)
(* and DelRecord changes the set of whole records in one instant, its      *)
(* commit, or not at all, and only a record with new times gets in.        *)
THEOREM Implementation == Spec => StoreSpec
<1> QED
  BY Invariance, InitImplements, NextImplements, PTL DEF Spec, StoreSpec, Store!Spec

(* No two stored records ever have the same creation time, by which the    *)
(* dialog finds them again, or the same event time.                        *)
THEOREM KeysStayDistinct == Spec => []Store!KeysDistinct
<1>1. IInv => Store!KeysDistinct
  <2> SUFFICES ASSUME IInv,
                      NEW r \in Stored(file), NEW s \in Stored(file),
                      r.create = s.create \/ r.event = s.event
               PROVE  r = s
    BY DEF Store!KeysDistinct
  <2>1. PICK i \in Index : \A t \in Tables : file.tab[t][i] = r
    BY DEF Stored
  <2>2. PICK j \in Index : \A t \in Tables : file.tab[t][j] = s
    BY DEF Stored
  <2>3. r \in Recs /\ s \in Recs /\ "RECORD" \in Tables
    BY DEF Stored, Tables
  <2>4. Holds(file, i) /\ Holds(file, j)
    BY <2>1, <2>2, <2>3, RecsAssumption DEF Holds
  <2>5. i = j
    BY <2>1, <2>2, <2>3, <2>4 DEF IInv, FileInv, Unique
  <2> QED
    BY <2>1, <2>2, <2>3, <2>5
<1> QED
  BY <1>1, Invariance, PTL
=============================================================================
