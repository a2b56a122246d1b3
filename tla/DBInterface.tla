---------------------------- MODULE DBInterface ----------------------------
(***************************************************************************)
(* CDBInterface (DBserverLib/DBInterface.cpp): the read, write, delete and *)
(* list operations of the record database, each a sequence of SQL          *)
(* statements on a connection of its own. Several programs may have the    *)
(* file open, so the statements of their calls interleave; SQLite's locks  *)
(* (Sqlite3.tla) are all that keeps them apart.                            *)
(*                                                                         *)
(* One action per function, except where a function runs statements that   *)
(* another connection can come between: each of these is an action.        *)
(*                                                                         *)
(* The programs have a time as a time_t, an instant, and the database has  *)
(* it as a text. What a listing hands out is what _StringToTime makes of   *)
(* the text, which is an hour late within daylight saving time, and what a *)
(* select looks for is what _TimeToString makes of the instant:            *)
(* StringTimeConvert.tla is about the two.                                 *)
(***************************************************************************)
EXTENDS Sqlite3

CONSTANTS Instants,         \* the times the programs meet
          TimeToString,     \* the text _TimeToString makes of an instant
          StringToTime,     \* the instant _StringToTime makes of a text
          NoTime,           \* the creation time of no call
          Ops               \* the operations the callers use

ASSUME ConversionAssumption ==
    /\ TimeToString \in [Instants -> Times]
    /\ StringToTime \in [Times -> Instants]
ASSUME NoTimeAssumption == NoTime \notin Times /\ NoTime \notin Instants
ASSUME OpsAssumption == Ops \subseteq {"write", "read", "del", "list"}

VARIABLES call,       \* for each client, the call it is making
          known       \* the creation times each client knows of

vars == <<file, work, lock, call, known>>

Steps == {"idle", "HasRecordTimeExisted", "WriteRecInfo", "WriteEvent",
          "WriteFeedback", "WriteEffect", "DelReadIndex", "DelRecInfo",
          "DelEvent", "DelFeedback", "DelEffect", "EndTransaction",
          "ReadRecInfo", "ReadIndex", "ReadEvent", "ReadFeedback",
          "ReadEffect", "CloseDB"}

(* pc: the step to come; time: tCreateTime, and key: strCreateTime; ok:    *)
(* bResult; seen: what HasRecordTimeExisted said; idx: strIndex; got: the  *)
(* rows that have been read. The record that is handed over has tCreateTime*)
(* and else what is in the rows, whose times are read by _StringToTime.    *)
Calls == [pc   : Steps,
          op   : {"none", "write", "read", "del"},
          rec  : Row,
          time : Instants \cup {NoTime},
          key  : Times \cup {NoTime},
          ok   : BOOLEAN,
          seen : BOOLEAN,
          idx  : Index \cup {NoIndex},
          got  : [Tables -> Row]]

NoCall == [pc   |-> "idle", op |-> "none", rec |-> NoRow, time |-> NoTime,
           key  |-> NoTime, ok   |-> FALSE, seen |-> FALSE, idx |-> NoIndex,
           got  |-> [t \in Tables |-> NoRow]]

(* The types of the file, the locks, the calls and what clients know.      *)
TypeOK == /\ DBTypeOK
          /\ call \in [Clients -> Calls]
          /\ known \in [Clients -> SUBSET Instants]

Init == /\ DBInit
        /\ call = [c \in Clients |-> NoCall]
        /\ known = [c \in Clients |-> {}]

At(c, step) == call[c].pc = step

Becomes(c, k) == call' = [call EXCEPT ![c] = k]

GoTo(c, step) == Becomes(c, [call[c] EXCEPT !.pc = step])

GoToWithIndex(c, step, i) == Becomes(c, [call[c] EXCEPT !.pc = step, !.idx = i])

(* bResult becomes false: every later step of the chain is skipped.        *)
FailTo(c, step) == Becomes(c, [call[c] EXCEPT !.ok = FALSE, !.pc = step])

(* A bug that could be made here: the result table of sqlite3_get_table    *)
(* starts with a row of column names, so reading it is easily off by one.  *)
IndexesForNextRow(db, tm) ==
    LET rows == RecordsAt(db, tm)
    IN  IF rows = {} THEN {NoIndex} ELSE {i + 1 : i \in {j \in rows : rows = {j}}}

(* A bug that could be made here: not to find the record is an error.      *)
IndexesForFound(db, tm) ==
    LET rows == RecordsAt(db, tm) IN {i \in rows : rows = {i}}

(* The index of the record created at tm as ReadIndexByDateTime finds it:  *)
(* none (strIndex stays empty) is no error, more than one is.              *)
IndexesFor(db, tm) ==
    LET rows == RecordsAt(db, tm)
    IN  IF rows = {} THEN {NoIndex} ELSE {i \in rows : rows = {i}}

-----------------------------------------------------------------------------
(* Entering a call: sqlite3_open, and "begin transaction" for a write or a *)
(* delete. Begin is deferred and takes no lock; if the open failed, the    *)
(* rest of the call is skipped but for sqlite3_close.                      *)
Enter(c, op, r, tm, first) ==
    /\ op \in Ops
    /\ At(c, "idle")
    /\ \E opened \in {TRUE} \cup {"open" \notin Faults} :
         Becomes(c, [NoCall EXCEPT !.pc = IF opened THEN first ELSE "CloseDB",
                                   !.op = op, !.rec = r, !.time = tm,
                                   !.key = TimeToString[tm],
                                   !.ok = opened])
    /\ UNCHANGED <<dbVars, known>>

(* r is the record as it is stored.                                        *)
WriteRecord(c, r, tm) == /\ TimeToString[tm] = r.create
                         /\ Enter(c, "write", r, tm, "HasRecordTimeExisted")

DelRecord(c, tm) == Enter(c, "del", NoRow, tm, "DelReadIndex")

(* Callers read at the times that a listing told them of or that they have *)
(* written at.                                                             *)
ReadRecord(c, tm) == /\ tm \in known[c]
                     /\ Enter(c, "read", NoRow, tm, "ReadRecInfo")

-----------------------------------------------------------------------------
(* WriteRecord                                                             *)

(* A select that fails counts as "there is no such record".                *)
HasRecordTimeExisted(c) ==
    /\ At(c, "HasRecordTimeExisted")
    /\ \/ /\ CanRead(c)
          /\ HoldShared(c)
          /\ Becomes(c, [call[c] EXCEPT
                           !.pc = "WriteRecInfo",
                           !.seen = RecordsAt(View(c), call[c].key) # {}])
       \/ /\ SelectFails(c)
          /\ GoTo(c, "WriteRecInfo")
          /\ UNCHANGED lock
    /\ UNCHANGED <<file, work, known>>

(* A bug that could be made here: without AUTOINCREMENT, SQLite gives out  *)
(* the indices of deleted rows again.                                      *)
RecordRowPutReusing(db, r, update) ==
    IF update
    THEN [db EXCEPT !.tab["RECORD"] =
            [i \in Index |-> IF i \in RecordsAt(db, r.create) THEN r ELSE @[i]]]
    ELSE LET free == {i \in Index : db.tab["RECORD"][i] = NoRow}
         IN  [db EXCEPT !.tab["RECORD"] =
                [i \in Index |-> IF i \in free /\ \A j \in free : i <= j THEN r ELSE @[i]]]

(* The RECORD row after the update or insert of r.                         *)
RecordRowPut(db, r, update) ==
    IF update
    THEN [db EXCEPT !.tab["RECORD"] =
            [i \in Index |-> IF i \in RecordsAt(db, r.create) THEN r ELSE @[i]]]
    ELSE [db EXCEPT !.tab["RECORD"][db.seq + 1] = r, !.seq = @ + 1]

(* A bug that could be made here: the statement is tried again in a loop   *)
(* while another connection is writing.                                    *)
WriteRecInfoRetried(c) ==
    LET r == call[c].rec
        update == call[c].seen
        parses == "RECORD" \notin r.bad
        accepted == update \/ (RecordsAt(work, r.create) = {} /\ work.seq < MaxIndex)
    IN  /\ At(c, "WriteRecInfo")
        /\ CanWrite(c)
        /\ \/ /\ Executes(c, parses, accepted, RecordRowPut(work, r, update))
              /\ \/ \E i \in IndexesFor(work', r.create) :
                      GoToWithIndex(c, "WriteEvent", i)
                 \/ /\ IndexesFor(work', r.create) = {} \/ "select" \in Faults
                    /\ FailTo(c, "EndTransaction")
           \/ /\ Refuses(c, parses, accepted)
              /\ FailTo(c, "EndTransaction")
        /\ UNCHANGED <<file, known>>

(* Update or insert the RECORD row, then read its index back; RESERVED is  *)
(* held by then, so nothing comes between the two.                         *)
WriteRecInfoByDateTime(c) ==
    LET r == call[c].rec
        update == call[c].seen
        parses == "RECORD" \notin r.bad
        accepted == update \/ (RecordsAt(work, r.create) = {} /\ work.seq < MaxIndex)
    IN  /\ At(c, "WriteRecInfo")
        /\ \/ /\ Executes(c, parses, accepted, RecordRowPut(work, r, update))
              /\ \/ \E i \in IndexesFor(work', r.create) :
                      GoToWithIndex(c, "WriteEvent", i)
                 \/ /\ IndexesFor(work', r.create) = {} \/ "select" \in Faults
                    /\ FailTo(c, "EndTransaction")
           \/ /\ Refuses(c, parses, accepted)
              /\ FailTo(c, "EndTransaction")
        /\ UNCHANGED <<file, known>>

(* In the update statements of EVENT and FEEDBACK the closing quote of one *)
(* literal is missing ("type=\'%s\,title=..."), so SQLite rejects them.    *)
UpdateParses(t) == t = "EFFECT"

(* The unique column event_time of EVENT.                                  *)
EventTimeFree(db, i, r) ==
    \A j \in Index \ {i} :
        db.tab["EVENT"][j] # NoRow => db.tab["EVENT"][j].event # r.event

(* Update or insert the row of one section. HasIndexExisted, too, takes a  *)
(* select that fails for "no such row". An empty index is no integer key.  *)
PutSection(c, t, here, next) ==
    LET r == call[c].rec
        i == call[c].idx
        exists == RowAt(work, t, i) # NoRow
    IN  /\ At(c, here)
        /\ \E has \in {exists} \cup (IF "select" \in Faults THEN {FALSE} ELSE {}) :
             LET parses == t \notin r.bad /\ (has => UpdateParses(t))
                 accepted == /\ i \in Index
                             /\ ~has => ~exists
                             /\ t = "EVENT" => EventTimeFree(work, i, r)
             IN  \/ /\ Executes(c, parses, accepted, [work EXCEPT !.tab[t][i] = r])
                    /\ GoTo(c, next)
                 \/ /\ Refuses(c, parses, accepted)
                    /\ FailTo(c, "EndTransaction")
        /\ UNCHANGED <<file, known>>

WriteEventByIndex(c)    == PutSection(c, "EVENT", "WriteEvent", "WriteFeedback")
WriteFeedbackByIndex(c) == PutSection(c, "FEEDBACK", "WriteFeedback", "WriteEffect")
WriteEffectByIndex(c)   == PutSection(c, "EFFECT", "WriteEffect", "EndTransaction")

-----------------------------------------------------------------------------
(* DelRecord                                                               *)

(* The first half of DelRecInfoByDateTime. When it fails, the row is still *)
(* deleted in the second half, and the transaction rolled back.            *)
DelReadIndex(c) ==
    /\ At(c, "DelReadIndex")
    /\ \/ /\ CanRead(c)
          /\ HoldShared(c)
          /\ \E i \in IndexesFor(View(c), call[c].key) :
               GoToWithIndex(c, "DelRecInfo", i)
       \/ /\ SelectFails(c) \/ IndexesFor(View(c), call[c].key) = {}
          /\ FailTo(c, "DelRecInfo")
          /\ UNCHANGED lock
    /\ UNCHANGED <<file, work, known>>

RecordRowsDeleted(db, tm) ==
    [db EXCEPT !.tab["RECORD"] =
        [i \in Index |-> IF i \in RecordsAt(db, tm) THEN NoRow ELSE @[i]]]

DelRecInfoByDateTime(c) ==
    /\ At(c, "DelRecInfo")
    /\ \/ /\ Executes(c, TRUE, TRUE, RecordRowsDeleted(work, call[c].key))
          /\ GoTo(c, IF call[c].ok THEN "DelEvent" ELSE "EndTransaction")
       \/ /\ Refuses(c, TRUE, TRUE)
          /\ FailTo(c, "EndTransaction")
    /\ UNCHANGED <<file, known>>

SectionRowDeleted(db, t, i) ==
    [db EXCEPT !.tab[t] = [j \in Index |-> IF j = i THEN NoRow ELSE @[j]]]

DelSection(c, t, here, next) ==
    /\ At(c, here)
    /\ \/ /\ Executes(c, TRUE, TRUE, SectionRowDeleted(work, t, call[c].idx))
          /\ GoTo(c, next)
       \/ /\ Refuses(c, TRUE, TRUE)
          /\ FailTo(c, "EndTransaction")
    /\ UNCHANGED <<file, known>>

DelEventByIndex(c)    == DelSection(c, "EVENT", "DelEvent", "DelFeedback")
DelFeedbackByIndex(c) == DelSection(c, "FEEDBACK", "DelFeedback", "DelEffect")
DelEffectByIndex(c)   == DelSection(c, "EFFECT", "DelEffect", "EndTransaction")

-----------------------------------------------------------------------------
(* The end of a write or a delete                                          *)

(* A bug that could be made here: commit whatever came of the statements.  *)
CommitAlways(c) ==
    /\ At(c, "EndTransaction")
    /\ CanCommit(c)
    /\ file' = work
    /\ lock' = [lock EXCEPT ![c] = "none"]
    /\ GoTo(c, "CloseDB")
    /\ UNCHANGED <<work, known>>

(* A bug that could be made here: not to look whether the commit succeeded.*)
CommitUnchecked(c) ==
    /\ At(c, "EndTransaction")
    /\ call[c].ok
    /\ \/ /\ CanCommit(c)
          /\ file' = work
       \/ /\ ~CanCommit(c) \/ "commit" \in Faults
          /\ UNCHANGED file
    /\ lock' = [lock EXCEPT ![c] = IF CanCommit(c) THEN "none" ELSE "pending"]
    /\ GoTo(c, "CloseDB")
    /\ UNCHANGED <<work, known>>

(* A commit that finds readers in the file fails and stays PENDING.        *)
CommitTransaction(c) ==
    /\ At(c, "EndTransaction")
    /\ call[c].ok
    /\ \/ /\ CanCommit(c)
          /\ file' = work
          /\ lock' = [lock EXCEPT ![c] = "none"]
          /\ GoTo(c, "CloseDB")
       \/ /\ ~CanCommit(c)
          /\ lock' = [lock EXCEPT ![c] = "pending"]
          /\ FailTo(c, "CloseDB")
          /\ UNCHANGED file
       \/ /\ "commit" \in Faults
          /\ FailTo(c, "CloseDB")
          /\ UNCHANGED <<file, lock>>
    /\ UNCHANGED <<work, known>>

RollbackTransaction(c) ==
    /\ At(c, "EndTransaction")
    /\ ~call[c].ok
    /\ \/ Release(c)
       \/ /\ "rollback" \in Faults
          /\ UNCHANGED dbVars
    /\ GoTo(c, "CloseDB")
    /\ UNCHANGED known

(* A bug that could be made here: an early return on an error, as the      *)
(* listings have it when the open fails, leaves the connection open.       *)
CloseAfterSuccess(c) ==
    /\ At(c, "CloseDB")
    /\ IF call[c].ok THEN Release(c) ELSE UNCHANGED dbVars
    /\ known' = [known EXCEPT ![c] =
                   @ \cup {tm \in {call[c].time} : call[c].op = "write" /\ call[c].ok}]
    /\ Becomes(c, NoCall)

(* sqlite3_close rolls back what is still open; then the call returns.     *)
CloseDB(c) ==
    /\ At(c, "CloseDB")
    /\ Release(c)
    /\ known' = [known EXCEPT ![c] =
                   @ \cup {tm \in {call[c].time} : call[c].op = "write" /\ call[c].ok}]
    /\ Becomes(c, NoCall)

-----------------------------------------------------------------------------
(* ReadRecord: five selects, each a transaction of its own                 *)

ReadRecInfoByDateTime(c) ==
    /\ At(c, "ReadRecInfo")
    /\ \/ /\ CanRead(c)
          /\ \E i \in IndexesFor(View(c), call[c].key) :
               Becomes(c, [call[c] EXCEPT !.pc = "ReadIndex",
                                          !.got["RECORD"] = RowAt(View(c), "RECORD", i)])
       \/ /\ SelectFails(c) \/ IndexesFor(View(c), call[c].key) = {}
          /\ FailTo(c, "CloseDB")
    /\ UNCHANGED <<dbVars, known>>

ReadIndexByDateTime(c) ==
    /\ At(c, "ReadIndex")
    /\ \/ /\ CanRead(c)
          /\ \E i \in IndexesFor(View(c), call[c].key) :
               GoToWithIndex(c, "ReadEvent", i)
       \/ /\ SelectFails(c) \/ IndexesFor(View(c), call[c].key) = {}
          /\ FailTo(c, "CloseDB")
    /\ UNCHANGED <<dbVars, known>>

(* A bug that could be made here: a failed select passes for no row.       *)
ReadSectionUnchecked(c, t, here, next) ==
    /\ At(c, here)
    /\ \/ /\ CanRead(c)
          /\ Becomes(c, [call[c] EXCEPT !.pc = next,
                                        !.got[t] = RowAt(View(c), t, call[c].idx)])
       \/ /\ SelectFails(c)
          /\ GoTo(c, next)
    /\ UNCHANGED <<dbVars, known>>

(* No row is no error here either: the section stays blank.                *)
ReadSection(c, t, here, next) ==
    /\ At(c, here)
    /\ \/ /\ CanRead(c)
          /\ Becomes(c, [call[c] EXCEPT !.pc = next,
                                        !.got[t] = RowAt(View(c), t, call[c].idx)])
       \/ /\ SelectFails(c)
          /\ FailTo(c, "CloseDB")
    /\ UNCHANGED <<dbVars, known>>

ReadEventByIndex(c)    == ReadSection(c, "EVENT", "ReadEvent", "ReadFeedback")
ReadFeedbackByIndex(c) == ReadSection(c, "FEEDBACK", "ReadFeedback", "ReadEffect")
ReadEffectByIndex(c)   == ReadSection(c, "EFFECT", "ReadEffect", "CloseDB")

-----------------------------------------------------------------------------
(* The listings: one select each. One that fails tells its caller nothing. *)
(* Each creation time is what _StringToTime makes of the text.             *)

Learn(c, indexes) ==
    /\ "list" \in Ops
    /\ At(c, "idle")
    /\ CanRead(c)
    /\ known' = [known EXCEPT ![c] =
                   @ \cup {StringToTime[file.tab["RECORD"][i].create] : i \in indexes}]
    /\ UNCHANGED <<dbVars, call>>

ReadAllRecordTime(c) ==
    Learn(c, {i \in Index : file.tab["RECORD"][i] # NoRow})

(* RECORD joined with EVENT on record_index.                               *)
ReadAllRecordAbstract(c) ==
    Learn(c, {i \in Index : /\ file.tab["RECORD"][i] # NoRow
                            /\ file.tab["EVENT"][i] # NoRow})

-----------------------------------------------------------------------------
(* The program dies: the operating system drops its locks, and the next    *)
(* connection rolls the journal back. Restarted, it knows nothing.         *)
Crash(c) ==
    /\ "crash" \in Faults
    /\ Release(c)
    /\ Becomes(c, NoCall)
    /\ known' = [known EXCEPT ![c] = {}]

Step(c) == \/ HasRecordTimeExisted(c) \/ WriteRecInfoByDateTime(c)
           \/ WriteEventByIndex(c) \/ WriteFeedbackByIndex(c) \/ WriteEffectByIndex(c)
           \/ DelReadIndex(c) \/ DelRecInfoByDateTime(c)
           \/ DelEventByIndex(c) \/ DelFeedbackByIndex(c) \/ DelEffectByIndex(c)
           \/ CommitTransaction(c) \/ RollbackTransaction(c) \/ CloseDB(c)
           \/ ReadRecInfoByDateTime(c) \/ ReadIndexByDateTime(c)
           \/ ReadEventByIndex(c) \/ ReadFeedbackByIndex(c) \/ ReadEffectByIndex(c)

Next == \E c \in Clients :
           \/ \E tm \in Instants : \/ \E r \in Recs : WriteRecord(c, r, tm)
                                   \/ ReadRecord(c, tm) \/ DelRecord(c, tm)
           \/ ReadAllRecordTime(c) \/ ReadAllRecordAbstract(c)
           \/ Step(c)
           \/ Crash(c)

Spec == Init /\ [][Next]_vars

(* A thread inside a call runs on: the calls are synchronous, and no       *)
(* statement waits for another connection.                                 *)
Fairness == \A c \in Clients : WF_vars(Step(c))

FairSpec == Spec /\ Fairness

-----------------------------------------------------------------------------
(* Properties                                                              *)

(* The records the file holds whole: one row in each table, all alike.     *)
Stored(db) == {r \in Recs : \E i \in Index : \A t \in Tables : db.tab[t][i] = r}

Phase(k) == CASE k.pc = "idle"                   -> "idle"
              [] k.pc # "idle" /\ ~k.ok          -> "failed"
              [] k.pc = "CloseDB" /\ k.ok        -> "ok"
              [] k.pc \notin {"idle", "CloseDB"} /\ k.ok -> "busy"

CallStatus == [c \in Clients |-> [phase |-> Phase(call[c]),
                                  op    |-> call[c].op,
                                  rec   |-> call[c].rec]]

Store == INSTANCE RecordStore WITH store <- Stored(file), status <- CallStatus

(* WriteRecord and DelRecord change the store of whole records in one      *)
(* instant or not at all, whatever interleaves, fails or dies: begin,      *)
(* commit, rollback and close together make a transaction of each call.    *)
StoreSpec == Store!Spec

(* The four tables of the committed file agree at every record index: no   *)
(* call, failed, interrupted or not, leaves a RECORD row without its       *)
(* EVENT, FEEDBACK and EFFECT rows or the other way round.                 *)
RecordsWhole == \A i \in Index : \A t \in Tables : file.tab[t][i] = file.tab["RECORD"][i]

(* When a call has returned, its connection holds no lock, even if commit  *)
(* or rollback failed; when all have, no uncommitted change is left over.  *)
LocksReleased ==
    /\ \A c \in Clients : At(c, "idle") => lock[c] = "none"
    /\ (\A c \in Clients : At(c, "idle")) => work = file

(* What a successful ReadRecord hands over, even while other programs      *)
(* delete the record and write another with its creation time: each of     *)
(* the three sections is blank or belongs to one single record, which is   *)
(* stored under the text asked for. An index, once used, is never reused.  *)
(* The RECORD part comes from the first select and may be of another record*)
(* that had this text then.                                                *)
SectionsOfOneRecord ==
    \A c \in Clients : At(c, "CloseDB") /\ call[c].op = "read" /\ call[c].ok =>
        \E r \in Recs : \A t \in Sections :
            \/ call[c].got[t] = NoRow
            \/ call[c].got[t] = r /\ r.create = call[c].key

(* With no faults a call fails only for a reason: another connection is in *)
(* the file, the indices have run out, or the record cannot be written     *)
(* (its text breaks the SQL, its creation or event time is stored already).*)
NotWritable(r) == \/ r.bad # {}
                  \/ \E s \in Stored(file) : s.create = r.create \/ s.event = r.event

FailsForAReason ==
    [][\A c \in Clients :
          (call[c].ok /\ ~call'[c].ok /\ call'[c].pc # "idle") =>
              \/ \E d \in Clients \ {c} : lock[d] # "none"
              \/ call[c].op = "write" /\ NotWritable(call[c].rec)
              \/ call[c].op = "write" /\ file.seq = MaxIndex]_vars

(* As long as nobody deletes: every creation time a program knows is that  *)
(* of a whole stored record, although other programs fail and die: the time*)
(* it was written at, or what a listing makes of it.                       *)
TimeOf(tm, r) == TimeToString[tm] = r.create \/ StringToTime[r.create] = tm

KnownIsStored ==
    \A c \in Clients : \A tm \in known[c] : \E r \in Stored(file) : TimeOf(tm, r)

(* The time under which a listing has a stored record is not that record's:*)
(* it was created within daylight saving time.                             *)
Misheard(tm) ==
    \E r \in Stored(file) : StringToTime[r.create] = tm /\ TimeToString[tm] # r.create

(* As long as nobody deletes: a ReadRecord that returns true hands over the*)
(* whole record stored at this time, although each of its five selects is a*)
(* transaction of its own. It hands over a blank one, or one that was added*)
(* between two of its selects without the RECORD part, for nothing but a   *)
(* time a listing has wrong.                                               *)
ReadReturnsStored ==
    \A c \in Clients : At(c, "CloseDB") /\ call[c].op = "read" /\ call[c].ok =>
        LET Parts(tables) ==
              \E r \in Stored(file) : /\ r.create = call[c].key
                                      /\ \A t \in tables : call[c].got[t] = r
            Blank(tables) == \A t \in tables : call[c].got[t] = NoRow
        IN  \/ Parts(Tables)
            \/ /\ Misheard(call[c].time)
               /\ Blank({"RECORD"})
               /\ Blank(Sections) \/ Parts(Sections)

(* Every call returns: no failed statement, commit or rollback and no      *)
(* other connection's lock keeps its caller waiting.                       *)
CallsReturn == \A c \in Clients : ~At(c, "idle") ~> At(c, "idle")

(* The comment over WriteRecord: a record whose creation time exists is    *)
(* updated. The malformed update of EVENT makes this false.                *)
ExistingRecordIsUpdated ==
    \A c \in Clients : At(c, "CloseDB") /\ call[c].op = "write" /\ call[c].seen =>
        call[c].rec \in Stored(file)

(* The comment over ReadRecord: it reads the whole content of the record.  *)
(* A DelRecord between two of its selects makes this false.                *)
WholeRecordIsRead ==
    \A c \in Clients : At(c, "CloseDB") /\ call[c].op = "read" /\ call[c].ok =>
        \A s, t \in Tables : call[c].got[s] = call[c].got[t]

=============================================================================
