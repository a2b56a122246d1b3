------------------------------ MODULE Sqlite3 ------------------------------
(***************************************************************************)
(* The SQLite library as DBInterface.cpp uses it (external: only sqlite3.h *)
(* is in the repository): one database file, rollback-journal locking, no  *)
(* busy handler, so that a statement that meets another connection's lock  *)
(* fails at once with SQLITE_BUSY.                                         *)
(*                                                                         *)
(* A row is abstracted to the record it was written from, so each of the   *)
(* four tables maps a row index to a record or to NoRow, and a record that *)
(* is torn shows as tables that disagree at one index.                     *)
(***************************************************************************)
EXTENDS Integers

CONSTANTS Clients,    \* connections: one per running program
          Ids,        \* tells apart records with equal times
          Times,      \* values of create_time and event_time, as stored
          Recs,       \* the records that may be written
          NoRow,      \* an empty place in a table
          MaxIndex,   \* the largest row index AUTOINCREMENT can give out
          Faults      \* what may go wrong for no reason the model sees

Tables   == {"RECORD", "EVENT", "FEEDBACK", "EFFECT"}
Sections == Tables \ {"RECORD"}

(* bad: the tables whose SQL statement SQLite rejects because of this      *)
(* record's text (an apostrophe in a title ends the quoted literal early). *)
ASSUME RecsAssumption ==
    /\ Recs \subseteq [id : Ids, create : Times, event : Times, bad : SUBSET Tables]
    /\ NoRow \notin Recs
ASSUME MaxIndexAssumption == MaxIndex \in Nat
ASSUME FaultsAssumption ==
    Faults \subseteq {"open", "select", "exec", "commit", "rollback", "crash"}

Index == 1..MaxIndex
NoIndex == 0                       \* the empty string in strIndex
Row == Recs \cup {NoRow}

(* tab: the four tables; seq: the AUTOINCREMENT counter of RECORD, which   *)
(* SQLite keeps in the file too, so a rollback takes it back as well.      *)
Database == [tab : [Tables -> [Index -> Row]], seq : 0..MaxIndex]
EmptyDB  == [tab |-> [t \in Tables |-> [i \in Index |-> NoRow]], seq |-> 0]

VARIABLES file,       \* the committed content of the database file
          work,       \* what the writing transaction sees; file if there is none
          lock        \* the lock each connection holds between two statements

dbVars == <<file, work, lock>>

Locks == {"none", "shared", "reserved", "pending"}

DBTypeOK == /\ file \in Database
            /\ work \in Database
            /\ lock \in [Clients -> Locks]

DBInit == /\ file = EmptyDB
          /\ work = EmptyDB
          /\ lock = [c \in Clients |-> "none"]

-----------------------------------------------------------------------------
(* Queries                                                                 *)

IsWriter(c) == lock[c] \in {"reserved", "pending"}

(* A connection reads its own uncommitted changes, and nobody else's.      *)
View(c) == IF IsWriter(c) THEN work ELSE file

RowAt(db, t, i) == IF i \in Index THEN db.tab[t][i] ELSE NoRow

(* select ... from RECORD where create_time = tm                           *)
RecordsAt(db, tm) ==
    {i \in Index : db.tab["RECORD"][i] # NoRow /\ db.tab["RECORD"][i].create = tm}

-----------------------------------------------------------------------------
(* Locking                                                                 *)

(* PENDING, left by a commit that failed, keeps new readers out.           *)
CanRead(c) == lock[c] # "none" \/ \A d \in Clients \ {c} : lock[d] # "pending"

(* Only one connection can hold RESERVED, and nobody waits for it.         *)
CanWrite(c) == CanRead(c) /\ \A d \in Clients \ {c} : ~IsWriter(d)

(* A commit that changed the file needs every other connection out of it.  *)
CanCommit(c) == work = file \/ \A d \in Clients \ {c} : lock[d] = "none"

(* A select inside a transaction keeps its SHARED lock until the end.      *)
HoldShared(c) ==
    lock' = [lock EXCEPT ![c] = IF @ = "none" THEN "shared" ELSE @]

HoldReserved(c) == lock' = [lock EXCEPT ![c] = "reserved"]

(* An insert, update or delete. It fails without touching a lock when it   *)
(* does not parse, meets another writer or hits an I/O error; a constraint *)
(* violation undoes the statement but keeps the lock it took.              *)
Executes(c, parses, accepted, result) ==
    /\ parses /\ CanWrite(c) /\ accepted
    /\ HoldReserved(c)
    /\ work' = result

Refuses(c, parses, accepted) ==
    /\ \/ /\ parses /\ CanWrite(c) /\ ~accepted
          /\ HoldReserved(c)
       \/ /\ ~parses \/ ~CanWrite(c) \/ "exec" \in Faults
          /\ UNCHANGED lock
    /\ UNCHANGED work

SelectFails(c) == ~CanRead(c) \/ "select" \in Faults

(* End of a transaction, by rollback, by close or by death of the process: *)
(* the uncommitted changes are gone.                                       *)
Release(c) ==
    /\ lock' = [lock EXCEPT ![c] = "none"]
    /\ work' = IF IsWriter(c) THEN file ELSE work
    /\ UNCHANGED file

=============================================================================
