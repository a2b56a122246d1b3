---------------------------- MODULE RecordStore ----------------------------
(***************************************************************************)
(* What the record database promises to the programs that call             *)
(* CDBInterface, with no tables, transactions or locks: a set of whole     *)
(* records that each call changes in one indivisible step, or not at all.  *)
(*                                                                         *)
(* A record is accepted only when its creation time and its event time are *)
(* both new; a stored record is never rewritten; a call that fails leaves  *)
(* the store alone; and a caller that dies takes nothing with it.          *)
(* DBInterface.tla is shown to implement this specification.               *)
(***************************************************************************)
CONSTANTS Clients,   \* the programs that have the database open
          Recs,      \* the records they may write, with fields create and event
          Times,     \* creation and event times
          NoRow      \* stands for "no record"

VARIABLES store,     \* the records that are stored
          status     \* for each client, the call it is making and how it stands

vars == <<store, status>>

Idle == [phase |-> "idle", op |-> "none", rec |-> NoRow]

Statuses == [phase : {"idle", "busy", "ok", "failed"},
             op    : {"none", "write", "read", "del"},
             rec   : Recs \cup {NoRow}]

(* The types of the stored records and the calls in progress.              *)
TypeOK == /\ store \subseteq Recs
          /\ status \in [Clients -> Statuses]

Init == /\ store = {}
        /\ status = [c \in Clients |-> Idle]

Become(c, phase) == status' = [status EXCEPT ![c].phase = phase]

(* A call is made, and may fail at once (the file cannot be opened).       *)
Invoke(c) ==
    /\ status[c] = Idle
    /\ \E s \in Statuses : /\ s.phase \in {"busy", "failed"}
                           /\ s.op # "none"
                           /\ (s.op = "write") <=> (s.rec \in Recs)
                           /\ status' = [status EXCEPT ![c] = s]
    /\ UNCHANGED store

(* The same for one call; only a write has a record.                       *)
Call(c, op, rec) ==
    /\ status[c] = Idle
    /\ \E phase \in {"busy", "failed"} :
         status' = [status EXCEPT ![c] = [phase |-> phase, op |-> op, rec |-> rec]]
    /\ UNCHANGED store

(* The one instant at which a write takes effect.                          *)
Insert(c) ==
    /\ status[c].phase = "busy"
    /\ status[c].op = "write"
    /\ \A s \in store : /\ s.create # status[c].rec.create
                        /\ s.event # status[c].rec.event
    /\ store' = store \cup {status[c].rec}
    /\ Become(c, "ok")

(* The one instant at which a deletion takes effect: it removes the records*)
(* of one creation time, which may be none.                                *)
Delete(c) ==
    /\ status[c].phase = "busy"
    /\ status[c].op = "del"
    /\ \E t \in Times : store' = {s \in store : s.create # t}
    /\ Become(c, "ok")

Read(c) ==
    /\ status[c].phase = "busy"
    /\ status[c].op = "read"
    /\ Become(c, "ok")
    /\ UNCHANGED store

Fail(c) ==
    /\ status[c].phase = "busy"
    /\ Become(c, "failed")
    /\ UNCHANGED store

(* The call returns, or the client dies in the middle of it.               *)
Leave(c) ==
    /\ status[c].phase # "idle"
    /\ status' = [status EXCEPT ![c] = Idle]
    /\ UNCHANGED store

Next == \E c \in Clients : \/ Invoke(c) \/ Insert(c) \/ Delete(c)
                           \/ Read(c) \/ Fail(c) \/ Leave(c)

Spec == Init /\ [][Next]_vars

(***************************************************************************)
(* No two stored records share a creation time, by which the dialog finds  *)
(* them again, or an event time.                                           *)
(***************************************************************************)
KeysDistinct ==
    \A r, s \in store : (r.create = s.create \/ r.event = s.event) => r = s
=============================================================================
