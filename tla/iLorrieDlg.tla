----------------------------- MODULE iLorrieDlg -----------------------------
(***************************************************************************)
(* The main dialog CiLorrieDlg (iLorrie/iLorrieDlg.cpp) with the records   *)
(* and briefs CRecordMgr keeps in memory (RecordInfoLib/RecordData.cpp).   *)
(* Several programs may run on one database file.                          *)
(*                                                                         *)
(* The database is RecordStore.tla, which DBInterface.tla implements: each *)
(* handler calls it (Call), the call takes effect (Insert, Read, Fail)     *)
(* while other programs go on, and the handler resumes when it returns     *)
(* (Leave). No handler deletes: OnBnClickedBtnDel is empty.                *)
(*                                                                         *)
(* Memory and the combo box have a time as a time_t, an instant, and the   *)
(* database has it as a text. A listing takes the instant from the text    *)
(* (_StringToTime), which is an hour late within daylight saving time, and *)
(* ReadRecord looks for the text of an instant (_TimeToString).            *)
(***************************************************************************)
EXTENDS Integers, Sequences, FiniteSets, FiniteSetsExt, SequencesExt

CONSTANTS Clients,   \* the programs
          Recs,      \* the records: title, create, event, and valid parts
          Times,     \* creation and event times as they are stored
          Instants,          \* the same as the programs have them
          TimeToString,      \* the text _TimeToString makes of an instant
          StringToTime,      \* the instant _StringToTime makes of a text
          NoRow,     \* no record
          Shipped,   \* the records the database file may come with
          MaxBlanks  \* bound: a user with so many blank records picks no item

(* A program sets the valid flag of the event only; what a file comes with *)
(* may have the others, too.                                               *)
Parts == {"event", "feedback", "effect"}

ASSUME ConversionAssumption ==
    /\ Instants \subseteq Nat \ {0}
    /\ TimeToString \in [Instants -> Times]
    /\ StringToTime \in [Times -> Instants]

ASSUME RecsAssumption ==
    /\ \A r \in Recs : r.create \in Times /\ r.event \in Times /\ r.valid \subseteq Parts
    /\ NoRow \notin Recs

ASSUME ShippedAssumption ==
    \A records \in Shipped :
        /\ records \subseteq Recs
        /\ IsFiniteSet(records)
        /\ \A r, s \in records : (r.create = s.create \/ r.event = s.event) => r = s

VARIABLES store, status,   \* the database and the call each program makes
          dlg              \* the memory of each program

vars == <<store, status, dlg>>

Store == INSTANCE RecordStore

(* A record in memory. ReadRecord sets the creation time to the one it was *)
(* asked for, and leaves a blank record if it finds no row of that time.   *)
Loaded == [create : Instants \cup {0}, rec : Recs \cup {NoRow}]

Blank == [create |-> 0, rec |-> NoRow]

(* A text box shows nothing, or a part of a record.                        *)
Shows == [part : Parts, rec : Recs]
Boxes == [info : Loaded \cup {NoRow}, event : {NoRow} \cup Shows,
          feedback : {NoRow} \cup Shows, effect : {NoRow} \cup Shows]

EmptyBoxes == [info |-> NoRow, event |-> NoRow, feedback |-> NoRow, effect |-> NoRow]

(* at: what the dialog is doing; briefs, records: m_vecBriefs, m_vecRecords*)
(* combo: the creation times bound to the items of m_cmbQueryTitle; sel:   *)
(* the selected item; cur: the position m_pCurRcd points to, and taken: how*)
(* many records there were then; boxes: what the text boxes show; got: what*)
(* a database call has read and is not in memory yet; now: the creation    *)
(* time of the record that is being written. At "message", a handler waits *)
(* for the user to close the message box of ShowMsgBox, and ends then.     *)
(* Zero is CB_ERR and NULL.                                                *)
Dialogs == [at      : {"closed", "loading", "sorting", "selecting", "reading",
                       "writing", "message", "ready"},
            briefs  : Seq([create : Instants, title : {r.title : r \in Recs}]),
            combo   : Seq(Instants),
            sel     : Nat,
            records : Seq(Loaded),
            cur     : Nat,
            taken   : Nat,
            boxes   : Boxes,
            got     : SUBSET Recs,
            now     : Instants \cup {0}]

Closed == [at |-> "closed", briefs |-> <<>>, combo |-> <<>>, sel |-> 0,
           records |-> <<>>, cur |-> 0, taken |-> 0, boxes |-> EmptyBoxes,
           got |-> {}, now |-> 0]

Init == /\ store \in Shipped
        /\ status = [c \in Clients |-> Store!Idle]
        /\ dlg = [c \in Clients |-> Closed]

-----------------------------------------------------------------------------
(* CRecordMgr and CBriefInfo                                               *)

BriefInfo(tm, r) == [create |-> tm, title |-> r.title]

(* A bug that could be made here: to take every new brief for the youngest.*)
AddBriefLast(brief, briefs) == Append(briefs, brief)

(* In front of the first brief that is younger, at the end if none is.     *)
AddBriefAsc(brief, briefs) ==
    LET younger == {i \in DOMAIN briefs : brief.create < briefs[i].create}
    IN  InsertAt(briefs, IF younger = {} THEN Len(briefs) + 1 ELSE Min(younger), brief)

(* A bug that could be made here: to compare the other time of the record. *)
PositionsOfEvent(records, tm) ==
    {i \in DOMAIN records : /\ records[i] # Blank
                            /\ StringToTime[records[i].rec.event] = tm}

(* The positions of the loaded records created at tm; a blank one has the  *)
(* creation time zero, which no item of the combo box has.                 *)
PositionsOf(records, tm) == {i \in DOMAIN records : records[i].create = tm}

IsValid(r, part) == r.rec # NoRow /\ part \in r.rec.valid

Shown(r, part) == [part |-> part, rec |-> r.rec]

(* UpdateRecordControls: RcdSelfInfoDesc, EventDesc, FeedbackDesc and      *)
(* EffectDesc, in this order. FeedbackDesc clears the box of the effect    *)
(* (line 402), and EffectDesc writes into the box of the feedback (442).   *)
RcdSelfInfoDesc(boxes, r) == [boxes EXCEPT !.info = r]

EventDesc(boxes, r) ==
    [boxes EXCEPT !.event = IF IsValid(r, "event") THEN Shown(r, "event") ELSE NoRow]

FeedbackDesc(boxes, r) ==
    IF IsValid(r, "feedback") THEN [boxes EXCEPT !.feedback = Shown(r, "feedback")]
                              ELSE [boxes EXCEPT !.effect = NoRow]

EffectDesc(boxes, r) ==
    IF IsValid(r, "effect") THEN [boxes EXCEPT !.feedback = Shown(r, "effect")]
                            ELSE [boxes EXCEPT !.effect = NoRow]

UpdateRecordControls(boxes, r) ==
    EffectDesc(FeedbackDesc(EventDesc(RcdSelfInfoDesc(boxes, r), r), r), r)

(* A bug that could be made here: the pointer to the new record is not kept*)
RecordShownOnly(d, r) ==
    [d EXCEPT !.records = Append(@, r), !.boxes = UpdateRecordControls(@, r)]

(* A record is added to the end of m_vecRecords, made current and shown.   *)
(* The records may move in memory when one is added.                       *)
RecordShown(d, r) ==
    [d EXCEPT !.records = Append(@, r),
              !.cur = Len(d.records) + 1,
              !.taken = Len(d.records) + 1,
              !.boxes = UpdateRecordControls(@, r)]

-----------------------------------------------------------------------------
(* The database, while a handler waits for it                              *)

Returns(c) == Store!Leave(c)

(* The records a call sees: all for a listing, those stored under the text *)
(* of one time for ReadRecord.                                             *)
Seen(d) == IF d.at = "loading"
           THEN store
           ELSE {r \in store : r.create = TimeToString[d.combo[d.sel]]}

Database(c) ==
    \/ /\ Store!Insert(c) \/ Store!Fail(c)
       /\ UNCHANGED dlg
    \/ /\ Store!Read(c)
       /\ dlg' = [dlg EXCEPT ![c].got = Seen(dlg[c])]

-----------------------------------------------------------------------------
(* The handlers                                                            *)

(* The program starts, and OnInitDialog calls ReadAllRecordAbstract.       *)
OnInitDialog(c) ==
    /\ dlg[c].at = "closed"
    /\ Store!Call(c, "read", NoRow)
    /\ dlg' = [dlg EXCEPT ![c] = [Closed EXCEPT !.at = "loading"]]

(* A bug that could be made here: to start over when the listing failed.   *)
BriefsReadAgain(c) ==
    /\ dlg[c].at = "loading"
    /\ \/ /\ status[c].phase = "ok"
          /\ dlg' = [dlg EXCEPT ![c].at = "sorting"]
       \/ /\ status[c].phase = "failed"
          /\ dlg' = [dlg EXCEPT ![c].at = "closed"]
    /\ Returns(c)

(* ReadAllRecordAbstract returns. When it failed, OnInitDialog returns     *)
(* early after a message, and the dialog opens without a brief.            *)
BriefsRead(c) ==
    /\ dlg[c].at = "loading"
    /\ \/ /\ status[c].phase = "ok"
          /\ dlg' = [dlg EXCEPT ![c].at = "sorting"]
       \/ /\ status[c].phase = "failed"
          /\ dlg' = [dlg EXCEPT ![c].at = "message"]
    /\ Returns(c)

(* The loop of LoadBreifInfo. The table has no order, and each time is what*)
(* _StringToTime makes of its text.                                        *)
LoadBreifInfo(c) ==
    /\ dlg[c].at = "sorting"
    /\ \E r \in dlg[c].got :
         dlg' = [dlg EXCEPT ![c].got = @ \ {r},
                            ![c].briefs = AddBriefAsc(BriefInfo(StringToTime[r.create], r), @)]
    /\ UNCHANGED <<store, status>>

(* One item for each brief; the last is selected, if there is one.         *)
InitBreifCmb(c) ==
    /\ dlg[c].at = "sorting"
    /\ dlg[c].got = {}
    /\ dlg' = [dlg EXCEPT ![c].at = "selecting",
                          ![c].combo = [i \in DOMAIN dlg[c].briefs |-> dlg[c].briefs[i].create],
                          ![c].sel = Len(dlg[c].briefs)]
    /\ UNCHANGED <<store, status>>

(* The user closes the message box, and the handler ends.                  *)
Acknowledge(c) ==
    /\ dlg[c].at = "message"
    /\ dlg' = [dlg EXCEPT ![c].at = "ready"]
    /\ UNCHANGED <<store, status>>

(* The user picks an item: SetCurSel by the control itself. (A blank record*)
(* is not found again in memory, so each further pick would add another.)  *)
Pick(c) ==
    /\ dlg[c].at = "ready"
    /\ Cardinality({i \in DOMAIN dlg[c].records : dlg[c].records[i] = Blank}) < MaxBlanks
    /\ \E i \in DOMAIN dlg[c].combo :
         dlg' = [dlg EXCEPT ![c].at = "selecting", ![c].sel = i]
    /\ UNCHANGED <<store, status>>

(* Show the record of the selected item, from memory if it is there; else  *)
(* call ReadRecord, with m_pCurRcd NULL and the boxes as they were.        *)
OnCbnSelchangeCmbQuery(c) ==
    LET d == dlg[c]
        loaded == PositionsOf(d.records, d.combo[d.sel])
    IN  /\ d.at = "selecting"
        /\ \/ /\ d.sel = 0
              /\ dlg' = [dlg EXCEPT ![c].at = "ready"]
              /\ UNCHANGED <<store, status>>
           \/ /\ d.sel # 0
              /\ loaded # {}
              /\ dlg' = [dlg EXCEPT ![c].at = "ready",
                                    ![c].cur = Min(loaded),
                                    ![c].taken = Len(d.records),
                                    ![c].boxes = UpdateRecordControls(@, d.records[Min(loaded)])]
              /\ UNCHANGED <<store, status>>
           \/ /\ d.sel # 0
              /\ loaded = {}
              /\ Store!Call(c, "read", NoRow)
              /\ dlg' = [dlg EXCEPT ![c].at = "reading", ![c].cur = 0]

(* What ReadRecord hands over. That there is no such record is no error.   *)
(* (One that is added between its selects has no valid part and the time   *)
(* zero: it is kept and shown as a blank one is.)                          *)
Handed(d) == IF d.got = {} THEN {Blank}
             ELSE {[create |-> d.combo[d.sel], rec |-> r] : r \in d.got}

(* ReadRecord returns. The record is added and shown, also a blank one.    *)
RecordRead(c) ==
    /\ dlg[c].at = "reading"
    /\ \/ /\ status[c].phase = "ok"
          /\ \E r \in Handed(dlg[c]) :
               dlg' = [dlg EXCEPT ![c] =
                         [RecordShown(@, r) EXCEPT !.at = "ready", !.got = {}]]
       \/ /\ status[c].phase = "failed"
          /\ dlg' = [dlg EXCEPT ![c].at = "message"]
    /\ Returns(c)

(* The user has entered an event (CDlgEvent ended with IDOK); the record   *)
(* gets the time of the clock, which may stand still or have been set back.*)
AddRecord(c, r, now) ==
    /\ dlg[c].at = "ready"
    /\ r.create = TimeToString[now]
    /\ Store!Call(c, "write", r)
    /\ dlg' = [dlg EXCEPT ![c].at = "writing", ![c].now = now]

OnBnClickedBtnAdd(c) ==
    \E r \in {r \in Recs : r.valid = {"event"}}, now \in Instants : AddRecord(c, r, now)

(* The record of the event dialog in memory.                               *)
Created(c) == [create |-> dlg[c].now, rec |-> status[c].rec]

(* A bug that could be made here: the record is kept though it was refused.*)
RecordKept(c) ==
    LET d == dlg[c]
    IN  /\ d.at = "writing"
        /\ status[c].phase \in {"ok", "failed"}
        /\ dlg' = [dlg EXCEPT ![c] =
                     [RecordShown(d, Created(c)) EXCEPT
                        !.at = "ready",
                        !.now = 0,
                        !.briefs = AddBriefAsc(BriefInfo(d.now, status[c].rec), d.briefs),
                        !.combo = Append(d.combo, d.now),
                        !.sel = Len(d.combo) + 1]]
        /\ Returns(c)

(* A bug that could be made here: the new item stays without SetItemData   *)
(* and is not selected.                                                    *)
ItemWithoutData(c) ==
    LET d == dlg[c]
    IN  /\ d.at = "writing"
        /\ status[c].phase = "ok"
        /\ dlg' = [dlg EXCEPT ![c] =
                     [RecordShown(d, Created(c)) EXCEPT
                        !.at = "ready",
                        !.now = 0,
                        !.briefs = AddBriefAsc(BriefInfo(d.now, status[c].rec), d.briefs),
                        !.combo = Append(d.combo, 0)]]
        /\ Returns(c)

(* A bug that could be made here: the new item goes to the place of its    *)
(* brief, which is not the last, and the last is selected.                 *)
ItemSorted(c) ==
    LET d == dlg[c]
        briefs == AddBriefAsc(BriefInfo(d.now, status[c].rec), d.briefs)
    IN  /\ d.at = "writing"
        /\ status[c].phase = "ok"
        /\ dlg' = [dlg EXCEPT ![c] =
                     [RecordShown(d, Created(c)) EXCEPT
                        !.at = "ready",
                        !.now = 0,
                        !.briefs = briefs,
                        !.combo = [i \in DOMAIN briefs |-> briefs[i].create],
                        !.sel = Len(d.combo) + 1]]
        /\ Returns(c)

(* WriteRecord returns. Only when it returned true is the record added to  *)
(* memory and to the combo box, whose new item comes last, and selected.   *)
RecordWritten(c) ==
    LET d == dlg[c]
    IN  /\ d.at = "writing"
        /\ \/ /\ status[c].phase = "ok"
              /\ dlg' = [dlg EXCEPT ![c] =
                           [RecordShown(d, Created(c)) EXCEPT
                              !.at = "ready",
                              !.now = 0,
                              !.briefs = AddBriefAsc(BriefInfo(d.now, status[c].rec), d.briefs),
                              !.combo = Append(d.combo, d.now),
                              !.sel = Len(d.combo) + 1]]
           \/ /\ status[c].phase = "failed"
              /\ dlg' = [dlg EXCEPT ![c].at = "message", ![c].now = 0]
        /\ Returns(c)

(* The program is closed, or killed in the middle of a handler.            *)
Quit(c) ==
    /\ dlg[c].at # "closed"
    /\ dlg' = [dlg EXCEPT ![c] = Closed]
    /\ IF status[c].phase = "idle" THEN UNCHANGED <<store, status>> ELSE Returns(c)

Next == \E c \in Clients :
           \/ OnInitDialog(c) \/ BriefsRead(c) \/ LoadBreifInfo(c) \/ InitBreifCmb(c)
           \/ Acknowledge(c) \/ Pick(c) \/ OnCbnSelchangeCmbQuery(c) \/ RecordRead(c)
           \/ OnBnClickedBtnAdd(c) \/ RecordWritten(c)
           \/ Database(c) \/ Quit(c)

Spec == Init /\ [][Next]_vars

-----------------------------------------------------------------------------
(* Properties                                                              *)

(* The types of the store, the calls and the memory of each program.       *)
TypeOK == Store!TypeOK /\ dlg \in [Clients -> Dialogs]

Ready(c) == dlg[c].at = "ready"

(* A creation time in memory that is that of a stored record: the one it   *)
(* was written at, or what a listing makes of its text.                    *)
TimeOf(tm, r) == TimeToString[tm] = r.create \/ StringToTime[r.create] = tm

(* The time under which a listing has one of the records is not the one it *)
(* is found by: it was created within daylight saving time.                *)
MisheardOf(records, tm) ==
    \E r \in records : StringToTime[r.create] = tm /\ TimeToString[tm] # r.create

Misheard(tm) == MisheardOf(store, tm)

(* Memory never disagrees with the database, however many programs add at  *)
(* the same time or die: a loaded record is one that is stored now, under  *)
(* the text of its time, and a brief has the title of a stored record and a*)
(* time of it. Nothing ever refreshes them, so this is because no stored   *)
(* record is ever rewritten. A blank record is loaded for nothing but a    *)
(* time that a listing has wrong.                                          *)
MemoryIsStored ==
    \A c \in Clients :
        /\ \A r \in ToSet(dlg[c].records) :
             \/ r = Blank /\ \E tm \in ToSet(dlg[c].combo) : Misheard(tm)
             \/ r.create # 0 /\ r.rec \in store /\ r.rec.create = TimeToString[r.create]
        /\ \A brief \in ToSet(dlg[c].briefs) :
             \E r \in store : brief.title = r.title /\ TimeOf(brief.create, r)

(* GetRecordByTime cannot mean two records: no creation time is loaded     *)
(* twice. The items of the combo box mean different ones, except for a time*)
(* that a listing has wrong and that another record was created at.        *)
NothingTwice ==
    \A c \in Clients :
        LET d == dlg[c]
        IN  /\ \A i, j \in DOMAIN d.records :
                 d.records[i].create = d.records[j].create => i = j \/ d.records[i] = Blank
            /\ \A i, j \in DOMAIN d.combo :
                 d.combo[i] = d.combo[j] => i = j \/ Misheard(d.combo[i])
            /\ d.at # "sorting" => Len(d.combo) = Len(d.briefs)

(* When a handler has ended with a current record, it has the time of the  *)
(* selected item, although the combo box is in the order of addition and   *)
(* the briefs are in the order of time, and the boxes of the record and the*)
(* event show it; or it is blank, for a time that a listing has wrong. (A  *)
(* failed ReadRecord leaves no current record, but the boxes as they were.)*)
ShownIsSelected ==
    \A c \in Clients : Ready(c) /\ dlg[c].cur # 0 =>
        LET r == dlg[c].records[dlg[c].cur]
        IN  /\ dlg[c].boxes.info = r
            /\ dlg[c].boxes.event = IF IsValid(r, "event") THEN Shown(r, "event") ELSE NoRow
            /\ dlg[c].sel # 0
            /\ LET tm == dlg[c].combo[dlg[c].sel]
               IN  r.create = tm \/ (r = Blank /\ Misheard(tm))

(* m_pCurRcd points into m_vecRecords, which may move when it grows: no    *)
(* record was added since the pointer was taken, in any handler.           *)
CurrentIsLive ==
    \A c \in Clients : dlg[c].cur # 0 =>
        dlg[c].cur \in DOMAIN dlg[c].records /\ dlg[c].taken = Len(dlg[c].records)

(* The briefs are in ascending order of the creation times in memory, also *)
(* when the clock was set back between two additions.                      *)
BriefsAscend ==
    \A c \in Clients : \A i, j \in DOMAIN dlg[c].briefs :
        i < j => dlg[c].briefs[i].create <= dlg[c].briefs[j].create

(* iLorrieDlg.cpp:338: the boxes show the current record in detail, each   *)
(* its own part of it.                                                     *)
BoxesShowCurrent ==
    \A c \in Clients : Ready(c) /\ dlg[c].cur # 0 =>
        LET r == dlg[c].records[dlg[c].cur]
        IN  /\ dlg[c].boxes.feedback = IF IsValid(r, "feedback") THEN Shown(r, "feedback") ELSE NoRow
            /\ dlg[c].boxes.effect = IF IsValid(r, "effect") THEN Shown(r, "effect") ELSE NoRow

(* RecordData.h: the briefs are those of all the records in the database.  *)
BriefsAreAll ==
    \A c \in Clients : Ready(c) =>
        \A r \in store : \E brief \in ToSet(dlg[c].briefs) :
            brief.title = r.title /\ TimeOf(brief.create, r)
=============================================================================
