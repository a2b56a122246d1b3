-------------------------- MODULE iLorrieDlgProofs --------------------------
(***************************************************************************)
(* Proofs about iLorrieDlg, for every set of programs and records, every   *)
(* database file the programs may find, and every number of additions: the *)
(* memory of each program agrees with the database and with itself.        *)
(*                                                                         *)
(* The invariants are not inductive alone: that no creation time is loaded *)
(* twice, for instance, rests on what a handler knows while it waits for   *)
(* the database. DialogInv says that of one program's memory d, the call s *)
(* it makes and the stored records. Nothing is assumed of the conversions  *)
(* but their types: they may be wrong for any time.                        *)
(***************************************************************************)
EXTENDS iLorrieDlg, DataLemmas

-----------------------------------------------------------------------------
(* The inductive invariant                                                 *)

Waiting == {"loading", "reading", "writing"}

(* The handler that waits has made the call it waits for.                  *)
CallInv(d, s) ==
    /\ d.at \notin Waiting => s = Store!Idle
    /\ d.at \in Waiting => s.phase \in {"busy", "ok", "failed"}
    /\ d.at \in {"loading", "reading"} => s.op = "read"
    /\ d.at = "writing" => /\ s.op = "write" /\ s.rec \in Recs
                           /\ d.now \in Instants /\ s.rec.create = TimeToString[d.now]

(* What is in memory before the start has ended, and how the lists match.  *)
StartInv(d) ==
    /\ d.at \in {"closed", "loading", "sorting"} =>
         d.combo = <<>> /\ d.records = <<>> /\ d.sel = 0 /\ d.cur = 0
    /\ d.at \in {"closed", "loading"} => d.briefs = <<>>
    /\ d.at # "sorting" => Len(d.combo) = Len(d.briefs)

(* The selection, and the pointer to the current record.                   *)
CurrentInv(d, records) ==
    /\ d.sel \in 0 .. Len(d.combo)
    /\ d.at = "selecting" /\ d.sel = 0 => d.cur = 0
    /\ d.at = "reading" =>
         /\ d.sel # 0
         /\ d.cur = 0
         /\ \A i \in DOMAIN d.records : d.records[i].create # d.combo[d.sel]
    /\ d.cur # 0 => d.cur \in DOMAIN d.records /\ d.taken = Len(d.records)
    /\ d.at \in {"ready", "writing", "message"} /\ d.cur # 0 =>
         LET r == d.records[d.cur]
         IN  /\ d.boxes.info = r
             /\ d.boxes.event = IF IsValid(r, "event") THEN Shown(r, "event") ELSE NoRow
             /\ d.sel # 0
             /\ \/ r.create = d.combo[d.sel]
                \/ r = Blank /\ MisheardOf(records, d.combo[d.sel])

(* No creation time is there twice but one that was misheard, and the      *)
(* briefs are in order.                                                    *)
TwiceInv(d, records) ==
    /\ \A i, j \in DOMAIN d.records :
         d.records[i].create = d.records[j].create => i = j \/ d.records[i] = Blank
    /\ \A i, j \in DOMAIN d.combo :
         d.combo[i] = d.combo[j] => i = j \/ MisheardOf(records, d.combo[i])
    /\ d.at = "sorting" =>
         \A i, j \in DOMAIN d.briefs :
            d.briefs[i].create = d.briefs[j].create =>
                i = j \/ MisheardOf(records, d.briefs[i].create)
    /\ \A i, j \in DOMAIN d.briefs : i < j => d.briefs[i].create <= d.briefs[j].create

(* What has been read and is not in memory yet.                            *)
GotInv(d, s, records) ==
    /\ d.got \subseteq records
    /\ d.at \notin {"loading", "sorting", "reading"} => d.got = {}
    /\ d.at \in {"loading", "reading"} /\ s.phase # "ok" => d.got = {}
    /\ d.at = "reading" => \A r \in d.got : r.create = TimeToString[d.combo[d.sel]]
    /\ d.at = "reading" /\ s.phase = "ok" =>
         d.got # {} \/ MisheardOf(records, d.combo[d.sel])
    /\ d.at = "sorting" =>
         \A r \in d.got : \A i \in DOMAIN d.briefs :
            \/ d.briefs[i].create # StringToTime[r.create]
            \/ MisheardOf(records, d.briefs[i].create)

(* A loaded record is stored, or blank for a time that was misheard.       *)
LoadedOf(r, combo, records) ==
    \/ r = Blank /\ \E i \in DOMAIN combo : MisheardOf(records, combo[i])
    \/ r.create # 0 /\ r.rec \in records /\ r.rec.create = TimeToString[r.create]

StoredInv(d, records) ==
    /\ \A i \in DOMAIN d.records : LoadedOf(d.records[i], d.combo, records)
    /\ \A i \in DOMAIN d.briefs : \E r \in records :
          d.briefs[i].title = r.title /\ TimeOf(d.briefs[i].create, r)
    /\ \A i \in DOMAIN d.combo : \E r \in records : TimeOf(d.combo[i], r)

(* A record that was written and is not in memory yet is new there.        *)
WrittenInv(d, s, records) ==
    d.at = "writing" /\ s.phase = "ok" =>
        /\ s.rec \in records
        /\ \A i \in DOMAIN d.records : d.records[i].create # d.now
        /\ \A i \in DOMAIN d.combo : d.combo[i] # d.now \/ MisheardOf(records, d.combo[i])

DialogInv(d, s, records) ==
    /\ CallInv(d, s)
    /\ StartInv(d)
    /\ CurrentInv(d, records)
    /\ TwiceInv(d, records)
    /\ GotInv(d, s, records)
    /\ StoredInv(d, records)
    /\ WrittenInv(d, s, records)

IInv == /\ TypeOK
        /\ Store!KeysDistinct
        /\ \A c \in Clients : DialogInv(dlg[c], status[c], store)

-----------------------------------------------------------------------------
(* Where the elements are after one has been inserted.                     *)
LEMMA InsertAtPlaces ==
    ASSUME NEW S, NEW s \in Seq(S), NEW i \in 1 .. Len(s) + 1, NEW e \in S
    PROVE  /\ InsertAt(s, i, e) \in Seq(S)
           /\ Len(InsertAt(s, i, e)) = Len(s) + 1
           /\ \A j \in 1 .. Len(s) + 1 :
                InsertAt(s, i, e)[j] = IF j < i THEN s[j] ELSE IF j = i THEN e ELSE s[j - 1]
<1> DEFINE before == SubSeq(s, 1, i - 1)
           after == SubSeq(s, i, Len(s))
<1>1. /\ before \in Seq(S) /\ Len(before) = i - 1
      /\ \A j \in 1 .. i - 1 : before[j] = s[j]
  BY SubSeqProperties, LenProperties, ElementOfSeq
<1>2. /\ after \in Seq(S) /\ Len(after) = Len(s) - i + 1
      /\ \A j \in 1 .. Len(s) - i + 1 : after[j] = s[i + j - 1]
  BY SubSeqProperties, LenProperties, ElementOfSeq
<1>3. <<e>> \in Seq(S) /\ Len(<<e>>) = 1 /\ <<e>>[1] = e
  OBVIOUS
<1> HIDE DEF before, after
<1> DEFINE upto == before \o <<e>>
<1>4. /\ upto \in Seq(S) /\ Len(upto) = i
      /\ \A j \in 1 .. i : upto[j] = IF j < i THEN s[j] ELSE e
  BY <1>1, <1>3, ConcatProperties
<1> HIDE DEF upto
<1>5. /\ upto \o after \in Seq(S) /\ Len(upto \o after) = Len(s) + 1
      /\ \A j \in 1 .. Len(s) + 1 :
            (upto \o after)[j] = IF j <= i THEN upto[j] ELSE after[j - i]
  <2>1. Len(upto) + Len(after) = Len(s) + 1
    BY <1>4, <1>2, LenProperties
  <2>2. /\ upto \o after \in Seq(S) /\ Len(upto \o after) = Len(upto) + Len(after)
        /\ \A j \in 1 .. Len(upto) + Len(after) :
              (upto \o after)[j] = IF j <= Len(upto) THEN upto[j] ELSE after[j - Len(upto)]
    BY <1>4, <1>2, ConcatProperties
  <2> QED BY <2>1, <2>2, <1>4
<1>6. InsertAt(s, i, e) = upto \o after
  BY DEF InsertAt, upto, before, after
<1> QED BY <1>2, <1>4, <1>5, <1>6

Briefs == [create : Instants, title : {r.title : r \in Recs}]

(* AddBriefAsc keeps the order, adds the brief and nothing else.           *)
LEMMA AddBriefAscAdds ==
    ASSUME NEW briefs \in Seq(Briefs), NEW brief \in Briefs,
           \A i, j \in DOMAIN briefs : i < j => briefs[i].create <= briefs[j].create
    PROVE  LET added == AddBriefAsc(brief, briefs)
           IN  /\ added \in Seq(Briefs)
               /\ Len(added) = Len(briefs) + 1
               /\ \A i, j \in DOMAIN added : i < j => added[i].create <= added[j].create
               /\ \E place \in 1 .. Len(briefs) + 1 : \A j \in 1 .. Len(briefs) + 1 :
                    added[j] = IF j < place THEN briefs[j]
                               ELSE IF j = place THEN brief ELSE briefs[j - 1]
<1> DEFINE younger == {i \in DOMAIN briefs : brief.create < briefs[i].create}
           place == IF younger = {} THEN Len(briefs) + 1 ELSE Min(younger)
           added == InsertAt(briefs, place, brief)
<1>1. DOMAIN briefs = 1 .. Len(briefs) /\ Len(briefs) \in Nat
      /\ \A i \in DOMAIN briefs : briefs[i] \in Briefs
  BY LenProperties, ElementOfSeq
<1>2. /\ brief.create \in Nat
      /\ \A i \in DOMAIN briefs : briefs[i].create \in Nat
  BY <1>1, ConversionAssumption DEF Briefs
<1>3. /\ place \in 1 .. Len(briefs) + 1
      /\ \A i \in DOMAIN briefs : i < place => briefs[i].create <= brief.create
      /\ \A i \in DOMAIN briefs : i >= place => brief.create < briefs[i].create
  <2>1. CASE younger = {}
    BY <2>1, <1>1, <1>2
  <2>2. CASE younger # {}
    <3>1. Min(younger) \in younger /\ \A x \in younger : Min(younger) <= x
      <4>1. younger \subseteq Nat
        BY <1>1
      <4> HIDE DEF younger
      <4> QED BY <4>1, <2>2, MinIsLeast
    <3>2. place \in younger /\ \A x \in younger : place <= x
      BY <3>1, <2>2
    <3>3. place \in 1 .. Len(briefs) + 1
      BY <3>2, <1>1
    <3>4. ASSUME NEW i \in DOMAIN briefs, i < place
          PROVE  briefs[i].create <= brief.create
      <4>1. i \notin younger
        <5> HIDE DEF younger, place
        <5> QED BY <3>2, <3>3, <3>4, <1>1
      <4> QED BY <4>1, <1>2
    <3>5. ASSUME NEW i \in DOMAIN briefs, i >= place
          PROVE  brief.create < briefs[i].create
      <4>1. brief.create < briefs[place].create /\ place \in DOMAIN briefs
        BY <3>2
      <4> HIDE DEF younger, place
      <4> QED BY <4>1, <3>3, <3>5, <1>1, <1>2
    <3> HIDE DEF younger, place
    <3> QED BY <3>3, <3>4, <3>5
  <2> QED BY <2>1, <2>2
<1> HIDE DEF place
<1>4. /\ added \in Seq(Briefs)
      /\ Len(added) = Len(briefs) + 1
      /\ \A j \in 1 .. Len(briefs) + 1 :
           added[j] = IF j < place THEN briefs[j] ELSE IF j = place THEN brief ELSE briefs[j - 1]
  <2>1. place \in 1 .. Len(briefs) + 1
    BY <1>3
  <2> HIDE DEF younger, place
  <2> QED BY <2>1, InsertAtPlaces, SMTT(30)
<1>5. DOMAIN added = 1 .. Len(briefs) + 1
  BY <1>4, LenProperties
<1> HIDE DEF added
<1>6. ASSUME NEW i \in DOMAIN added, NEW j \in DOMAIN added, i < j
      PROVE  added[i].create <= added[j].create
  <2>1. i \in 1 .. Len(briefs) + 1 /\ j \in 1 .. Len(briefs) + 1
    BY <1>5
  <2>2. CASE j < place
    BY <2>1, <2>2, <1>1, <1>3, <1>4, <1>6
  <2>3. CASE j = place
    BY <2>1, <2>3, <1>1, <1>3, <1>4, <1>6
  <2>4. CASE j > place
    <3>1. j - 1 \in DOMAIN briefs /\ j - 1 >= place /\ added[j] = briefs[j - 1]
      BY <2>1, <2>4, <1>1, <1>3, <1>4
    <3>2. CASE i < place
      <4>1. i \in DOMAIN briefs /\ added[i] = briefs[i]
        BY <2>1, <3>2, <1>1, <1>3, <1>4
      <4> QED BY <4>1, <3>1, <3>2, <1>2, <1>3
    <3>3. CASE i = place
      BY <2>1, <3>1, <3>3, <1>2, <1>3, <1>4
    <3>4. CASE i > place
      <4>1. i - 1 \in DOMAIN briefs /\ i - 1 < j - 1 /\ added[i] = briefs[i - 1]
        BY <2>1, <3>4, <1>1, <1>3, <1>4, <1>6
      <4> QED BY <4>1, <3>1
    <3> QED BY <3>2, <3>3, <3>4, <2>1, <1>3
  <2> QED BY <2>1, <2>2, <2>3, <2>4, <1>3
<1>7. added = AddBriefAsc(brief, briefs)
  BY DEF added, place, AddBriefAsc
<1> QED BY <1>3, <1>4, <1>6, <1>7

(* An element of what AddBriefAsc returns is the new one or an old one.    *)
LEMMA AddedOrOld ==
    ASSUME NEW briefs \in Seq(Briefs), NEW brief, NEW added,
           NEW place \in 1 .. Len(briefs) + 1, DOMAIN added = 1 .. Len(briefs) + 1,
           \A j \in 1 .. Len(briefs) + 1 :
              added[j] = IF j < place THEN briefs[j]
                         ELSE IF j = place THEN brief ELSE briefs[j - 1]
    PROVE  \A i \in DOMAIN added :
              added[i] = brief \/ \E j \in DOMAIN briefs : added[i] = briefs[j]
<1>1. DOMAIN briefs = 1 .. Len(briefs) /\ Len(briefs) \in Nat
  BY LenProperties
<1> QED BY <1>1

(* UpdateRecordControls shows the record and its event.                    *)
LEMMA ControlsShow ==
    ASSUME NEW boxes \in Boxes, NEW r \in Loaded
    PROVE  LET shown == UpdateRecordControls(boxes, r)
           IN  /\ shown \in Boxes
               /\ shown.info = r
               /\ shown.event = IF IsValid(r, "event") THEN Shown(r, "event") ELSE NoRow
<1>1. \A part \in Parts : IsValid(r, part) => Shown(r, part) \in Shows
  BY DEF Shown, Shows, IsValid, Loaded
<1> DEFINE info == RcdSelfInfoDesc(boxes, r)
           event == EventDesc(info, r)
           feedback == FeedbackDesc(event, r)
<1>2. info \in Boxes /\ info.info = r
  BY DEF RcdSelfInfoDesc, Boxes
<1> HIDE DEF info
<1>3. /\ event \in Boxes /\ event.info = r
      /\ event.event = IF IsValid(r, "event") THEN Shown(r, "event") ELSE NoRow
  BY <1>1, <1>2 DEF EventDesc, Boxes, Parts
<1> HIDE DEF event
<1>4. feedback \in Boxes /\ feedback.info = r /\ feedback.event = event.event
  BY <1>1, <1>3 DEF FeedbackDesc, Boxes, Parts
<1> HIDE DEF feedback
<1>5. /\ EffectDesc(feedback, r) \in Boxes
      /\ EffectDesc(feedback, r).info = r
      /\ EffectDesc(feedback, r).event = event.event
  BY <1>1, <1>4 DEF EffectDesc, Boxes, Parts
<1> QED BY <1>3, <1>5 DEF UpdateRecordControls, info, event, feedback

(* A record that is added to memory is current and shown.                  *)
LEMMA RecordShownIsCurrent ==
    ASSUME NEW d \in Dialogs, NEW r \in Loaded
    PROVE  LET e == RecordShown(d, r)
           IN  /\ e \in Dialogs
               /\ e.records = Append(d.records, r)
               /\ e.cur = Len(d.records) + 1 /\ e.taken = e.cur
               /\ e.boxes.info = r
               /\ e.boxes.event = IF IsValid(r, "event") THEN Shown(r, "event") ELSE NoRow
               /\ e.at = d.at /\ e.briefs = d.briefs /\ e.combo = d.combo
               /\ e.sel = d.sel /\ e.got = d.got /\ e.now = d.now
<1> DEFINE shown == UpdateRecordControls(d.boxes, r)
<1>1. /\ shown \in Boxes /\ shown.info = r
      /\ shown.event = IF IsValid(r, "event") THEN Shown(r, "event") ELSE NoRow
  <2>1. d.boxes \in Boxes
    BY DEF Dialogs
  <2> QED BY <2>1, ControlsShow
<1>2. Append(d.records, r) \in Seq(Loaded) /\ Len(d.records) + 1 \in Nat
  BY AppendProperties, LenProperties DEF Dialogs
<1> HIDE DEF shown
<1> DEFINE grown == Append(d.records, r)
<1>3. RecordShown(d, r) = [d EXCEPT !.records = grown, !.cur = Len(d.records) + 1,
                                    !.taken = Len(d.records) + 1, !.boxes = shown]
  BY DEF RecordShown, shown
<1> HIDE DEF grown
<1> QED BY <1>1, <1>2, <1>3 DEF Dialogs, grown

(* Records of different creation times stay so when one of another is added*)
LEMMA RecordsStayDistinct ==
    ASSUME NEW before, NEW after, NEW r, Appended(before, after, r),
           \A i, j \in DOMAIN before :
              before[i].create = before[j].create => i = j \/ before[i] = Blank,
           r = Blank \/ \A i \in DOMAIN before : before[i].create # r.create,
           \A i \in DOMAIN before : before[i].create = 0 => before[i] = Blank
    PROVE  \A i, j \in DOMAIN after :
              after[i].create = after[j].create => i = j \/ after[i] = Blank
<1> SUFFICES ASSUME NEW i \in DOMAIN after, NEW j \in DOMAIN after,
                    after[i].create = after[j].create
             PROVE  i = j \/ after[i] = Blank
  OBVIOUS
<1> DEFINE n == Len(before)
<1>1. (i \in DOMAIN before \/ i = n + 1) /\ (j \in DOMAIN before \/ j = n + 1)
  BY DEF Appended
<1>2. CASE i \in DOMAIN before /\ j \in DOMAIN before
  BY <1>2 DEF Appended
<1>3. CASE i \in DOMAIN before /\ j = n + 1
  <2>1. before[i].create = r.create /\ after[i] = before[i]
    BY <1>3 DEF Appended
  <2>2. r = Blank => before[i] = Blank
    BY <2>1, <1>3 DEF Blank
  <2> QED BY <2>1, <2>2, <1>3
<1>4. CASE i = n + 1 /\ j \in DOMAIN before
  <2>1. before[j].create = r.create /\ after[i] = r
    BY <1>4 DEF Appended
  <2> QED BY <2>1, <1>4
<1> QED BY <1>1, <1>2, <1>3, <1>4

(* The same for the items of a combo box.                                  *)
LEMMA ItemsStayDistinct ==
    ASSUME NEW before, NEW after, NEW t, NEW records, Appended(before, after, t),
           \A i, j \in DOMAIN before :
              before[i] = before[j] => i = j \/ MisheardOf(records, before[i]),
           \A i \in DOMAIN before : before[i] # t \/ MisheardOf(records, before[i])
    PROVE  \A i, j \in DOMAIN after :
              after[i] = after[j] => i = j \/ MisheardOf(records, after[i])
<1> SUFFICES ASSUME NEW i \in DOMAIN after, NEW j \in DOMAIN after, after[i] = after[j]
             PROVE  i = j \/ MisheardOf(records, after[i])
  OBVIOUS
<1> DEFINE n == Len(before)
<1>1. (i \in DOMAIN before \/ i = n + 1) /\ (j \in DOMAIN before \/ j = n + 1)
  BY DEF Appended
<1>2. CASE i \in DOMAIN before /\ j \in DOMAIN before
  BY <1>2 DEF Appended
<1>3. CASE i \in DOMAIN before /\ j = n + 1
  BY <1>3 DEF Appended
<1>4. CASE i = n + 1 /\ j \in DOMAIN before
  BY <1>4 DEF Appended
<1> QED BY <1>1, <1>2, <1>3, <1>4

-----------------------------------------------------------------------------
(* Steps                                                                   *)

(* What a program knows stays true when another program adds records.      *)
LEMMA DialogInvGrows ==
    ASSUME NEW d, NEW s, NEW records, NEW more,
           records \subseteq more, DialogInv(d, s, records)
    PROVE  DialogInv(d, s, more)
<1>0. \A tm : MisheardOf(records, tm) => MisheardOf(more, tm)
  BY DEF MisheardOf
<1>1. GotInv(d, s, more)
  BY <1>0 DEF DialogInv, GotInv
<1>2. StoredInv(d, more)
  BY <1>0 DEF DialogInv, StoredInv, LoadedOf
<1>3. WrittenInv(d, s, more)
  BY <1>0 DEF DialogInv, WrittenInv
<1>4. CurrentInv(d, more)
  BY <1>0 DEF DialogInv, CurrentInv
<1>5. TwiceInv(d, more)
  BY <1>0 DEF DialogInv, TwiceInv
<1> QED BY <1>1, <1>2, <1>3, <1>4, <1>5 DEF DialogInv

(* A step that changes the memory and the call of one program.             *)
LEMMA OneProgramChanges ==
    ASSUME IInv, NEW c \in Clients, NEW d \in Dialogs, NEW s \in Store!Statuses,
           dlg' = [dlg EXCEPT ![c] = d], status' = [status EXCEPT ![c] = s],
           UNCHANGED store, DialogInv(d, s, store)
    PROVE  IInv'
<1>1. TypeOK'
  BY DEF IInv, TypeOK, Store!TypeOK
<1>2. Store!KeysDistinct'
  BY DEF IInv, Store!KeysDistinct
<1>3. ASSUME NEW p \in Clients PROVE DialogInv(dlg'[p], status'[p], store')
  <2>1. CASE p = c
    BY <2>1 DEF IInv, TypeOK, Store!TypeOK
  <2>2. CASE p # c
    BY <2>2 DEF IInv, TypeOK, Store!TypeOK
  <2> QED BY <2>1, <2>2
<1> QED BY <1>1, <1>2, <1>3 DEF IInv

(* The state of one program, for the proofs that follow.                   *)
LEMMA OneProgram ==
    ASSUME IInv, NEW c \in Clients
    PROVE  /\ dlg[c] \in Dialogs /\ status[c] \in Store!Statuses
           /\ DialogInv(dlg[c], status[c], store)
           /\ store \subseteq Recs /\ NoRow \notin store
           /\ status = [status EXCEPT ![c] = status[c]]
           /\ dlg = [dlg EXCEPT ![c] = dlg[c]]
BY RecsAssumption DEF IInv, TypeOK, Store!TypeOK

(* Each call that is made, and each that returns, is a status.             *)
LEMMA CallsAreStatuses ==
    ASSUME TypeOK, NEW c \in Clients, NEW op \in {"read", "write"}, NEW r \in Recs \cup {NoRow},
           Store!Call(c, op, r)
    PROVE  \E s \in Store!Statuses :
             /\ s.op = op /\ s.rec = r /\ s.phase \in {"busy", "failed"}
             /\ status' = [status EXCEPT ![c] = s]
             /\ UNCHANGED store
BY DEF Store!Call, Store!Statuses

(* A call that has returned is idle.                                       *)
LEMMA ReturnsIdle ==
    ASSUME NEW c \in Clients, Returns(c)
    PROVE  /\ Store!Idle \in Store!Statuses
           /\ status' = [status EXCEPT ![c] = Store!Idle]
           /\ UNCHANGED store
BY DEF Returns, Store!Leave, Store!Idle, Store!Statuses
-----------------------------------------------------------------------------
(* The start                                                               *)

(* A program whose dialog is not open yet.                                 *)
LEMMA ClosedIsDialog == Closed \in Dialogs
BY DEF Closed, Dialogs, Boxes, EmptyBoxes

(* The invariant holds at the start.                                       *)
LEMMA InitEstablishes == Init => IInv
<1> SUFFICES ASSUME Init PROVE IInv
  OBVIOUS
<1>1. store \subseteq Recs /\ Store!KeysDistinct
  BY ShippedAssumption DEF Init, Store!KeysDistinct
<1>3. Store!Idle \in Store!Statuses
  BY DEF Store!Idle, Store!Statuses
<1>4. TypeOK
  BY <1>1, <1>3, ClosedIsDialog DEF Init, TypeOK, Store!TypeOK
<1>5. DialogInv(Closed, Store!Idle, store)
  <2>1. CallInv(Closed, Store!Idle) /\ StartInv(Closed) /\ CurrentInv(Closed, store)
    BY DEF CallInv, StartInv, CurrentInv, Closed, Waiting
  <2>2. TwiceInv(Closed, store) /\ GotInv(Closed, Store!Idle, store) /\ StoredInv(Closed, store)
    BY DEF TwiceInv, GotInv, StoredInv, Closed
  <2>3. WrittenInv(Closed, Store!Idle, store)
    BY DEF WrittenInv, Closed
  <2> QED BY <2>1, <2>2, <2>3 DEF DialogInv
<1> QED BY <1>1, <1>4, <1>5 DEF Init, IInv

(* The dialog opens.                                                       *)
LEMMA OnInitDialogKeeps ==
    ASSUME IInv, NEW c \in Clients, OnInitDialog(c)
    PROVE  IInv'
<1> DEFINE d == [Closed EXCEPT !.at = "loading"]
<1>1. d \in Dialogs /\ dlg' = [dlg EXCEPT ![c] = d]
  BY ClosedIsDialog DEF OnInitDialog, Dialogs
<1>2. PICK s \in Store!Statuses :
        /\ s.op = "read" /\ s.phase \in {"busy", "failed"}
        /\ status' = [status EXCEPT ![c] = s] /\ UNCHANGED store
  BY CallsAreStatuses DEF OnInitDialog, IInv
<1>3. DialogInv(d, s, store)
  <2>1. CallInv(d, s) /\ StartInv(d) /\ CurrentInv(d, store)
    BY <1>2 DEF CallInv, StartInv, CurrentInv, Closed, Waiting
  <2>2. TwiceInv(d, store) /\ GotInv(d, s, store) /\ StoredInv(d, store) /\ WrittenInv(d, s, store)
    BY DEF TwiceInv, GotInv, StoredInv, WrittenInv, Closed
  <2> QED BY <2>1, <2>2 DEF DialogInv
<1> HIDE DEF d
<1> QED BY <1>1, <1>2, <1>3, OneProgramChanges

(* The listing has returned.                                               *)
LEMMA BriefsReadKeeps ==
    ASSUME IInv, NEW c \in Clients, BriefsRead(c)
    PROVE  IInv'
<1>1. /\ dlg[c] \in Dialogs /\ DialogInv(dlg[c], status[c], store)
      /\ dlg[c].at = "loading"
  BY OneProgram DEF BriefsRead
<1>2. /\ Store!Idle \in Store!Statuses
      /\ status' = [status EXCEPT ![c] = Store!Idle] /\ UNCHANGED store
  BY ReturnsIdle DEF BriefsRead
<1>3. PICK at \in {"sorting", "message"} :
        /\ dlg' = [dlg EXCEPT ![c] = [dlg[c] EXCEPT !.at = at]]
        /\ at = "message" => status[c].phase = "failed"
  BY DEF BriefsRead
<1> DEFINE d == [dlg[c] EXCEPT !.at = at]
<1>4. d \in Dialogs
  BY <1>1 DEF Dialogs
<1>5. DialogInv(d, Store!Idle, store)
  <2>1. CallInv(d, Store!Idle)
    BY <1>1 DEF CallInv, Waiting, Dialogs
  <2>2. StartInv(d) /\ CurrentInv(d, store) /\ TwiceInv(d, store)
    BY <1>1, <1>3 DEF DialogInv, StartInv, CurrentInv, TwiceInv, Dialogs
  <2>3. GotInv(d, Store!Idle, store)
    BY <1>1, <1>3 DEF DialogInv, GotInv, StartInv, Dialogs
  <2>4. StoredInv(d, store) /\ WrittenInv(d, Store!Idle, store)
    BY <1>1 DEF DialogInv, StoredInv, WrittenInv, Dialogs
  <2> QED BY <2>1, <2>2, <2>3, <2>4 DEF DialogInv
<1> HIDE DEF d
<1> QED BY <1>2, <1>3, <1>4, <1>5, OneProgramChanges DEF d

(* The briefs are loaded.                                                  *)
LEMMA LoadBreifInfoKeeps ==
    ASSUME IInv, NEW c \in Clients, LoadBreifInfo(c)
    PROVE  IInv'
<1>1. /\ dlg[c] \in Dialogs /\ DialogInv(dlg[c], status[c], store)
      /\ status[c] \in Store!Statuses
      /\ status' = [status EXCEPT ![c] = status[c]] /\ UNCHANGED store
      /\ dlg[c].at = "sorting"
  BY OneProgram DEF LoadBreifInfo
<1>2. PICK r \in dlg[c].got :
        dlg' = [dlg EXCEPT ![c].got = @ \ {r},
                           ![c].briefs = AddBriefAsc(BriefInfo(StringToTime[r.create], r), @)]
  BY DEF LoadBreifInfo
<1>3. r \in store /\ r \in Recs
  BY <1>1, <1>2, OneProgram DEF DialogInv, GotInv
<1> DEFINE before == dlg[c].briefs
           tm == StringToTime[r.create]
           brief == BriefInfo(tm, r)
           after == AddBriefAsc(brief, before)
           d == [dlg[c] EXCEPT !.got = @ \ {r}, !.briefs = after]
<1>4. /\ before \in Seq(Briefs) /\ brief \in Briefs /\ brief.create = tm
      /\ DOMAIN before = 1 .. Len(before) /\ Len(before) \in Nat
  <2>1. before \in Seq(Briefs)
    BY <1>1 DEF Dialogs, Briefs
  <2>2. brief \in Briefs /\ brief.create = tm
    BY <1>3, RecsAssumption, ConversionAssumption DEF Briefs, BriefInfo
  <2> HIDE DEF before
  <2> QED BY <2>1, <2>2, LenProperties
<1>5. /\ \A i, j \in DOMAIN before : i < j => before[i].create <= before[j].create
      /\ \A i, j \in DOMAIN before :
           before[i].create = before[j].create => i = j \/ Misheard(before[i].create)
      /\ \A i \in DOMAIN before : before[i].create = tm => Misheard(tm)
  BY <1>1, <1>2 DEF DialogInv, TwiceInv, GotInv, Misheard
<1>6. /\ after \in Seq(Briefs)
      /\ \A i, j \in DOMAIN after : i < j => after[i].create <= after[j].create
      /\ DOMAIN after = 1 .. Len(before) + 1
      /\ \E place \in 1 .. Len(before) + 1 : \A j \in 1 .. Len(before) + 1 :
           after[j] = IF j < place THEN before[j]
                      ELSE IF j = place THEN brief ELSE before[j - 1]
  <2>1. Len(after) = Len(before) + 1 /\ after \in Seq(Briefs)
    <3> HIDE DEF before, brief
    <3> QED BY <1>4, <1>5, AddBriefAscAdds
  <2>2. DOMAIN after = 1 .. Len(before) + 1
    <3> HIDE DEF before, after
    <3> QED BY <2>1, LenProperties
  <2> HIDE DEF before, brief
  <2> QED BY <1>4, <1>5, <2>2, AddBriefAscAdds
<1> HIDE DEF after
<1>61. PICK place \in 1 .. Len(before) + 1 : \A j \in 1 .. Len(before) + 1 :
         after[j] = IF j < place THEN before[j]
                    ELSE IF j = place THEN brief ELSE before[j - 1]
  BY <1>6
<1>62. \A i \in DOMAIN after : after[i] = brief \/ \E j \in DOMAIN before : after[i] = before[j]
  <2> HIDE DEF before, brief
  <2> QED BY <1>4, <1>6, <1>61, AddedOrOld
<1>63. ASSUME NEW i \in DOMAIN after, NEW j \in DOMAIN after,
              after[i].create = after[j].create, i # j
       PROVE  Misheard(after[i].create)
  <2> DEFINE At(n) == IF n < place THEN n ELSE n - 1
  <2>1. \A n \in DOMAIN after : n # place => At(n) \in DOMAIN before /\ after[n] = before[At(n)]
    <3> HIDE DEF before, brief
    <3> QED BY <1>4, <1>6, <1>61
  <2>2. after[place] = brief /\ place \in DOMAIN after
    <3> HIDE DEF before, brief
    <3> QED BY <1>4, <1>6, <1>61
  <2>3. CASE i # place /\ j # place
    <3>1. At(i) # At(j)
      BY <2>3, <1>63, <1>6, <1>4
    <3> HIDE DEF At, before
    <3> QED BY <3>1, <2>1, <2>3, <1>5, <1>63
  <2>4. CASE i = place /\ j # place
    <3> HIDE DEF At, before, brief
    <3> QED BY <2>1, <2>2, <2>4, <1>4, <1>5, <1>63
  <2>5. CASE i # place /\ j = place
    <3> HIDE DEF At, before, brief
    <3> QED BY <2>1, <2>2, <2>5, <1>4, <1>5, <1>63
  <2> QED BY <2>3, <2>4, <2>5, <1>63
<1>7. dlg' = [dlg EXCEPT ![c] = d]
  BY <1>2 DEF after
<1>8. d \in Dialogs
  BY <1>1, <1>6 DEF Dialogs, Briefs
<1>9. DialogInv(d, status[c], store)
  <2>1. CallInv(d, status[c]) /\ StartInv(d) /\ CurrentInv(d, store)
    BY <1>1 DEF DialogInv, CallInv, StartInv, CurrentInv, Waiting, Dialogs
  <2>2. TwiceInv(d, store)
    <3>1. d.at = "sorting" /\ d.briefs = after /\ d.records = dlg[c].records
          /\ d.combo = dlg[c].combo
      BY <1>1 DEF Dialogs
    <3> HIDE DEF d
    <3> QED BY <3>1, <1>1, <1>6, <1>63 DEF DialogInv, TwiceInv, Misheard
  <2>3. GotInv(d, status[c], store)
    <3>1. ASSUME NEW q \in d.got, NEW i \in DOMAIN after
          PROVE  after[i].create # StringToTime[q.create] \/ Misheard(after[i].create)
      <4>1. q \in dlg[c].got /\ q # r
        BY <1>1 DEF Dialogs
      <4>2. q \in store
        BY <4>1, <1>1 DEF DialogInv, GotInv
      <4>3. q.create # r.create
        BY <4>1, <4>2, <1>3 DEF IInv, Store!KeysDistinct
      <4>4. \A j \in DOMAIN before :
              before[j].create # StringToTime[q.create] \/ Misheard(before[j].create)
        BY <4>1, <1>1 DEF DialogInv, GotInv, Misheard
      <4>5. StringToTime[q.create] = tm => Misheard(tm)
        <5> SUFFICES ASSUME StringToTime[q.create] = tm PROVE Misheard(tm)
          OBVIOUS
        <5>1. TimeToString[tm] # q.create \/ TimeToString[tm] # r.create
          BY <4>3
        <5> QED BY <5>1, <4>2, <1>3 DEF Misheard, MisheardOf
      <4> HIDE DEF before, brief, tm
      <4> QED BY <4>4, <4>5, <1>4, <1>62
    <3>2. d.at = "sorting" /\ d.got \subseteq store /\ d.briefs = after
      BY <1>1 DEF Dialogs, DialogInv, GotInv
    <3> HIDE DEF d
    <3> QED BY <3>1, <3>2 DEF GotInv, Misheard
  <2>4. StoredInv(d, store)
    <3>1. \A i \in DOMAIN after : \E q \in store :
            after[i].title = q.title /\ TimeOf(after[i].create, q)
      <4>1. brief.title = r.title /\ TimeOf(brief.create, r)
        BY DEF BriefInfo, TimeOf
      <4>2. \A j \in DOMAIN before : \E q \in store :
              before[j].title = q.title /\ TimeOf(before[j].create, q)
        BY <1>1 DEF DialogInv, StoredInv
      <4> HIDE DEF before, brief
      <4> QED BY <4>1, <4>2, <1>3, <1>62
    <3>2. d.briefs = after /\ d.records = dlg[c].records /\ d.combo = dlg[c].combo
      BY <1>1 DEF Dialogs
    <3> HIDE DEF d
    <3> QED BY <3>1, <3>2, <1>1 DEF DialogInv, StoredInv
  <2>5. WrittenInv(d, status[c], store)
    BY <1>1 DEF WrittenInv, Dialogs
  <2> QED BY <2>1, <2>2, <2>3, <2>4, <2>5 DEF DialogInv
<1> HIDE DEF d
<1> QED BY <1>1, <1>7, <1>8, <1>9, OneProgramChanges
(* The box is filled.                                                      *)
LEMMA InitBreifCmbKeeps ==
    ASSUME IInv, NEW c \in Clients, InitBreifCmb(c)
    PROVE  IInv'
<1>1. /\ dlg[c] \in Dialogs /\ DialogInv(dlg[c], status[c], store)
      /\ status[c] \in Store!Statuses
      /\ status' = [status EXCEPT ![c] = status[c]] /\ UNCHANGED store
      /\ dlg[c].at = "sorting" /\ dlg[c].got = {}
  BY OneProgram DEF InitBreifCmb
<1> DEFINE briefs == dlg[c].briefs
           combo == [i \in DOMAIN briefs |-> briefs[i].create]
           d == [dlg[c] EXCEPT !.at = "selecting", !.combo = combo, !.sel = Len(briefs)]
<1>2. /\ briefs \in Seq(Briefs) /\ Len(briefs) \in Nat /\ DOMAIN briefs = 1 .. Len(briefs)
      /\ \A i \in DOMAIN briefs : briefs[i].create \in Instants
  <2>1. briefs \in Seq(Briefs)
    BY <1>1 DEF Dialogs, Briefs
  <2> HIDE DEF briefs
  <2>2. Len(briefs) \in Nat /\ DOMAIN briefs = 1 .. Len(briefs)
    BY <2>1, LenProperties
  <2>3. \A i \in DOMAIN briefs : briefs[i] \in Briefs
    BY <2>1, <2>2, ElementOfSeq
  <2> QED BY <2>1, <2>2, <2>3 DEF Briefs
<1>3. /\ combo \in Seq(Instants) /\ Len(combo) = Len(briefs) /\ DOMAIN combo = DOMAIN briefs
      /\ \A i \in DOMAIN briefs : combo[i] = briefs[i].create
  <2> HIDE DEF briefs
  <2> QED BY <1>2
<1> HIDE DEF combo
<1>4. d \in Dialogs
  BY <1>1, <1>2, <1>3 DEF Dialogs
<1>5. dlg' = [dlg EXCEPT ![c] = d]
  BY DEF InitBreifCmb, combo
<1>6. DialogInv(d, status[c], store)
  <2>1. CallInv(d, status[c]) /\ StartInv(d) /\ CurrentInv(d, store)
    BY <1>1, <1>2, <1>3 DEF DialogInv, CallInv, StartInv, CurrentInv, Waiting, Dialogs
  <2>2. \A i, j \in DOMAIN briefs : briefs[i].create = briefs[j].create =>
             i = j \/ MisheardOf(store, briefs[i].create)
    BY <1>1 DEF DialogInv, TwiceInv
  <2>3. \A i, j \in DOMAIN combo : combo[i] = combo[j] => i = j \/ MisheardOf(store, combo[i])
    <3> HIDE DEF briefs
    <3> QED BY <2>2, <1>3
  <2>4. TwiceInv(d, store)
    BY <1>1, <2>3 DEF DialogInv, TwiceInv, Dialogs
  <2>5. GotInv(d, status[c], store) /\ WrittenInv(d, status[c], store)
    BY <1>1 DEF DialogInv, GotInv, WrittenInv, Dialogs
  <2>6. ASSUME NEW i \in DOMAIN combo PROVE \E r \in store : TimeOf(combo[i], r)
    <3>1. PICK r \in store : TimeOf(briefs[i].create, r)
      BY <1>1, <1>3 DEF DialogInv, StoredInv
    <3>2. combo[i] = briefs[i].create
      BY <1>3
    <3> HIDE DEF briefs
    <3> QED BY <3>1, <3>2
  <2>7. StoredInv(d, store)
    <3>1. d.records = <<>> /\ d.combo = combo /\ d.briefs = briefs
      BY <1>1 DEF DialogInv, StartInv, Dialogs
    <3>2. \A i \in DOMAIN briefs : \E r \in store :
            briefs[i].title = r.title /\ TimeOf(briefs[i].create, r)
      BY <1>1 DEF DialogInv, StoredInv
    <3> HIDE DEF d, briefs
    <3> QED BY <3>1, <3>2, <2>6 DEF StoredInv
  <2> QED BY <2>1, <2>4, <2>5, <2>7 DEF DialogInv
<1> HIDE DEF d
<1> QED BY <1>1, <1>4, <1>5, <1>6, OneProgramChanges

-----------------------------------------------------------------------------
(* The selection                                                           *)

(* The user closes the message box.                                        *)
LEMMA AcknowledgeKeeps ==
    ASSUME IInv, NEW c \in Clients, Acknowledge(c)
    PROVE  IInv'
<1>1. /\ dlg[c] \in Dialogs /\ DialogInv(dlg[c], status[c], store)
      /\ status[c] \in Store!Statuses
      /\ status' = [status EXCEPT ![c] = status[c]] /\ UNCHANGED store
      /\ dlg[c].at = "message"
  BY OneProgram DEF Acknowledge
<1> DEFINE d == [dlg[c] EXCEPT !.at = "ready"]
<1>2. d \in Dialogs /\ dlg' = [dlg EXCEPT ![c] = d]
  BY <1>1 DEF Acknowledge, Dialogs
<1>3. DialogInv(d, status[c], store)
  <2>1. CallInv(d, status[c]) /\ StartInv(d) /\ CurrentInv(d, store)
    BY <1>1 DEF DialogInv, CallInv, StartInv, CurrentInv, Waiting, Dialogs
  <2>2. TwiceInv(d, store) /\ StoredInv(d, store)
    BY <1>1 DEF DialogInv, TwiceInv, StoredInv, Dialogs
  <2>3. GotInv(d, status[c], store) /\ WrittenInv(d, status[c], store)
    BY <1>1 DEF DialogInv, GotInv, WrittenInv, Dialogs
  <2> QED BY <2>1, <2>2, <2>3 DEF DialogInv
<1> HIDE DEF d
<1> QED BY <1>1, <1>2, <1>3, OneProgramChanges

(* The user picks an entry of a box.                                       *)
LEMMA PickKeeps ==
    ASSUME IInv, NEW c \in Clients, Pick(c)
    PROVE  IInv'
<1>1. /\ dlg[c] \in Dialogs /\ DialogInv(dlg[c], status[c], store)
      /\ status[c] \in Store!Statuses
      /\ status' = [status EXCEPT ![c] = status[c]] /\ UNCHANGED store
      /\ dlg[c].at = "ready"
  BY OneProgram DEF Pick
<1>2. PICK i \in DOMAIN dlg[c].combo :
        dlg' = [dlg EXCEPT ![c].at = "selecting", ![c].sel = i]
  BY DEF Pick
<1> DEFINE d == [dlg[c] EXCEPT !.at = "selecting", !.sel = i]
<1>3. i \in 1 .. Len(dlg[c].combo) /\ Len(dlg[c].combo) \in Nat
  BY <1>1, <1>2 DEF Dialogs
<1>4. d \in Dialogs /\ dlg' = [dlg EXCEPT ![c] = d]
  <2>1. dlg' = [dlg EXCEPT ![c] = d]
    BY <1>2
  <2>2. i \in Nat
    BY <1>3
  <2>3. d \in Dialogs
    BY <1>1, <2>2 DEF Dialogs
  <2> QED BY <2>1, <2>3
<1>5. DialogInv(d, status[c], store)
  <2>1. CallInv(d, status[c]) /\ StartInv(d) /\ CurrentInv(d, store)
    BY <1>1, <1>3 DEF DialogInv, CallInv, StartInv, CurrentInv, Waiting, Dialogs
  <2>2. TwiceInv(d, store) /\ StoredInv(d, store)
    BY <1>1 DEF DialogInv, TwiceInv, StoredInv, Dialogs
  <2>3. GotInv(d, status[c], store) /\ WrittenInv(d, status[c], store)
    BY <1>1 DEF DialogInv, GotInv, WrittenInv, Dialogs
  <2> QED BY <2>1, <2>2, <2>3 DEF DialogInv
<1> HIDE DEF d
<1> QED BY <1>1, <1>4, <1>5, OneProgramChanges

(* The handler of the box begins.                                          *)
LEMMA OnCbnSelchangeCmbQueryKeeps ==
    ASSUME IInv, NEW c \in Clients, OnCbnSelchangeCmbQuery(c)
    PROVE  IInv'
<1> DEFINE loaded == PositionsOf(dlg[c].records, dlg[c].combo[dlg[c].sel])
<1>1. /\ dlg[c] \in Dialogs /\ DialogInv(dlg[c], status[c], store)
      /\ status[c] \in Store!Statuses
      /\ status = [status EXCEPT ![c] = status[c]]
      /\ dlg[c].at = "selecting"
      /\ dlg[c].records \in Seq(Loaded)
      /\ Len(dlg[c].records) \in Nat /\ DOMAIN dlg[c].records = 1 .. Len(dlg[c].records)
      /\ \A i \in DOMAIN dlg[c].records : dlg[c].records[i] \in Loaded
  <2>1. /\ dlg[c] \in Dialogs /\ DialogInv(dlg[c], status[c], store)
        /\ status[c] \in Store!Statuses /\ store \subseteq Recs
        /\ status = [status EXCEPT ![c] = status[c]]
    BY OneProgram
  <2> QED BY <2>1 DEF OnCbnSelchangeCmbQuery, Dialogs, DialogInv, StoredInv
<1>2. CASE dlg[c].sel = 0
  <2> DEFINE d == [dlg[c] EXCEPT !.at = "ready"]
  <2>1. d \in Dialogs /\ dlg' = [dlg EXCEPT ![c] = d] /\ UNCHANGED <<store, status>>
    BY <1>1, <1>2 DEF OnCbnSelchangeCmbQuery, Dialogs
  <2>2. DialogInv(d, status[c], store)
    <3>1. CallInv(d, status[c]) /\ StartInv(d) /\ CurrentInv(d, store)
      BY <1>1, <1>2 DEF DialogInv, CallInv, StartInv, CurrentInv, Waiting, Dialogs
    <3>2. TwiceInv(d, store) /\ StoredInv(d, store)
      BY <1>1 DEF DialogInv, TwiceInv, StoredInv, Dialogs
    <3>3. GotInv(d, status[c], store) /\ WrittenInv(d, status[c], store)
      BY <1>1 DEF DialogInv, GotInv, WrittenInv, Dialogs
    <3> QED BY <3>1, <3>2, <3>3 DEF DialogInv
  <2> HIDE DEF d
  <2> QED BY <1>1, <2>1, <2>2, OneProgramChanges
<1>3. CASE dlg[c].sel # 0 /\ loaded # {}
  <2> DEFINE pos == Min(loaded)
             r == dlg[c].records[pos]
             shown == UpdateRecordControls(dlg[c].boxes, r)
             d == [dlg[c] EXCEPT !.at = "ready", !.cur = pos,
                                 !.taken = Len(dlg[c].records), !.boxes = shown]
  <2>1. pos \in DOMAIN dlg[c].records /\ r.create = dlg[c].combo[dlg[c].sel]
    <3>1. loaded \subseteq DOMAIN dlg[c].records
          /\ \A i \in loaded : dlg[c].records[i].create = dlg[c].combo[dlg[c].sel]
      BY DEF PositionsOf
    <3>2. loaded \subseteq Nat
      BY <3>1, <1>1
    <3> HIDE DEF loaded
    <3>3. pos \in loaded
      BY <3>2, <1>3, MinIsLeast
    <3> QED BY <3>1, <3>3
  <2>2. /\ shown \in Boxes /\ shown.info = r
        /\ shown.event = IF IsValid(r, "event") THEN Shown(r, "event") ELSE NoRow
    <3>1. dlg[c].boxes \in Boxes /\ r \in Loaded
      BY <1>1, <2>1 DEF Dialogs
    <3> HIDE DEF r
    <3> QED BY <3>1, ControlsShow
  <2>3. dlg' = [dlg EXCEPT ![c] = d] /\ UNCHANGED <<store, status>>
    BY <1>3 DEF OnCbnSelchangeCmbQuery
  <2> HIDE DEF pos, shown
  <2>4. d \in Dialogs
    <3>1. pos \in Nat
      BY <1>1, <2>1
    <3> QED BY <1>1, <2>2, <3>1 DEF Dialogs
  <2>5. DialogInv(d, status[c], store)
    <3>1. CallInv(d, status[c]) /\ StartInv(d)
      BY <1>1 DEF DialogInv, CallInv, StartInv, Waiting, Dialogs
    <3>2. CurrentInv(d, store)
      <4>1. /\ d.at = "ready" /\ d.cur = pos /\ d.taken = Len(dlg[c].records)
            /\ d.boxes = shown /\ d.sel = dlg[c].sel /\ d.combo = dlg[c].combo
            /\ d.records = dlg[c].records
        BY <1>1 DEF Dialogs
      <4>2. dlg[c].sel \in 0 .. Len(dlg[c].combo)
        BY <1>1 DEF DialogInv, CurrentInv
      <4> HIDE DEF d
      <4> QED BY <4>1, <4>2, <2>1, <2>2, <1>3 DEF CurrentInv
    <3>3. TwiceInv(d, store) /\ StoredInv(d, store)
      BY <1>1 DEF DialogInv, TwiceInv, StoredInv, Dialogs
    <3>4. GotInv(d, status[c], store) /\ WrittenInv(d, status[c], store)
      BY <1>1 DEF DialogInv, GotInv, WrittenInv, Dialogs
    <3> QED BY <3>1, <3>2, <3>3, <3>4 DEF DialogInv
  <2> HIDE DEF d
  <2> QED BY <1>1, <2>3, <2>4, <2>5, OneProgramChanges
<1>4. CASE dlg[c].sel # 0 /\ loaded = {}
  <2> DEFINE d == [dlg[c] EXCEPT !.at = "reading", !.cur = 0]
  <2>1. d \in Dialogs /\ dlg' = [dlg EXCEPT ![c] = d]
    BY <1>1, <1>4 DEF OnCbnSelchangeCmbQuery, Dialogs
  <2>2. PICK s \in Store!Statuses :
          /\ s.op = "read" /\ s.phase \in {"busy", "failed"}
          /\ status' = [status EXCEPT ![c] = s] /\ UNCHANGED store
    BY <1>4, CallsAreStatuses DEF OnCbnSelchangeCmbQuery, IInv
  <2>3. \A i \in DOMAIN dlg[c].records : dlg[c].records[i].create # dlg[c].combo[dlg[c].sel]
    BY <1>1, <1>4 DEF PositionsOf
  <2>4. DialogInv(d, s, store)
    <3>1. CallInv(d, s) /\ StartInv(d)
      BY <1>1, <2>2 DEF DialogInv, CallInv, StartInv, Waiting, Dialogs
    <3>2. CurrentInv(d, store)
      BY <1>1, <1>4, <2>3 DEF DialogInv, CurrentInv, Dialogs
    <3>3. TwiceInv(d, store) /\ StoredInv(d, store)
      BY <1>1 DEF DialogInv, TwiceInv, StoredInv, Dialogs
    <3>4. GotInv(d, s, store) /\ WrittenInv(d, s, store)
      BY <1>1, <2>2 DEF DialogInv, GotInv, WrittenInv, Dialogs
    <3> QED BY <3>1, <3>2, <3>3, <3>4 DEF DialogInv
  <2> HIDE DEF d
  <2> QED BY <2>1, <2>2, <2>4, OneProgramChanges
<1> QED BY <1>2, <1>3, <1>4
(* ReadRecord has returned.                                                *)
LEMMA RecordReadKeeps ==
    ASSUME IInv, NEW c \in Clients, RecordRead(c)
    PROVE  IInv'
<1>1. /\ dlg[c] \in Dialogs /\ DialogInv(dlg[c], status[c], store)
      /\ store \subseteq Recs /\ dlg[c].at = "reading"
  BY OneProgram DEF RecordRead
<1>2. /\ Store!Idle \in Store!Statuses
      /\ status' = [status EXCEPT ![c] = Store!Idle] /\ UNCHANGED store
  BY ReturnsIdle DEF RecordRead
<1>3. CASE /\ status[c].phase = "failed"
           /\ dlg' = [dlg EXCEPT ![c].at = "message"]
  <2> DEFINE d == [dlg[c] EXCEPT !.at = "message"]
  <2>1. d \in Dialogs /\ dlg' = [dlg EXCEPT ![c] = d]
    BY <1>1, <1>3 DEF Dialogs
  <2>2. DialogInv(d, Store!Idle, store)
    <3>1. CallInv(d, Store!Idle) /\ StartInv(d) /\ CurrentInv(d, store)
      BY <1>1 DEF DialogInv, CallInv, StartInv, CurrentInv, Waiting, Dialogs
    <3>2. TwiceInv(d, store) /\ StoredInv(d, store)
      BY <1>1 DEF DialogInv, TwiceInv, StoredInv, Dialogs
    <3>3. GotInv(d, Store!Idle, store) /\ WrittenInv(d, Store!Idle, store)
      BY <1>1, <1>3 DEF DialogInv, GotInv, WrittenInv, Dialogs
    <3> QED BY <3>1, <3>2, <3>3 DEF DialogInv
  <2> HIDE DEF d
  <2> QED BY <1>2, <2>1, <2>2, OneProgramChanges
<1>4. CASE /\ status[c].phase = "ok"
           /\ \E r \in Handed(dlg[c]) :
                dlg' = [dlg EXCEPT ![c] =
                          [RecordShown(@, r) EXCEPT !.at = "ready", !.got = {}]]
  <2> DEFINE tm == dlg[c].combo[dlg[c].sel]
  <2>1. PICK r \in Handed(dlg[c]) :
          dlg' = [dlg EXCEPT ![c] = [RecordShown(@, r) EXCEPT !.at = "ready", !.got = {}]]
    BY <1>4
  <2>2. dlg[c].sel \in DOMAIN dlg[c].combo /\ tm \in Instants /\ tm # 0
    <3>1. dlg[c].combo \in Seq(Instants) /\ dlg[c].sel \in 1 .. Len(dlg[c].combo)
      BY <1>1 DEF DialogInv, CurrentInv, Dialogs
    <3> QED BY <3>1, LenProperties, ElementOfSeq, ConversionAssumption
  <2>3. /\ r \in Loaded
        /\ LoadedOf(r, dlg[c].combo, store)
        /\ r.create = tm \/ (r = Blank /\ MisheardOf(store, tm))
    <3>1. CASE dlg[c].got = {}
      <4>1. r = Blank
        BY <3>1 DEF Handed
      <4>2. MisheardOf(store, tm)
        BY <3>1, <1>1, <1>4 DEF DialogInv, GotInv
      <4>3. r \in Loaded
        BY <4>1 DEF Blank, Loaded
      <4>4. LoadedOf(r, dlg[c].combo, store)
        BY <4>1, <4>2, <2>2 DEF LoadedOf
      <4> QED BY <4>1, <4>2, <4>3, <4>4
    <3>2. CASE dlg[c].got # {}
      <4>1. PICK q \in dlg[c].got : r = [create |-> tm, rec |-> q]
        BY <3>2 DEF Handed
      <4>2. q \in store /\ q \in Recs /\ q.create = TimeToString[tm]
        BY <1>1 DEF DialogInv, GotInv
      <4> HIDE DEF tm
      <4> QED BY <4>1, <4>2, <2>2 DEF Loaded, LoadedOf
    <3> QED BY <3>1, <3>2
  <2> DEFINE e == RecordShown(dlg[c], r)
             d == [e EXCEPT !.at = "ready", !.got = {}]
  <2>4. /\ e \in Dialogs /\ e.records = Append(dlg[c].records, r)
        /\ e.cur = Len(dlg[c].records) + 1 /\ e.taken = e.cur
        /\ e.boxes.info = r
        /\ e.boxes.event = IF IsValid(r, "event") THEN Shown(r, "event") ELSE NoRow
        /\ e.briefs = dlg[c].briefs /\ e.combo = dlg[c].combo /\ e.sel = dlg[c].sel
    BY <1>1, <2>3, RecordShownIsCurrent
  <2>5. dlg' = [dlg EXCEPT ![c] = d]
    BY <2>1
  <2> HIDE DEF e
  <2>6. /\ d \in Dialogs /\ d.at = "ready" /\ d.got = {}
        /\ d.records = e.records /\ d.cur = e.cur /\ d.taken = e.taken /\ d.boxes = e.boxes
        /\ d.briefs = e.briefs /\ d.combo = e.combo /\ d.sel = e.sel
    BY <2>4 DEF Dialogs
  <2>7. Appended(dlg[c].records, d.records, r)
    <3>1. dlg[c].records \in Seq(Loaded) /\ r \in Loaded
      BY <1>1, <2>3 DEF Dialogs
    <3>2. Appended(dlg[c].records, Append(dlg[c].records, r), r)
      BY <3>1, AppendPlaces
    <3>3. d.records = Append(dlg[c].records, r)
      BY <2>4, <2>6
    <3> QED BY <3>2, <3>3
  <2> HIDE DEF d
  <2>8. DialogInv(d, Store!Idle, store)
    <3>1. CallInv(d, Store!Idle) /\ StartInv(d)
      BY <1>1, <2>4, <2>6 DEF DialogInv, CallInv, StartInv, Waiting
    <3>2. CurrentInv(d, store)
      <4>1. dlg[c].sel \in 0 .. Len(dlg[c].combo) /\ dlg[c].sel # 0
        BY <1>1 DEF DialogInv, CurrentInv
      <4>2. d.cur \in DOMAIN d.records /\ d.taken = Len(d.records) /\ d.records[d.cur] = r
        BY <2>4, <2>6, <2>7 DEF Appended
      <4> QED BY <4>1, <4>2, <2>3, <2>4, <2>6 DEF CurrentInv
    <3>3. TwiceInv(d, store)
      <4>1. r = Blank \/ \A i \in DOMAIN dlg[c].records : dlg[c].records[i].create # r.create
        BY <1>1, <2>3 DEF DialogInv, CurrentInv
      <4>2. \A i, j \in DOMAIN dlg[c].records :
              dlg[c].records[i].create = dlg[c].records[j].create =>
                  i = j \/ dlg[c].records[i] = Blank
        BY <1>1 DEF DialogInv, TwiceInv
      <4>4. \A i \in DOMAIN dlg[c].records :
              dlg[c].records[i].create = 0 => dlg[c].records[i] = Blank
        BY <1>1 DEF DialogInv, StoredInv, LoadedOf
      <4>3. \A i, j \in DOMAIN d.records :
              d.records[i].create = d.records[j].create => i = j \/ d.records[i] = Blank
        BY <4>1, <4>2, <4>4, <2>7, RecordsStayDistinct
      <4> QED BY <4>3, <1>1, <2>4, <2>6 DEF DialogInv, TwiceInv
    <3>4. StoredInv(d, store)
      <4>1. \A i \in DOMAIN d.records : LoadedOf(d.records[i], d.combo, store)
        BY <1>1, <2>3, <2>4, <2>6, <2>7 DEF DialogInv, StoredInv, Appended
      <4> QED BY <4>1, <1>1, <2>4, <2>6 DEF DialogInv, StoredInv
    <3>5. GotInv(d, Store!Idle, store) /\ WrittenInv(d, Store!Idle, store)
      BY <2>6 DEF GotInv, WrittenInv
    <3> QED BY <3>1, <3>2, <3>3, <3>4, <3>5 DEF DialogInv
  <2> QED BY <1>2, <2>5, <2>6, <2>8, OneProgramChanges
<1> QED BY <1>3, <1>4 DEF RecordRead

-----------------------------------------------------------------------------
(* The addition                                                            *)

(* The record of the event dialog is to be written.                        *)
LEMMA AddRecordKeeps ==
    ASSUME IInv, NEW c \in Clients, NEW r \in Recs, NEW now \in Instants,
           AddRecord(c, r, now)
    PROVE  IInv'
<1>1. /\ dlg[c] \in Dialogs /\ DialogInv(dlg[c], status[c], store)
      /\ dlg[c].at = "ready" /\ r.create = TimeToString[now]
  BY OneProgram DEF AddRecord
<1> DEFINE d == [dlg[c] EXCEPT !.at = "writing", !.now = now]
<1>2. d \in Dialogs /\ dlg' = [dlg EXCEPT ![c] = d]
  BY <1>1 DEF AddRecord, Dialogs
<1>3. PICK s \in Store!Statuses :
        /\ s.op = "write" /\ s.rec = r /\ s.phase \in {"busy", "failed"}
        /\ status' = [status EXCEPT ![c] = s] /\ UNCHANGED store
  BY CallsAreStatuses DEF AddRecord, IInv
<1>4. DialogInv(d, s, store)
  <2>1. CallInv(d, s) /\ StartInv(d) /\ CurrentInv(d, store)
    BY <1>1, <1>3 DEF DialogInv, CallInv, StartInv, CurrentInv, Waiting, Dialogs
  <2>2. TwiceInv(d, store) /\ StoredInv(d, store)
    BY <1>1 DEF DialogInv, TwiceInv, StoredInv, Dialogs
  <2>3. GotInv(d, s, store) /\ WrittenInv(d, s, store)
    BY <1>1, <1>3 DEF DialogInv, GotInv, WrittenInv, Dialogs
  <2> QED BY <2>1, <2>2, <2>3 DEF DialogInv
<1> HIDE DEF d
<1> QED BY <1>2, <1>3, <1>4, OneProgramChanges
(* WriteRecord has returned.                                               *)
LEMMA RecordWrittenKeeps ==
    ASSUME IInv, NEW c \in Clients, RecordWritten(c)
    PROVE  IInv'
<1>1. /\ dlg[c] \in Dialogs /\ DialogInv(dlg[c], status[c], store)
      /\ store \subseteq Recs /\ dlg[c].at = "writing"
  BY OneProgram DEF RecordWritten
<1>2. /\ Store!Idle \in Store!Statuses
      /\ status' = [status EXCEPT ![c] = Store!Idle] /\ UNCHANGED store
  BY ReturnsIdle DEF RecordWritten
<1>3. CASE /\ status[c].phase = "failed"
           /\ dlg' = [dlg EXCEPT ![c].at = "message", ![c].now = 0]
  <2> DEFINE d == [dlg[c] EXCEPT !.at = "message", !.now = 0]
  <2>1. d \in Dialogs /\ dlg' = [dlg EXCEPT ![c] = d]
    BY <1>1, <1>3 DEF Dialogs
  <2>2. DialogInv(d, Store!Idle, store)
    <3>1. CallInv(d, Store!Idle) /\ StartInv(d) /\ CurrentInv(d, store)
      BY <1>1 DEF DialogInv, CallInv, StartInv, CurrentInv, Waiting, Dialogs
    <3>2. TwiceInv(d, store) /\ StoredInv(d, store)
      BY <1>1 DEF DialogInv, TwiceInv, StoredInv, Dialogs
    <3>3. GotInv(d, Store!Idle, store) /\ WrittenInv(d, Store!Idle, store)
      BY <1>1 DEF DialogInv, GotInv, WrittenInv, Dialogs
    <3> QED BY <3>1, <3>2, <3>3 DEF DialogInv
  <2> HIDE DEF d
  <2> QED BY <1>2, <2>1, <2>2, OneProgramChanges
<1>4. CASE status[c].phase = "ok"
  <2> DEFINE rec == status[c].rec
             now == dlg[c].now
             r == Created(c)
             old == dlg[c]
             briefs == AddBriefAsc(BriefInfo(now, rec), old.briefs)
             combo == Append(old.combo, now)
             e == RecordShown(old, r)
             d == [e EXCEPT !.at = "ready", !.now = 0, !.briefs = briefs, !.combo = combo,
                            !.sel = Len(old.combo) + 1]
  <2>1. /\ rec \in store /\ rec \in Recs /\ now \in Instants /\ now # 0
        /\ r = [create |-> now, rec |-> rec] /\ r \in Loaded /\ r.create = now
        /\ rec.create = TimeToString[now]
        /\ \A i \in DOMAIN old.records : old.records[i].create # now
        /\ \A i \in DOMAIN old.combo :
             old.combo[i] # now \/ MisheardOf(store, old.combo[i])
    <3>1. /\ rec \in store /\ rec \in Recs /\ now \in Instants
          /\ rec.create = TimeToString[now]
      BY <1>1, <1>4 DEF DialogInv, WrittenInv, CallInv
    <3>2. r = [create |-> now, rec |-> rec]
      BY DEF Created
    <3>3. now # 0
      BY <3>1, ConversionAssumption
    <3>4. /\ \A i \in DOMAIN old.records : old.records[i].create # now
          /\ \A i \in DOMAIN old.combo :
               old.combo[i] # now \/ MisheardOf(store, old.combo[i])
      BY <1>1, <1>4 DEF DialogInv, WrittenInv
    <3> HIDE DEF r, rec, now
    <3> QED BY <3>1, <3>2, <3>3, <3>4 DEF Loaded
  <2>2. dlg' = [dlg EXCEPT ![c] = d]
    <3>1. dlg' = [dlg EXCEPT ![c] =
                    [e EXCEPT !.at = "ready",
                              !.now = 0,
                              !.briefs = AddBriefAsc(BriefInfo(now, rec), old.briefs),
                              !.combo = Append(old.combo, now),
                              !.sel = Len(old.combo) + 1]]
      BY <1>4 DEF RecordWritten
    <3> QED BY <3>1
  <2>3. /\ e \in Dialogs /\ e.records = Append(old.records, r)
        /\ e.cur = Len(old.records) + 1 /\ e.taken = e.cur
        /\ e.boxes.info = r
        /\ e.boxes.event = IF IsValid(r, "event") THEN Shown(r, "event") ELSE NoRow
        /\ e.got = old.got
    <3> HIDE DEF r
    <3> QED BY <1>1, <2>1, RecordShownIsCurrent
  <2>4. /\ briefs \in Seq(Briefs)
        /\ Len(briefs) = Len(old.briefs) + 1
        /\ \A i, j \in DOMAIN briefs : i < j => briefs[i].create <= briefs[j].create
        /\ \A i \in DOMAIN briefs :
             \/ briefs[i] = BriefInfo(now, rec)
             \/ \E j \in DOMAIN old.briefs : briefs[i] = old.briefs[j]
    <3>1. old.briefs \in Seq(Briefs) /\ BriefInfo(now, rec) \in Briefs
      BY <1>1, <2>1 DEF Dialogs, Briefs, BriefInfo
    <3>3. \A i, j \in DOMAIN old.briefs : i < j => old.briefs[i].create <= old.briefs[j].create
      BY <1>1 DEF DialogInv, TwiceInv
    <3> DEFINE before == old.briefs
               brief == BriefInfo(now, rec)
    <3> HIDE DEF before, brief
    <3>4. before \in Seq(Briefs) /\ brief \in Briefs
          /\ \A i, j \in DOMAIN before : i < j => before[i].create <= before[j].create
      BY <3>1, <3>3 DEF before, brief
    <3> DEFINE after == AddBriefAsc(brief, before)
    <3>5. /\ after \in Seq(Briefs)
          /\ Len(after) = Len(before) + 1
          /\ \A i, j \in DOMAIN after : i < j => after[i].create <= after[j].create
          /\ \E place \in 1 .. Len(before) + 1 : \A j \in 1 .. Len(before) + 1 :
               after[j] = IF j < place THEN before[j]
                          ELSE IF j = place THEN brief ELSE before[j - 1]
      BY <3>4, AddBriefAscAdds
    <3> HIDE DEF after
    <3>6. DOMAIN after = 1 .. Len(before) + 1
      BY <3>5, LenProperties
    <3>7. \A i \in DOMAIN after :
            after[i] = brief \/ \E j \in DOMAIN before : after[i] = before[j]
      <4>1. PICK place \in 1 .. Len(before) + 1 : \A j \in 1 .. Len(before) + 1 :
              after[j] = IF j < place THEN before[j]
                         ELSE IF j = place THEN brief ELSE before[j - 1]
        BY <3>5
      <4> QED BY <4>1, <3>4, <3>6, AddedOrOld
    <3>8. after = briefs
      BY DEF after, before, brief
    <3> QED BY <3>5, <3>7, <3>8 DEF before, brief
  <2>5. Appended(old.combo, combo, now) /\ combo \in Seq(Instants)
    <3>1. old.combo \in Seq(Instants)
      BY <1>1 DEF Dialogs
    <3> HIDE DEF old, now
    <3> QED BY <3>1, <2>1, AppendPlaces, AppendProperties
  <2>6. Appended(old.records, e.records, r)
    <3>1. old.records \in Seq(Loaded) /\ r \in Loaded
      BY <1>1, <2>1 DEF Dialogs
    <3> HIDE DEF old, r, e
    <3> QED BY <3>1, <2>3, AppendPlaces
  <2> HIDE DEF e, briefs, combo, r, rec, now
  <2>7. d \in Dialogs
    <3>1. Len(old.combo) + 1 \in Nat
      BY <2>5 DEF Appended
    <3> HIDE DEF old, now
    <3> QED BY <2>3, <2>4, <2>5, <3>1 DEF Dialogs, Briefs
  <2>8. /\ d.at = "ready" /\ d.got = old.got /\ d.briefs = briefs /\ d.combo = combo
        /\ d.sel = Len(old.combo) + 1
        /\ d.records = e.records /\ d.cur = e.cur /\ d.taken = e.taken /\ d.boxes = e.boxes
    <3> HIDE DEF old
    <3> QED BY <2>3 DEF Dialogs
  <2> HIDE DEF d
  <2>9. DialogInv(d, Store!Idle, store)
    <3>1. CallInv(d, Store!Idle)
      BY <2>8 DEF CallInv, Waiting
    <3>2. StartInv(d)
      <4>1. Len(old.combo) = Len(old.briefs)
        BY <1>1 DEF DialogInv, StartInv
      <4> QED BY <4>1, <2>4, <2>5, <2>8 DEF StartInv, Appended
    <3>3. CurrentInv(d, store)
      <4>1. d.cur \in DOMAIN d.records /\ d.taken = Len(d.records) /\ d.records[d.cur] = r
        BY <2>3, <2>6, <2>8 DEF Appended
      <4>2. d.sel \in 0 .. Len(d.combo) /\ d.sel # 0 /\ d.combo[d.sel] = r.create
        BY <2>1, <2>5, <2>8 DEF Appended
      <4> HIDE DEF old
      <4> QED BY <4>1, <4>2, <2>3, <2>8 DEF CurrentInv
    <3>4. TwiceInv(d, store)
      <4>1. \A i, j \in DOMAIN d.records :
              d.records[i].create = d.records[j].create => i = j \/ d.records[i] = Blank
        <5>1. \A i, j \in DOMAIN old.records :
                old.records[i].create = old.records[j].create =>
                    i = j \/ old.records[i] = Blank
          BY <1>1 DEF DialogInv, TwiceInv
        <5>2. \A i \in DOMAIN old.records : old.records[i].create = 0 => old.records[i] = Blank
          BY <1>1 DEF DialogInv, StoredInv, LoadedOf
        <5> HIDE DEF old
        <5> QED BY <5>1, <5>2, <2>1, <2>6, <2>8, RecordsStayDistinct
      <4>2. \A i, j \in DOMAIN d.combo :
              d.combo[i] = d.combo[j] => i = j \/ MisheardOf(store, d.combo[i])
        <5>1. \A i, j \in DOMAIN old.combo :
                old.combo[i] = old.combo[j] => i = j \/ MisheardOf(store, old.combo[i])
          BY <1>1 DEF DialogInv, TwiceInv
        <5> HIDE DEF old
        <5> QED BY <5>1, <2>1, <2>5, <2>8, ItemsStayDistinct
      <4> QED BY <4>1, <4>2, <2>4, <2>8 DEF TwiceInv
    <3>5. StoredInv(d, store)
      <4>1. \A i \in DOMAIN d.records : LoadedOf(d.records[i], d.combo, store)
        <5>1. LoadedOf(r, d.combo, store)
          BY <2>1 DEF LoadedOf
        <5>2. ASSUME NEW i \in DOMAIN old.records
              PROVE  LoadedOf(old.records[i], d.combo, store)
          <6>1. LoadedOf(old.records[i], old.combo, store)
            BY <1>1 DEF DialogInv, StoredInv
          <6>2. \A j \in DOMAIN old.combo : j \in DOMAIN d.combo /\ d.combo[j] = old.combo[j]
            BY <2>5, <2>8 DEF Appended
          <6> HIDE DEF old
          <6> QED BY <6>1, <6>2 DEF LoadedOf
        <5> HIDE DEF old
        <5> QED BY <5>1, <5>2, <2>6, <2>8 DEF Appended
      <4>2. \A i \in DOMAIN d.briefs : \E q \in store :
              d.briefs[i].title = q.title /\ TimeOf(d.briefs[i].create, q)
        <5>1. \A i \in DOMAIN old.briefs : \E q \in store :
                old.briefs[i].title = q.title /\ TimeOf(old.briefs[i].create, q)
          BY <1>1 DEF DialogInv, StoredInv
        <5>2. BriefInfo(now, rec).title = rec.title /\ TimeOf(BriefInfo(now, rec).create, rec)
          BY <2>1 DEF BriefInfo, TimeOf
        <5> HIDE DEF old
        <5> QED BY <5>1, <5>2, <2>1, <2>4, <2>8
      <4>3. \A i \in DOMAIN d.combo : \E q \in store : TimeOf(d.combo[i], q)
        <5>1. \A i \in DOMAIN old.combo : \E q \in store : TimeOf(old.combo[i], q)
          BY <1>1 DEF DialogInv, StoredInv
        <5>2. TimeOf(now, rec)
          BY <2>1 DEF TimeOf
        <5> HIDE DEF old
        <5> QED BY <5>1, <5>2, <2>1, <2>5, <2>8 DEF Appended
      <4> QED BY <4>1, <4>2, <4>3 DEF StoredInv
    <3>6. GotInv(d, Store!Idle, store) /\ WrittenInv(d, Store!Idle, store)
      BY <1>1, <2>8 DEF DialogInv, GotInv, WrittenInv
    <3> QED BY <3>1, <3>2, <3>3, <3>4, <3>5, <3>6 DEF DialogInv
  <2> QED BY <1>2, <2>2, <2>7, <2>9, OneProgramChanges
<1> QED BY <1>3, <1>4 DEF RecordWritten

-----------------------------------------------------------------------------
(* The database, and the end                                               *)

(* A step of a database call, seen from the dialog.                        *)
LEMMA DatabaseKeeps ==
    ASSUME IInv, NEW c \in Clients, Database(c)
    PROVE  IInv'
<1>1. /\ dlg[c] \in Dialogs /\ DialogInv(dlg[c], status[c], store)
      /\ status[c] \in Store!Statuses /\ store \subseteq Recs
      /\ dlg = [dlg EXCEPT ![c] = dlg[c]]
  BY OneProgram
<1>2. CASE Store!Insert(c) /\ UNCHANGED dlg
  <2> DEFINE r == status[c].rec
             s == [status[c] EXCEPT !.phase = "ok"]
  <2>1. /\ status[c].phase = "busy" /\ status[c].op = "write"
        /\ store' = store \cup {r} /\ status' = [status EXCEPT ![c] = s]
        /\ \A q \in store : q.create # r.create /\ q.event # r.event
    BY <1>2 DEF Store!Insert, Store!Become
  <2>2. dlg[c].at = "writing" /\ r \in Recs
    <3>1. status[c] # Store!Idle
      BY <2>1 DEF Store!Idle
    <3>2. dlg[c].at \in Waiting
      BY <1>1, <3>1 DEF DialogInv, CallInv
    <3>3. dlg[c].at = "writing"
      BY <1>1, <2>1, <3>2 DEF DialogInv, CallInv, Waiting
    <3> QED BY <1>1, <3>3 DEF DialogInv, CallInv
  <2>3. /\ s \in Store!Statuses /\ s.phase = "ok" /\ s.op = "write" /\ s.rec = r
    BY <1>1, <2>1 DEF Store!Statuses
  <2>4. TypeOK'
    BY <1>2, <2>1, <2>2, <2>3 DEF IInv, TypeOK, Store!TypeOK
  <2>5. Store!KeysDistinct'
    BY <2>1 DEF IInv, Store!KeysDistinct
  <2>6. DialogInv(dlg[c], s, store')
    <3>1. GotInv(dlg[c], s, store') /\ StoredInv(dlg[c], store')
      <4>1. \A tm : MisheardOf(store, tm) => MisheardOf(store', tm)
        BY <2>1 DEF MisheardOf
      <4> QED BY <4>1, <1>1, <2>1, <2>2 DEF DialogInv, GotInv, StoredInv, LoadedOf
    <3>2. CallInv(dlg[c], s)
      BY <1>1, <2>2, <2>3 DEF DialogInv, CallInv, Waiting
    <3>3. WrittenInv(dlg[c], s, store')
      <4>1. dlg[c].now \in Instants /\ dlg[c].now # 0 /\ r.create = TimeToString[dlg[c].now]
        BY <1>1, <2>2, ConversionAssumption DEF DialogInv, CallInv
      <4>2. ASSUME NEW i \in DOMAIN dlg[c].records
            PROVE  dlg[c].records[i].create # dlg[c].now
        <5>1. LoadedOf(dlg[c].records[i], dlg[c].combo, store)
          BY <1>1 DEF DialogInv, StoredInv
        <5> HIDE DEF r
        <5> QED BY <5>1, <4>1, <2>1 DEF LoadedOf, Blank
      <4>3. ASSUME NEW i \in DOMAIN dlg[c].combo
            PROVE  dlg[c].combo[i] # dlg[c].now \/ MisheardOf(store', dlg[c].combo[i])
        <5>1. PICK q \in store : TimeOf(dlg[c].combo[i], q)
          BY <1>1 DEF DialogInv, StoredInv
        <5>2. q.create # r.create /\ q \in store'
          BY <2>1
        <5> HIDE DEF r
        <5> QED BY <5>1, <5>2, <4>1 DEF TimeOf, MisheardOf
      <4>4. s.rec \in store'
        BY <2>1, <2>3
      <4> HIDE DEF r, s
      <4> QED BY <4>2, <4>3, <4>4 DEF WrittenInv
    <3>4. CurrentInv(dlg[c], store') /\ TwiceInv(dlg[c], store')
      <4>1. \A tm : MisheardOf(store, tm) => MisheardOf(store', tm)
        BY <2>1 DEF MisheardOf
      <4> QED BY <4>1, <1>1 DEF DialogInv, CurrentInv, TwiceInv
    <3> QED BY <3>1, <3>2, <3>3, <3>4, <1>1 DEF DialogInv
  <2>7. ASSUME NEW p \in Clients PROVE DialogInv(dlg'[p], status'[p], store')
    <3>1. CASE p = c
      <4>1. dlg'[p] = dlg[c] /\ status'[p] = s
        BY <3>1, <1>2, <2>1 DEF IInv, TypeOK, Store!TypeOK
      <4> QED BY <4>1, <2>6
    <3>2. CASE p # c
      <4>1. dlg'[p] = dlg[p] /\ status'[p] = status[p] /\ store \subseteq store'
        BY <3>2, <1>2, <2>1 DEF IInv, TypeOK, Store!TypeOK
      <4>2. DialogInv(dlg[p], status[p], store)
        BY DEF IInv
      <4> QED BY <4>1, <4>2, DialogInvGrows
    <3> QED BY <3>1, <3>2
  <2> QED BY <2>4, <2>5, <2>7 DEF IInv
<1>3. CASE Store!Fail(c) /\ UNCHANGED dlg
  <2> DEFINE s == [status[c] EXCEPT !.phase = "failed"]
  <2>1. /\ status[c].phase = "busy" /\ UNCHANGED store
        /\ status' = [status EXCEPT ![c] = s] /\ dlg' = [dlg EXCEPT ![c] = dlg[c]]
    BY <1>1, <1>3 DEF Store!Fail, Store!Become
  <2>2. s \in Store!Statuses /\ s.phase = "failed" /\ s.op = status[c].op /\ s.rec = status[c].rec
    BY <1>1 DEF Store!Statuses
  <2>3. DialogInv(dlg[c], s, store)
    <3>1. CallInv(dlg[c], s)
      BY <1>1, <2>1, <2>2 DEF DialogInv, CallInv, Waiting, Store!Idle
    <3>2. GotInv(dlg[c], s, store) /\ WrittenInv(dlg[c], s, store)
      BY <1>1, <2>1, <2>2 DEF DialogInv, GotInv, WrittenInv
    <3> QED BY <3>1, <3>2, <1>1 DEF DialogInv
  <2> HIDE DEF s
  <2> QED BY <1>1, <2>1, <2>2, <2>3, OneProgramChanges
<1>4. CASE Store!Read(c) /\ dlg' = [dlg EXCEPT ![c].got = Seen(dlg[c])]
  <2> DEFINE s == [status[c] EXCEPT !.phase = "ok"]
             d == [dlg[c] EXCEPT !.got = Seen(dlg[c])]
  <2>1. /\ status[c].phase = "busy" /\ status[c].op = "read" /\ UNCHANGED store
        /\ status' = [status EXCEPT ![c] = s] /\ dlg' = [dlg EXCEPT ![c] = d]
    BY <1>4 DEF Store!Read, Store!Become
  <2>2. /\ s \in Store!Statuses /\ s.phase = "ok" /\ s.op = "read"
    BY <1>1, <2>1 DEF Store!Statuses
  <2>3. dlg[c].at \in {"loading", "reading"}
    BY <1>1, <2>1 DEF DialogInv, CallInv, Waiting, Store!Idle
  <2>4. Seen(dlg[c]) \subseteq store
    BY DEF Seen
  <2>5. d \in Dialogs
    BY <1>1, <2>4 DEF Dialogs
  <2>6. /\ d.at = dlg[c].at /\ d.got = Seen(dlg[c]) /\ d.combo = dlg[c].combo
        /\ d.sel = dlg[c].sel /\ d.briefs = dlg[c].briefs /\ d.records = dlg[c].records
        /\ d.cur = dlg[c].cur /\ d.taken = dlg[c].taken /\ d.boxes = dlg[c].boxes
    BY <1>1 DEF Dialogs
  <2> HIDE DEF d
  <2>7. DialogInv(d, s, store)
    <3>1. CallInv(d, s)
      BY <1>1, <2>2, <2>3, <2>6 DEF DialogInv, CallInv, Waiting
    <3>2. StartInv(d) /\ TwiceInv(d, store) /\ StoredInv(d, store)
      BY <1>1, <2>6 DEF DialogInv, StartInv, TwiceInv, StoredInv
    <3>3. CurrentInv(d, store)
      BY <1>1, <2>6 DEF DialogInv, CurrentInv
    <3>4. GotInv(d, s, store)
      <4>1. dlg[c].at = "reading" =>
               /\ \A r \in Seen(dlg[c]) : r.create = TimeToString[dlg[c].combo[dlg[c].sel]]
               /\ Seen(dlg[c]) # {} \/ MisheardOf(store, dlg[c].combo[dlg[c].sel])
        <5> DEFINE tm == dlg[c].combo[dlg[c].sel]
        <5> SUFFICES ASSUME dlg[c].at = "reading" PROVE
                /\ \A r \in Seen(dlg[c]) : r.create = TimeToString[tm]
                /\ Seen(dlg[c]) # {} \/ MisheardOf(store, tm)
          OBVIOUS
        <5>1. Seen(dlg[c]) = {r \in store : r.create = TimeToString[tm]}
          BY DEF Seen
        <5>2. dlg[c].sel \in 1 .. Len(dlg[c].combo) /\ dlg[c].combo \in Seq(Instants)
          BY <1>1 DEF DialogInv, CurrentInv, Dialogs
        <5>3. dlg[c].sel \in DOMAIN dlg[c].combo
          BY <5>2, LenProperties
        <5>4. PICK r \in store : TimeOf(tm, r)
          BY <1>1, <5>3 DEF DialogInv, StoredInv
        <5> HIDE DEF tm
        <5> QED BY <5>1, <5>4 DEF TimeOf, MisheardOf
      <4> QED BY <4>1, <2>2, <2>3, <2>4, <2>6 DEF GotInv
    <3>5. WrittenInv(d, s, store)
      BY <2>3, <2>6 DEF WrittenInv
    <3> QED BY <3>1, <3>2, <3>3, <3>4, <3>5 DEF DialogInv
  <2> HIDE DEF s
  <2> QED BY <2>1, <2>2, <2>5, <2>7, OneProgramChanges
<1> QED BY <1>2, <1>3, <1>4 DEF Database

(* The program ends.                                                       *)
LEMMA QuitKeeps ==
    ASSUME IInv, NEW c \in Clients, Quit(c)
    PROVE  IInv'
<1>1. Closed \in Dialogs /\ dlg' = [dlg EXCEPT ![c] = Closed]
  BY ClosedIsDialog DEF Quit
<1>2. /\ Store!Idle \in Store!Statuses
      /\ status' = [status EXCEPT ![c] = Store!Idle] /\ UNCHANGED store
  <2>1. CASE status[c].phase = "idle"
    <3>1. status[c] = Store!Idle /\ status = [status EXCEPT ![c] = status[c]]
      BY <2>1, OneProgram DEF DialogInv, CallInv
    <3> QED BY <2>1, <3>1, OneProgram DEF Quit
  <2>2. CASE status[c].phase # "idle"
    BY <2>2, ReturnsIdle DEF Quit
  <2> QED BY <2>1, <2>2
<1>3. DialogInv(Closed, Store!Idle, store)
  <2>1. CallInv(Closed, Store!Idle) /\ StartInv(Closed) /\ CurrentInv(Closed, store)
    BY DEF CallInv, StartInv, CurrentInv, Closed, Waiting
  <2>2. TwiceInv(Closed, store) /\ GotInv(Closed, Store!Idle, store) /\ StoredInv(Closed, store)
    BY DEF TwiceInv, GotInv, StoredInv, Closed
  <2>3. WrittenInv(Closed, Store!Idle, store)
    BY DEF WrittenInv, Closed
  <2> QED BY <2>1, <2>2, <2>3 DEF DialogInv
<1> QED BY <1>1, <1>2, <1>3, OneProgramChanges

(* Nothing happens.                                                        *)
LEMMA StutterKeeps ==
    ASSUME IInv, UNCHANGED vars
    PROVE  IInv'
<1>1. TypeOK' /\ Store!KeysDistinct'
  BY DEF IInv, vars, TypeOK, Store!TypeOK, Store!KeysDistinct
<1>2. \A c \in Clients : DialogInv(dlg[c], status[c], store)'
  BY DEF IInv, vars
<1> QED BY <1>1, <1>2 DEF IInv
-----------------------------------------------------------------------------
(* Theorems                                                                *)

(* Every step keeps the invariant.                                         *)
LEMMA NextKeeps == IInv /\ [Next]_vars => IInv'
<1> SUFFICES ASSUME IInv, [Next]_vars PROVE IInv'
  OBVIOUS
<1>1. ASSUME NEW c \in Clients, OnInitDialog(c) PROVE IInv'
  BY <1>1, OnInitDialogKeeps
<1>2. ASSUME NEW c \in Clients, BriefsRead(c) PROVE IInv'
  BY <1>2, BriefsReadKeeps
<1>3. ASSUME NEW c \in Clients, LoadBreifInfo(c) PROVE IInv'
  BY <1>3, LoadBreifInfoKeeps
<1>4. ASSUME NEW c \in Clients, InitBreifCmb(c) PROVE IInv'
  BY <1>4, InitBreifCmbKeeps
<1>5. ASSUME NEW c \in Clients, Pick(c) PROVE IInv'
  BY <1>5, PickKeeps
<1>51. ASSUME NEW c \in Clients, Acknowledge(c) PROVE IInv'
  BY <1>51, AcknowledgeKeeps
<1>6. ASSUME NEW c \in Clients, OnCbnSelchangeCmbQuery(c) PROVE IInv'
  BY <1>6, OnCbnSelchangeCmbQueryKeeps
<1>7. ASSUME NEW c \in Clients, RecordRead(c) PROVE IInv'
  BY <1>7, RecordReadKeeps
<1>8. ASSUME NEW c \in Clients, OnBnClickedBtnAdd(c) PROVE IInv'
  BY <1>8, AddRecordKeeps DEF OnBnClickedBtnAdd
<1>9. ASSUME NEW c \in Clients, RecordWritten(c) PROVE IInv'
  BY <1>9, RecordWrittenKeeps
<1>10. ASSUME NEW c \in Clients, Database(c) PROVE IInv'
  BY <1>10, DatabaseKeeps
<1>11. ASSUME NEW c \in Clients, Quit(c) PROVE IInv'
  BY <1>11, QuitKeeps
<1>12. CASE UNCHANGED vars
  BY <1>12, StutterKeeps
<1> QED BY <1>1, <1>2, <1>3, <1>4, <1>5, <1>51, <1>6, <1>7, <1>8, <1>9, <1>10, <1>11, <1>12
       DEF Next

(* The inductive invariant on which the others rest.                       *)
THEOREM Invariance == Spec => []IInv
BY InitEstablishes, NextKeeps, PTL DEF Spec

(* Every reachable state is well-typed.                                    *)
THEOREM TypeCorrect == Spec => []TypeOK
<1>1. IInv => TypeOK
  BY DEF IInv
<1> QED BY <1>1, Invariance, PTL

(* Memory never disagrees with the database (RecordData.cpp), however many *)
(* programs add records at the same time, fail or die; a blank record is   *)
(* loaded only after a listing told a wrong time.                          *)
THEOREM AlwaysStored == Spec => []MemoryIsStored
<1>1. IInv => MemoryIsStored
  <2> SUFFICES ASSUME IInv, NEW c \in Clients
               PROVE
        /\ \A r \in ToSet(dlg[c].records) :
             \/ r = Blank /\ \E tm \in ToSet(dlg[c].combo) : Misheard(tm)
             \/ r.create # 0 /\ r.rec \in store /\ r.rec.create = TimeToString[r.create]
        /\ \A brief \in ToSet(dlg[c].briefs) :
             \E r \in store : brief.title = r.title /\ TimeOf(brief.create, r)
    BY DEF MemoryIsStored
  <2>1. StoredInv(dlg[c], store)
    BY DEF IInv, DialogInv
  <2> QED BY <2>1 DEF StoredInv, LoadedOf, ToSet, Misheard
<1> QED BY <1>1, Invariance, PTL

(* No creation time is loaded twice, and none listed or selectable twice   *)
(* but one that a listing told wrong (GetRecordByTime, m_cmbQueryTitle).   *)
THEOREM NeverTwice == Spec => []NothingTwice
<1>1. IInv => NothingTwice
  <2> SUFFICES ASSUME IInv, NEW c \in Clients
               PROVE
        /\ \A i, j \in DOMAIN dlg[c].records :
             dlg[c].records[i].create = dlg[c].records[j].create =>
                 i = j \/ dlg[c].records[i] = Blank
        /\ \A i, j \in DOMAIN dlg[c].combo :
             dlg[c].combo[i] = dlg[c].combo[j] => i = j \/ Misheard(dlg[c].combo[i])
        /\ dlg[c].at # "sorting" => Len(dlg[c].combo) = Len(dlg[c].briefs)
    BY DEF NothingTwice
  <2>1. TwiceInv(dlg[c], store) /\ StartInv(dlg[c])
    BY DEF IInv, DialogInv
  <2> QED BY <2>1 DEF TwiceInv, StartInv, Misheard
<1> QED BY <1>1, Invariance, PTL

(* When a handler has ended with a current record, that record, the        *)
(* selected item and the boxes of the record and its event agree           *)
(* (iLorrieDlg.cpp:304-348).                                               *)
THEOREM AlwaysSelected == Spec => []ShownIsSelected
<1>1. IInv => ShownIsSelected
  BY DEF IInv, DialogInv, CurrentInv, ShownIsSelected, Ready, Misheard
<1> QED BY <1>1, Invariance, PTL

(* No record was added to m_vecRecords since m_pCurRcd was taken.          *)
THEOREM AlwaysLive == Spec => []CurrentIsLive
<1>1. IInv => CurrentIsLive
  BY DEF IInv, DialogInv, CurrentInv, CurrentIsLive
<1> QED BY <1>1, Invariance, PTL

(* The briefs stay in ascending order of creation time, whatever the clock *)
(* does (AddBriefAsc).                                                     *)
THEOREM AlwaysAscending == Spec => []BriefsAscend
<1>1. IInv => BriefsAscend
  BY DEF IInv, DialogInv, TwiceInv, BriefsAscend
<1> QED BY <1>1, Invariance, PTL
=============================================================================
