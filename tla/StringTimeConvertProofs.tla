---------------------- MODULE StringTimeConvertProofs ----------------------
(***************************************************************************)
(* Proofs about StringTimeConvert, for every time zone, every rule of      *)
(* daylight saving time, every calendar that names each day once, and      *)
(* every text: what the loop finds in a text whose separators come in      *)
(* order, and which time that is.                                          *)
(*                                                                         *)
(* While it searches, the loop has found as many numbers as it has passed  *)
(* pieces (NoPieceSkipped), because in such a text the separator it looks  *)
(* for first is never behind another one.                                  *)
(***************************************************************************)
EXTENDS StringTimeConvert, DataLemmas

(* The last piece of a text is the one that ends it.                       *)
Ended(text) == \A k \in DOMAIN text : text[k].then = "end" <=> k = Len(text)

IInv ==
    /\ time \in Instants \cup {Unwritten}
    /\ szTime \in Seq(Pieces) /\ Ended(szTime)
    /\ time # Unwritten => szTime = _TimeToString(time)
    /\ nBegin \in Nat
    /\ nBegin \in IF szTime = NULL THEN {1} ELSE 1 .. Len(szTime)
    /\ vecNumber \in Seq(Nat)
    /\ tTime \in Int
    /\ at \in {"searching", "true", "false"}
    /\ at = "true" => Len(vecNumber) \in 3 .. 6 /\ tTime = mktime(sourcedate(vecNumber))
    /\ at = "false" => Len(vecNumber) \notin 3 .. 6
    /\ NoPieceSkipped

-----------------------------------------------------------------------------
(* The calendar                                                            *)

(* A time of day is its hours, minutes and seconds.                        *)
LEMMA TimeOfDay ==
    ASSUME NEW s \in 0 .. Day - 1
    PROVE  /\ s \div Hour \in 0 .. 23 /\ (s % Hour) \div 60 \in 0 .. 59 /\ s % 60 \in 0 .. 59
           /\ s = (s \div Hour) * Hour + ((s % Hour) \div 60) * 60 + (s % 60)
<1>1. s \in 0 .. 86399
  BY SMTT(30) DEF Day
<1>2. /\ s \div 3600 \in 0 .. 23 /\ s % 3600 \in 0 .. 3599
      /\ s = 3600 * (s \div 3600) + (s % 3600)
  BY <1>1
<1>3. ASSUME NEW m \in 0 .. 3599
      PROVE  /\ m \div 60 \in 0 .. 59 /\ m % 60 \in 0 .. 59
             /\ m = 60 * (m \div 60) + (m % 60)
  OBVIOUS
<1>4. ASSUME NEW h \in 0 .. 23, NEW m \in 0 .. 3599 PROVE (3600 * h + m) % 60 = m % 60
  OBVIOUS
<1>5. s % 60 = (s % 3600) % 60
  BY <1>2, <1>4
<1> QED BY <1>2, <1>3, <1>5 DEF Hour

(* A time is its day and the second within it.                             *)
LEMMA DayAndSecond ==
    ASSUME NEW t \in Int
    PROVE  /\ t \div Day \in Int /\ t % Day \in Int /\ t % Day \in 0 .. Day - 1
           /\ t = (t \div Day) * Day + (t % Day)
BY SMTT(30) DEF Day

(* What mktime and localtime show is an integer.                           *)
LEMMA ShownIsInt ==
    ASSUME NEW t \in Int
    PROVE  ShownAt(t) \in Int
BY CalendarAssumption DEF ShownAt, Hour

(* localtime shows one of the days and a time of day.                      *)
LEMMA LocalTime ==
    ASSUME NEW t \in Int, ShownAt(t) \div Day \in Days
    PROVE  /\ localtime(t).date = DateOf[ShownAt(t) \div Day]
           /\ localtime(t).date.year \in Nat /\ localtime(t).date.month \in Nat
           /\ localtime(t).date.day \in Nat
           /\ localtime(t).date = [year |-> localtime(t).date.year,
                                   month |-> localtime(t).date.month,
                                   day |-> localtime(t).date.day]
           /\ localtime(t).hour \in Nat /\ localtime(t).min \in Nat /\ localtime(t).sec \in Nat
           /\ ShownAt(t) = (ShownAt(t) \div Day) * Day
                             + localtime(t).hour * Hour + localtime(t).min * 60 + localtime(t).sec
<1> DEFINE shown == ShownAt(t)
<1>1. /\ shown \div Day \in Int /\ shown % Day \in Int /\ shown % Day \in 0 .. Day - 1
      /\ shown = (shown \div Day) * Day + (shown % Day)
  BY ShownIsInt, DayAndSecond
<1>2. /\ localtime(t).date = DateOf[shown \div Day]
      /\ localtime(t).hour = (shown % Day) \div Hour
      /\ localtime(t).min = ((shown % Day) % Hour) \div 60
      /\ localtime(t).sec = (shown % Day) % 60
  BY DEF localtime
<1> HIDE DEF shown
<1>3. DateOf[shown \div Day] \in [year : Nat, month : 1 .. 12, day : 1 .. 31]
  BY CalendarAssumption DEF shown
<1>4. /\ localtime(t).hour \in 0 .. 23 /\ localtime(t).min \in 0 .. 59
      /\ localtime(t).sec \in 0 .. 59
      /\ shown % Day = localtime(t).hour * Hour + localtime(t).min * 60 + localtime(t).sec
  BY <1>1, <1>2, TimeOfDay
<1>5. shown = (shown \div Day) * Day
                + localtime(t).hour * Hour + localtime(t).min * 60 + localtime(t).sec
  <2>1. shown \in Int
    BY ShownIsInt DEF shown
  <2> DEFINE day == shown \div Day
             rest == shown % Day
             h == localtime(t).hour
             m == localtime(t).min
             s == localtime(t).sec
  <2>2. day \in Int /\ rest \in Int /\ h \in Int /\ m \in Int /\ s \in Int
    BY <1>1, <1>4
  <2>3. shown = day * Day + rest /\ rest = h * Hour + m * 60 + s
    BY <1>1, <1>4
  <2> HIDE DEF day, rest, h, m, s
  <2>4. shown = day * Day + h * Hour + m * 60 + s
    BY <2>1, <2>2, <2>3 DEF Day, Hour
  <2> QED BY <2>4 DEF day, h, m, s
<1>6. /\ localtime(t).date.year \in Nat /\ localtime(t).date.month \in Nat
      /\ localtime(t).date.day \in Nat
      /\ localtime(t).date = [year |-> localtime(t).date.year,
                              month |-> localtime(t).date.month,
                              day |-> localtime(t).date.day]
  BY <1>2, <1>3
<1> QED BY <1>2, <1>4, <1>5, <1>6 DEF shown

(* mktime reads what localtime shows as standard time.                     *)
LEMMA MakeTime ==
    ASSUME NEW t \in Instants
    PROVE  mktime(localtime(t)) = Read(t)
<1>1. t \in Int /\ t \in Nat /\ ShownAt(t) \in Int /\ ShownAt(t) \div Day \in Days
  BY InstantsAssumption, ShownIsInt
<1> DEFINE tm == localtime(t)
           days == {day \in Days : DateOf[day] = tm.date}
           day == CHOOSE day \in days : TRUE
<1>2. tm.date = DateOf[ShownAt(t) \div Day]
      /\ ShownAt(t) = (ShownAt(t) \div Day) * Day + tm.hour * Hour + tm.min * 60 + tm.sec
  BY <1>1, LocalTime
<1>3. days # {} /\ \A d \in days : d = ShownAt(t) \div Day
  BY <1>1, <1>2, CalendarAssumption
<1>4. day = ShownAt(t) \div Day
  BY <1>3
<1>5. day * Day + tm.hour * Hour + tm.min * 60 + tm.sec - Offset = ShownAt(t) - Offset
  <2>1. tm.hour \in Nat /\ tm.min \in Nat /\ tm.sec \in Nat /\ ShownAt(t) \div Day \in Int
    BY <1>1, LocalTime, CalendarAssumption
  <2> HIDE DEF day, tm
  <2> QED BY <1>1, <1>2, <1>4, <2>1, CalendarAssumption DEF Day, Hour
<1>6. ShownAt(t) - Offset = Read(t) /\ Read(t) \in Nat
  BY <1>1, CalendarAssumption DEF ShownAt, Read, Hour
<1> HIDE DEF tm
<1>7. mktime(tm) = IF days = {} THEN Open
                   ELSE IF day * Day + tm.hour * Hour + tm.min * 60 + tm.sec - Offset < 0 THEN -1
                   ELSE day * Day + tm.hour * Hour + tm.min * 60 + tm.sec - Offset
  BY DEF mktime
<1>8. mktime(tm) = Read(t)
  <2> HIDE DEF days, day
  <2> QED BY <1>3, <1>5, <1>6, <1>7
<1> QED BY <1>8 DEF tm

(* mktime returns a number of seconds, whatever it is given.               *)
LEMMA MakeTimeType ==
    ASSUME NEW tm, tm.hour \in Nat, tm.min \in Nat, tm.sec \in Nat
    PROVE  mktime(tm) \in Int
<1> DEFINE days == {day \in Days : DateOf[day] = tm.date}
           day == CHOOSE day \in days : TRUE
<1>1. CASE days = {}
  BY <1>1 DEF mktime, Open
<1>2. CASE days # {}
  <2>1. day \in Int
    BY <1>2, CalendarAssumption
  <2>2. day * Day + tm.hour * Hour + tm.min * 60 + tm.sec - Offset \in Int
    <3> HIDE DEF day
    <3> QED BY <2>1, CalendarAssumption DEF Day, Hour
  <2>3. mktime(tm) = IF day * Day + tm.hour * Hour + tm.min * 60 + tm.sec - Offset < 0 THEN -1
                     ELSE day * Day + tm.hour * Hour + tm.min * 60 + tm.sec - Offset
    BY <1>2 DEF mktime
  <2> HIDE DEF day
  <2> QED BY <2>2, <2>3
<1> QED BY <1>1, <1>2

-----------------------------------------------------------------------------
(* The texts                                                               *)

(* The numbers of a time, in the order they are written.                   *)
Numbers(tm) == <<tm.date.year, tm.date.month, tm.date.day, tm.hour, tm.min, tm.sec>>

(* The text of a time says its day and its second.                         *)
LEMMA TextOfTime ==
    ASSUME NEW t \in Int, ShownAt(t) \div Day \in Days
    PROVE  /\ _TimeToString(t) \in Seq(Pieces) /\ Len(_TimeToString(t)) = 6
           /\ Ended(_TimeToString(t)) /\ InOrder(_TimeToString(t))
           /\ \A k \in 1 .. 6 : /\ _TimeToString(t)[k].number = Numbers(localtime(t))[k]
                                /\ _TimeToString(t)[k].number \in Nat
<1> DEFINE tm == localtime(t)
           text == <<[number |-> tm.date.year, then |-> "dash"], [number |-> tm.date.month, then |-> "dash"],
                     [number |-> tm.date.day, then |-> "space"], [number |-> tm.hour, then |-> "colon"],
                     [number |-> tm.min, then |-> "colon"], [number |-> tm.sec, then |-> "end"]>>
<1>1. _TimeToString(t) = text
  BY DEF _TimeToString
<1>2. /\ tm.date.year \in Nat /\ tm.date.month \in Nat /\ tm.date.day \in Nat
      /\ tm.hour \in Nat /\ tm.min \in Nat /\ tm.sec \in Nat
  BY LocalTime
<1> HIDE DEF tm
<1>3. text \in Seq(Pieces) /\ Len(text) = 6 /\ DOMAIN text = 1 .. 6
  BY <1>2 DEF Pieces
<1>4. Ended(text)
  BY <1>3 DEF Ended
<1>5. InOrder(text)
  <2>1. Order["dash"] = 1 /\ Order["space"] = 2 /\ Order["colon"] = 3 /\ Order["end"] = 4
    BY DEF Order
  <2>2. ASSUME NEW i \in 1 .. 6, NEW j \in 1 .. 6, i < j
        PROVE  Order[text[i].then] <= Order[text[j].then]
    BY <2>1, <2>2
  <2> QED BY <1>3, <2>2 DEF InOrder
<1>6. \A k \in 1 .. 6 : text[k].number = Numbers(tm)[k] /\ text[k].number \in Nat
  BY <1>2 DEF Numbers
<1> QED BY <1>1, <1>3, <1>4, <1>5, <1>6 DEF tm

(* The separators of a text in order are found where they are: the next    *)
(* one ends the piece at which the search begins.                          *)
LEMMA NextSeparator ==
    ASSUME szTime \in Seq(Pieces), Ended(szTime), nBegin \in 1 .. Len(szTime)
    PROVE  /\ nPos # 0 => nPos \in nBegin .. Len(szTime) - 1
           /\ InOrder(szTime) /\ nPos # 0 => nPos = nBegin
           /\ InOrder(szTime) /\ nPos = 0 => nBegin = Len(szTime)
<1>1. /\ Len(szTime) \in Nat /\ DOMAIN szTime = 1 .. Len(szTime)
      /\ nBegin \in Nat /\ nBegin # 0 /\ nBegin <= Len(szTime)
      /\ \A k \in 1 .. Len(szTime) : szTime[k] \in Pieces
  <2>1. Len(szTime) \in Nat /\ DOMAIN szTime = 1 .. Len(szTime)
    BY LenProperties
  <2> QED BY <2>1, ElementOfSeq
<1>2. ASSUME NEW separator \in {"dash", "space", "colon"}
      PROVE  /\ Separators(separator) \subseteq nBegin .. Len(szTime) - 1
             /\ Separators(separator) \subseteq Nat
             /\ \A k \in nBegin .. Len(szTime) :
                  k \in Separators(separator) <=> szTime[k].then = separator
  BY <1>1 DEF Separators, Ended
<1>3. ASSUME NEW separator \in {"dash", "space", "colon"}, Separators(separator) # {}
      PROVE  /\ Min(Separators(separator)) \in nBegin .. Len(szTime) - 1
             /\ nBegin \in Separators(separator) => Min(Separators(separator)) = nBegin
  <2>1. /\ Min(Separators(separator)) \in Separators(separator)
        /\ \A k \in Separators(separator) : Min(Separators(separator)) <= k
    BY <1>2, <1>3, MinIsLeast
  <2> QED BY <1>1, <1>2, <2>1
<1>4. nPos # 0 => nPos \in nBegin .. Len(szTime) - 1
  BY <1>3 DEF nPos
<1>5. ASSUME InOrder(szTime), nBegin # Len(szTime)
      PROVE  nPos = nBegin
  <2>1. Order["dash"] = 1 /\ Order["space"] = 2 /\ Order["colon"] = 3 /\ Order["end"] = 4
    BY DEF Order
  <2>2. szTime[nBegin].then \in {"dash", "space", "colon"}
    BY <1>1, <1>5 DEF Ended, Pieces
  <2>3. \A k \in nBegin .. Len(szTime) :
          k # nBegin => Order[szTime[nBegin].then] <= Order[szTime[k].then]
    <3> SUFFICES ASSUME NEW k \in nBegin .. Len(szTime), k # nBegin
                 PROVE  Order[szTime[nBegin].then] <= Order[szTime[k].then]
      OBVIOUS
    <3>1. nBegin \in DOMAIN szTime /\ k \in DOMAIN szTime /\ nBegin < k
      BY <1>1
    <3> QED BY <1>5, <3>1 DEF InOrder
  <2>4. nBegin \in Separators(szTime[nBegin].then)
    BY <1>1, <1>2, <2>2
  <2>5. CASE szTime[nBegin].then = "dash"
    BY <1>3, <2>4, <2>5 DEF nPos
  <2>6. CASE szTime[nBegin].then = "space"
    <3>1. Separators("dash") = {}
      BY <1>2, <2>1, <2>3, <2>6
    <3> QED BY <1>3, <2>4, <2>6, <3>1 DEF nPos
  <2>7. CASE szTime[nBegin].then = "colon"
    <3>1. Separators("dash") = {} /\ Separators("space") = {}
      BY <1>2, <2>1, <2>3, <2>7
    <3> QED BY <1>3, <2>4, <2>7, <3>1 DEF nPos
  <2> QED BY <2>2, <2>5, <2>6, <2>7
<1>6. nBegin = Len(szTime) => nPos = 0
  BY <1>1, <1>2 DEF nPos
<1> QED BY <1>1, <1>4, <1>5, <1>6

(* The number of a single piece.                                           *)
NumberOf(piece) == IF piece.number = Nothing THEN 0 ELSE piece.number

(* atoi reads the number of a piece, whatever follows it.                  *)
LEMMA AtoiIsNumber ==
    ASSUME szTime \in Seq(Pieces), NEW first \in 1 .. Len(szTime), NEW last \in 1 .. Len(szTime)
    PROVE  /\ atoi(first, last) \in Nat
           /\ atoi(first, first) = NumberOf(szTime[first])
<1>1. \A k \in 1 .. Len(szTime) : szTime[k] \in Pieces
  BY ElementOfSeq
<1>2. ASSUME NEW end \in 1 .. Len(szTime)
      PROVE  /\ atoi(first, end) \in Nat
             /\ end = first => atoi(first, end) = NumberOf(szTime[first])
  <2> DEFINE printed == {k \in first .. end : szTime[k].number # Nothing \/ szTime[k].then = "colon"}
  <2>1. atoi(first, end) = IF printed = {} \/ szTime[Min(printed)].number = Nothing
                           THEN 0 ELSE szTime[Min(printed)].number
    BY DEF atoi
  <2>2. Len(szTime) \in Nat
    BY LenProperties
  <2>3. printed \subseteq first .. end /\ printed \subseteq Nat
    BY <2>2
  <2>4. end = first /\ printed = {} => szTime[first].number = Nothing
    BY <2>2
  <2> HIDE DEF printed
  <2>5. CASE printed = {}
    BY <2>1, <2>4, <2>5 DEF NumberOf
  <2>6. CASE printed # {}
    <3>1. Min(printed) \in first .. end
      BY <2>3, <2>6, MinIsLeast
    <3>2. Min(printed) \in 1 .. Len(szTime)
      BY <2>2, <3>1
    <3>3. szTime[Min(printed)].number \in Nat \cup {Nothing}
      BY <1>1, <3>2 DEF Pieces
    <3>4. end = first => Min(printed) = first
      BY <2>2, <3>1
    <3> QED BY <2>1, <2>6, <3>3, <3>4 DEF NumberOf
  <2> QED BY <2>5, <2>6
<1> QED BY <1>2

-----------------------------------------------------------------------------
(* The loop                                                                *)

(* The invariant holds at the start.                                       *)
LEMMA InitEstablishes == Init => IInv
<1> SUFFICES ASSUME Init PROVE IInv
  OBVIOUS
<1>1. CASE time \in Instants /\ szTime = _TimeToString(time)
  <2>1. /\ szTime \in Seq(Pieces) /\ Ended(szTime) /\ Len(szTime) = 6 /\ szTime # NULL
    BY <1>1, TextOfTime, InstantsAssumption DEF NULL
  <2>2. NoPieceSkipped
    BY DEF Init, NoPieceSkipped
  <2> QED BY <1>1, <2>1, <2>2 DEF Init, IInv
<1>2. CASE time = Unwritten /\ szTime \in OtherTexts
  <2>1. szTime \in Seq(Pieces) /\ Ended(szTime) /\ szTime # NULL /\ 1 \in 1 .. Len(szTime)
    BY <1>2, TextsAssumption, EmptySeq, LenProperties DEF NULL, Ended
  <2>2. NoPieceSkipped
    BY DEF Init, NoPieceSkipped
  <2> QED BY <1>2, <2>1, <2>2 DEF Init, IInv
<1>3. CASE time = Unwritten /\ szTime = NULL
  <2>1. szTime \in Seq(Pieces) /\ Ended(szTime)
    BY <1>3 DEF NULL, Ended
  <2>2. NoPieceSkipped
    BY DEF Init, NoPieceSkipped
  <2> QED BY <1>3, <2>1, <2>2 DEF Init, IInv
<1> QED BY <1>1, <1>2, <1>3 DEF Init

(* A number is added for the piece that the search has passed.             *)
LEMMA NumberAdded ==
    ASSUME IInv, at = "searching", szTime # NULL, InOrder(szTime), NEW n \in Nat,
           n = NumberOf(szTime[nBegin])
    PROVE  /\ Len(Append(vecNumber, n)) = nBegin
           /\ \A k \in DOMAIN Append(vecNumber, n) :
                Append(vecNumber, n)[k] = NumberOf(szTime[k])
<1>1. Appended(vecNumber, Append(vecNumber, n), n)
  BY AppendPlaces DEF IInv
<1>2. /\ Len(vecNumber) = nBegin - 1 /\ nBegin \in Nat
      /\ \A k \in DOMAIN vecNumber : vecNumber[k] = NumberOf(szTime[k])
  BY DEF IInv, NoPieceSkipped, NumberOf
<1> QED BY <1>1, <1>2 DEF Appended

(* Taking off one piece keeps the invariant.                               *)
LEMMA SeparateKeeps ==
    ASSUME IInv, Separate
    PROVE  IInv'
<1>1. /\ szTime \in Seq(Pieces) /\ Ended(szTime) /\ nBegin \in 1 .. Len(szTime)
      /\ Len(szTime) \in Nat
  BY LenProperties DEF IInv, Separate
<1>2. nPos \in nBegin .. Len(szTime) - 1 /\ (InOrder(szTime) => nPos = nBegin)
  BY <1>1, NextSeparator DEF Separate
<1>3. nPos \in 1 .. Len(szTime) /\ nPos + 1 \in 1 .. Len(szTime) /\ nPos + 1 \in Nat
  BY <1>1, <1>2
<1>4. /\ atoi(nBegin, nPos) \in Nat
      /\ InOrder(szTime) => atoi(nBegin, nPos) = NumberOf(szTime[nBegin])
  BY <1>1, <1>2, <1>3, AtoiIsNumber
<1>5. vecNumber' = Append(vecNumber, atoi(nBegin, nPos)) /\ nBegin' = nPos + 1
      /\ UNCHANGED <<time, szTime, tTime, at>> /\ at = "searching"
  BY DEF Separate
<1>6. vecNumber' \in Seq(Nat)
  BY <1>4, <1>5, AppendProperties DEF IInv
<1>7. NoPieceSkipped'
  <2> SUFFICES ASSUME InOrder(szTime)
               PROVE  /\ \A k \in DOMAIN vecNumber' : vecNumber'[k] = NumberOf(szTime[k])
                      /\ Len(vecNumber') = nBegin' - 1
    BY <1>5 DEF NoPieceSkipped, InOrder, NumberOf
  <2>1. /\ Len(vecNumber') = nBegin
        /\ \A k \in DOMAIN vecNumber' : vecNumber'[k] = NumberOf(szTime[k])
    BY <1>4, <1>5, NumberAdded DEF Separate
  <2> QED BY <1>1, <1>2, <1>5, <2>1
<1>8. /\ (time \in Instants \cup {Unwritten})' /\ (szTime \in Seq(Pieces) /\ Ended(szTime))'
      /\ (time # Unwritten => szTime = _TimeToString(time))'
      /\ (tTime \in Int)' /\ (at \in {"searching", "true", "false"})'
  BY <1>5 DEF IInv, Ended, _TimeToString, localtime, ShownAt
<1>9. (nBegin \in Nat /\ nBegin \in IF szTime = NULL THEN {1} ELSE 1 .. Len(szTime))'
  BY <1>3, <1>5 DEF Separate
<1> QED BY <1>5, <1>6, <1>7, <1>8, <1>9 DEF IInv

(* The fields of the date are natural numbers.                             *)
LEMMA SourceDateType ==
    ASSUME NEW numbers \in Seq(Nat), Len(numbers) \in 3 .. 6
    PROVE  /\ sourcedate(numbers).hour \in Nat /\ sourcedate(numbers).min \in Nat
           /\ sourcedate(numbers).sec \in Nat
<1>1. \A k \in 1 .. 6 : Number(numbers, k) \in Nat
  BY ElementOfSeq DEF Number
<1> QED BY <1>1 DEF sourcedate

(* The last conversion keeps the invariant.                                *)
LEMMA ConvertKeeps ==
    ASSUME IInv, Convert
    PROVE  IInv'
<1>1. UNCHANGED <<time, szTime, nBegin>> /\ at = "searching"
      /\ vecNumber' = IF szTime = NULL THEN vecNumber
                      ELSE Append(vecNumber, atoi(nBegin, Len(szTime)))
  BY DEF Convert
<1>2. /\ vecNumber' \in Seq(Nat)
      /\ InOrder(szTime) =>
           /\ \A k \in DOMAIN vecNumber' : vecNumber'[k] = NumberOf(szTime[k])
           /\ Len(vecNumber') = Len(szTime)
  <2>1. CASE szTime = NULL
    <3>1. vecNumber' = vecNumber /\ nBegin = 1 /\ Len(szTime) = 0
      BY <1>1, <2>1 DEF IInv, NULL
    <3> QED BY <1>1, <2>1, <3>1 DEF IInv, NoPieceSkipped, NumberOf
  <2>2. CASE szTime # NULL
    <3>1. /\ szTime \in Seq(Pieces) /\ Ended(szTime) /\ nBegin \in 1 .. Len(szTime)
          /\ Len(szTime) \in Nat /\ nPos = 0
      BY <2>2, LenProperties DEF IInv, Convert
    <3>2. InOrder(szTime) => nBegin = Len(szTime)
      BY <3>1, NextSeparator
    <3>3. Len(szTime) \in 1 .. Len(szTime)
      BY <3>1
    <3>4. /\ atoi(nBegin, Len(szTime)) \in Nat
          /\ InOrder(szTime) => atoi(nBegin, Len(szTime)) = NumberOf(szTime[nBegin])
      BY <3>1, <3>2, <3>3, AtoiIsNumber
    <3>5. vecNumber' = Append(vecNumber, atoi(nBegin, Len(szTime)))
      BY <1>1, <2>2
    <3>6. vecNumber' \in Seq(Nat)
      BY <3>4, <3>5, AppendProperties DEF IInv
    <3>7. InOrder(szTime) =>
            /\ Len(vecNumber') = nBegin
            /\ \A k \in DOMAIN vecNumber' : vecNumber'[k] = NumberOf(szTime[k])
      BY <1>1, <2>2, <3>4, <3>5, NumberAdded
    <3> QED BY <3>2, <3>6, <3>7
  <2> QED BY <2>1, <2>2
<1>3. /\ at' \in {"true", "false"}
      /\ at' = "true" => Len(vecNumber') \in 3 .. 6 /\ tTime' = mktime(sourcedate(vecNumber'))
      /\ at' = "false" => Len(vecNumber') \notin 3 .. 6 /\ tTime' = tTime
  BY DEF Convert
<1>4. tTime' \in Int
  BY <1>2, <1>3, SourceDateType, MakeTimeType DEF IInv
<1>5. NoPieceSkipped'
  BY <1>1, <1>2, <1>3 DEF NoPieceSkipped, InOrder, NumberOf
<1>6. (at = "true" => tTime = mktime(sourcedate(vecNumber)))'
  BY <1>3 DEF mktime, sourcedate, Number
<1>7. /\ (time \in Instants \cup {Unwritten})' /\ (szTime \in Seq(Pieces) /\ Ended(szTime))'
      /\ (time # Unwritten => szTime = _TimeToString(time))'
      /\ (nBegin \in Nat /\ nBegin \in IF szTime = NULL THEN {1} ELSE 1 .. Len(szTime))'
  BY <1>1 DEF IInv, Ended, _TimeToString, localtime, ShownAt
<1> QED BY <1>2, <1>3, <1>4, <1>5, <1>6, <1>7 DEF IInv

(* Every step keeps the invariant.                                         *)
LEMMA NextKeeps == IInv /\ [Next]_vars => IInv'
<1> SUFFICES ASSUME IInv, [Next]_vars PROVE IInv'
  OBVIOUS
<1>1. CASE Separate
  BY <1>1, SeparateKeeps
<1>2. CASE Convert
  BY <1>2, ConvertKeeps
<1>3. CASE UNCHANGED vars
  BY <1>3 DEF vars, IInv, Ended, NoPieceSkipped, InOrder, _TimeToString, localtime, ShownAt,
              mktime, sourcedate, Number
<1> QED BY <1>1, <1>2, <1>3 DEF Next

-----------------------------------------------------------------------------
(* Theorems                                                                *)

(* The inductive invariant on which the others rest.                       *)
THEOREM Invariance == Spec => []IInv
BY InitEstablishes, NextKeeps, PTL DEF Spec

(* Every reachable state is well-typed, whatever the text is.              *)
THEOREM TypeCorrect == Spec => []TypeOK
<1>1. IInv => TypeOK
  <2> SUFFICES ASSUME IInv PROVE TypeOK
    OBVIOUS
  <2>1. Len(szTime) \in Nat /\ nBegin \in Nat
    BY LenProperties DEF IInv
  <2>2. nBegin \in 1 .. Len(szTime) + 1
    BY <2>1 DEF IInv
  <2> QED BY <2>2 DEF IInv, TypeOK
<1> QED BY <1>1, Invariance, PTL

(* _StringToTime of a text whose separators come in order neither skips    *)
(* nor joins a piece.                                                      *)
THEOREM NeverSkipped == Spec => []NoPieceSkipped
<1>1. IInv => NoPieceSkipped
  BY DEF IInv
<1> QED BY <1>1, Invariance, PTL

(* The loop reads a text that is cut short as if it went on with zeros.    *)
LEMMA ReadsShortened ==
    ASSUME IInv, at # "searching", NEW t \in Instants, Shortened(szTime, _TimeToString(t))
    PROVE  at = "true" /\ tTime = Read(t)
<1> DEFINE whole == _TimeToString(t)
           tm == localtime(t)
<1>1. /\ t \in Int /\ ShownAt(t) \div Day \in Days
      /\ Len(whole) = 6 /\ DOMAIN whole = 1 .. 6 /\ InOrder(whole)
      /\ \A k \in 1 .. 6 : whole[k].number = Numbers(tm)[k] /\ whole[k].number \in Nat
  <2>1. t \in Int /\ ShownAt(t) \div Day \in Days
    BY InstantsAssumption
  <2> QED BY <2>1, TextOfTime, LenProperties
<1> HIDE DEF whole, tm
<1>2. PICK n \in 3 .. 6 : Len(szTime) = n /\ DOMAIN szTime = 1 .. n
  <2>1. DOMAIN szTime = 1 .. Len(szTime)
    BY LenProperties DEF IInv
  <2>2. Len(szTime) \in 3 .. 6
    BY <1>1 DEF Shortened, whole
  <2> QED BY <2>1, <2>2
<1>3. /\ \A k \in 1 .. n : /\ szTime[k].number = whole[k].number
                           /\ szTime[k].then = IF k = n THEN "end" ELSE whole[k].then
      /\ \A k \in n + 1 .. 6 : whole[k].number = 0
  BY <1>1, <1>2 DEF Shortened, whole
<1>4. InOrder(szTime)
  <2>1. Order["dash"] = 1 /\ Order["space"] = 2 /\ Order["colon"] = 3 /\ Order["end"] = 4
    BY DEF Order
  <2> SUFFICES ASSUME NEW i \in 1 .. n, NEW j \in 1 .. n, i < j
               PROVE  Order[szTime[i].then] <= Order[szTime[j].then]
    BY <1>2 DEF InOrder
  <2>2. i \in 1 .. 6 /\ j \in 1 .. 6 /\ i # n
    OBVIOUS
  <2>3. szTime[i].then = whole[i].then /\ szTime[i].then \in {"dash", "space", "colon", "end"}
    <3>1. szTime[i] \in Pieces
      BY ElementOfSeq, <1>2 DEF IInv
    <3> QED BY <1>3, <2>2, <3>1 DEF Pieces
  <2>4. CASE j = n
    BY <1>3, <2>1, <2>3, <2>4
  <2>5. CASE j # n
    BY <1>1, <1>3, <2>2, <2>3, <2>5 DEF InOrder
  <2> QED BY <2>4, <2>5
<1>5. /\ Len(vecNumber) = n /\ DOMAIN vecNumber = 1 .. n
      /\ \A k \in 1 .. n : vecNumber[k] = NumberOf(szTime[k])
      /\ at = "true" /\ tTime = mktime(sourcedate(vecNumber))
  <2>1. DOMAIN vecNumber = 1 .. Len(vecNumber)
    BY LenProperties DEF IInv
  <2>2. /\ Len(vecNumber) = n
        /\ \A k \in DOMAIN vecNumber : vecNumber[k] = NumberOf(szTime[k])
    BY <1>2, <1>4 DEF IInv, NoPieceSkipped, NumberOf
  <2>3. at = "true" /\ tTime = mktime(sourcedate(vecNumber))
    BY <2>2 DEF IInv
  <2> QED BY <2>1, <2>2, <2>3
<1>6. \A k \in 1 .. 6 : Number(vecNumber, k) = Numbers(tm)[k]
  <2> SUFFICES ASSUME NEW k \in 1 .. 6 PROVE Number(vecNumber, k) = Numbers(tm)[k]
    OBVIOUS
  <2>1. CASE k <= n
    <3>1. k \in 1 .. n /\ szTime[k].number = Numbers(tm)[k] /\ szTime[k].number \in Nat
      BY <1>1, <1>3, <2>1
    <3> QED BY <1>5, <2>1, <3>1 DEF Number, NumberOf, Nothing
  <2>2. CASE k > n
    <3>1. k \in n + 1 .. 6 /\ ~ (k <= n)
      BY <2>2
    <3> QED BY <1>1, <1>3, <1>5, <3>1 DEF Number
  <2> QED BY <2>1, <2>2
<1>7. vecNumber[1] = tm.date.year /\ vecNumber[2] = tm.date.month /\ vecNumber[3] = tm.date.day
      /\ Number(vecNumber, 4) = tm.hour /\ Number(vecNumber, 5) = tm.min
      /\ Number(vecNumber, 6) = tm.sec
  <2>1. 1 <= Len(vecNumber) /\ 2 <= Len(vecNumber) /\ 3 <= Len(vecNumber)
    BY <1>5
  <2> QED BY <1>6, <2>1 DEF Number, Numbers
<1>8. sourcedate(vecNumber) = tm
  <2>1. tm.date = [year |-> tm.date.year, month |-> tm.date.month, day |-> tm.date.day]
    BY <1>1, LocalTime DEF tm
  <2>2. tm = [date |-> tm.date, hour |-> tm.hour, min |-> tm.min, sec |-> tm.sec]
    BY DEF tm, localtime
  <2> QED BY <1>7, <2>1, <2>2 DEF sourcedate
<1> QED BY <1>5, <1>8, MakeTime DEF tm

(* A date with no time of day, or a part of one, is read as the time whose *)
(* text goes on with zeros, in every zone and for every calendar.          *)
THEOREM AlwaysAgree == Spec => []FormatsAgree
<1>1. IInv => FormatsAgree
  BY ReadsShortened DEF FormatsAgree
<1> QED BY <1>1, Invariance, PTL

(* A time that was written is read back, an hour later within daylight     *)
(* saving time, wherever and whenever the program runs.                    *)
THEOREM AlwaysReadBack == Spec => []RoundTrip
<1>1. IInv => RoundTrip
  <2> SUFFICES ASSUME IInv, time # Unwritten, at # "searching"
               PROVE  at = "true" /\ tTime = Read(time)
    BY DEF RoundTrip
  <2>1. time \in Instants /\ szTime = _TimeToString(time)
    BY DEF IInv
  <2>2. ShownAt(time) \div Day \in Days /\ time \in Int
    BY <2>1, InstantsAssumption
  <2>3. Len(szTime) = 6 /\ Ended(szTime) /\ DOMAIN szTime = 1 .. 6
    BY <2>1, <2>2, TextOfTime, LenProperties DEF IInv
  <2>4. Shortened(szTime, szTime)
    BY <2>3 DEF Shortened, Ended
  <2> QED BY <2>1, <2>4, ReadsShortened
<1> QED BY <1>1, Invariance, PTL

(* Two times have one text when the same time is shown for both.           *)
LEMMA SameText ==
    ASSUME NEW t \in Int, NEW u \in Int,
           ShownAt(t) \div Day \in Days, ShownAt(u) \div Day \in Days
    PROVE  _TimeToString(t) = _TimeToString(u) <=> ShownAt(t) = ShownAt(u)
<1>1. ShownAt(t) = ShownAt(u) => _TimeToString(t) = _TimeToString(u)
  BY DEF _TimeToString, localtime
<1>2. ASSUME _TimeToString(t) = _TimeToString(u)
      PROVE  ShownAt(t) = ShownAt(u)
  <2>1. \A k \in 1 .. 6 : Numbers(localtime(t))[k] = Numbers(localtime(u))[k]
    <3>1. \A k \in 1 .. 6 : _TimeToString(t)[k].number = Numbers(localtime(t))[k]
      BY TextOfTime
    <3>2. \A k \in 1 .. 6 : _TimeToString(u)[k].number = Numbers(localtime(u))[k]
      BY TextOfTime
    <3> QED BY <1>2, <3>1, <3>2
  <2>2. /\ localtime(t).date.year = localtime(u).date.year
        /\ localtime(t).date.month = localtime(u).date.month
        /\ localtime(t).date.day = localtime(u).date.day
        /\ localtime(t).hour = localtime(u).hour /\ localtime(t).min = localtime(u).min
        /\ localtime(t).sec = localtime(u).sec
    BY <2>1 DEF Numbers
  <2>3. /\ localtime(t).date = DateOf[ShownAt(t) \div Day]
        /\ localtime(t).date = [year |-> localtime(t).date.year,
                                month |-> localtime(t).date.month,
                                day |-> localtime(t).date.day]
        /\ ShownAt(t) = (ShownAt(t) \div Day) * Day
                          + localtime(t).hour * Hour + localtime(t).min * 60 + localtime(t).sec
    BY LocalTime
  <2>4. /\ localtime(u).date = DateOf[ShownAt(u) \div Day]
        /\ localtime(u).date = [year |-> localtime(u).date.year,
                                month |-> localtime(u).date.month,
                                day |-> localtime(u).date.day]
        /\ ShownAt(u) = (ShownAt(u) \div Day) * Day
                          + localtime(u).hour * Hour + localtime(u).min * 60 + localtime(u).sec
    BY LocalTime
  <2>5. DateOf[ShownAt(t) \div Day] = DateOf[ShownAt(u) \div Day]
    BY <2>2, <2>3, <2>4
  <2>6. ShownAt(t) \div Day = ShownAt(u) \div Day
    BY <2>5, CalendarAssumption
  <2> QED BY <2>2, <2>3, <2>4, <2>6
<1> QED BY <1>1, <1>2

(* ReadRecord finds the record of a listed time exactly when that is not   *)
(* within daylight saving time, or in its last hour.                       *)
THEOREM AlwaysFound == Spec => []FoundAgain
<1>1. IInv => FoundAgain
  <2> SUFFICES ASSUME IInv, time # Unwritten, at # "searching"
               PROVE  _TimeToString(tTime) = szTime
                        <=> time \notin SummerTime \/ time + Hour \notin SummerTime
    BY DEF FoundAgain
  <2>1. time \in Instants /\ szTime = _TimeToString(time)
    BY DEF IInv
  <2>2. /\ ShownAt(time) \div Day \in Days /\ ShownAt(time + Hour) \div Day \in Days
        /\ time \in Int /\ time + Hour \in Int
    BY <2>1, InstantsAssumption DEF Hour
  <2>3. Len(szTime) = 6 /\ Ended(szTime) /\ DOMAIN szTime = 1 .. 6
    BY <2>1, <2>2, TextOfTime, LenProperties DEF IInv
  <2>4. Shortened(szTime, szTime)
    BY <2>3 DEF Shortened, Ended
  <2>5. tTime = Read(time)
    BY <2>1, <2>4, ReadsShortened
  <2>6. CASE time \notin SummerTime
    BY <2>1, <2>2, <2>5, <2>6 DEF Read
  <2>7. CASE time \in SummerTime
    <3>1. tTime = time + Hour
      BY <2>5, <2>7 DEF Read
    <3>2. _TimeToString(time + Hour) = _TimeToString(time)
            <=> ShownAt(time + Hour) = ShownAt(time)
      BY <2>2, SameText
    <3>3. ShownAt(time + Hour) = ShownAt(time) <=> time + Hour \notin SummerTime
      BY <2>2, <2>7, CalendarAssumption DEF ShownAt, Hour
    <3> QED BY <2>1, <2>7, <3>1, <3>2, <3>3
  <2> QED BY <2>6, <2>7
<1> QED BY <1>1, Invariance, PTL
=============================================================================
