----------------------------- MODULE DataLemmas -----------------------------
(***************************************************************************)
(* What the proofs about several modules use of sequences and of sets of   *)
(* natural numbers.                                                        *)
(***************************************************************************)
EXTENDS Integers, Sequences, FiniteSetsExt, SequenceTheorems, WellFoundedInduction, TLAPS

(* The least of some natural numbers is one of them.                       *)
LEMMA MinIsLeast ==
    ASSUME NEW S, S \subseteq Nat, S # {}
    PROVE  Min(S) \in S /\ \A x \in S : Min(S) <= x
<1> DEFINE Less == {ss \in Nat \X Nat : ss[1] < ss[2]}
<1>1. IsWellFoundedOn(Less, Nat)
  BY NatLessThanWellFounded DEF OpToRel
<1>2. PICK x \in S : \A y \in S : ~ (<<y, x>> \in Less)
  <2> HIDE DEF Less
  <2> QED BY <1>1, WFMin
<1>3. ASSUME NEW y \in S, y < x PROVE FALSE
  <2>1. <<y, x>> \in Nat \X Nat /\ <<y, x>>[1] < <<y, x>>[2]
    BY <1>3
  <2> QED BY <1>2, <2>1
<1>4. \A y \in S : x <= y
  BY <1>3
<1> QED BY <1>4 DEF Min

(* An interval from one on has one end.                                    *)
LEMMA SameInterval ==
    ASSUME NEW a \in Nat, NEW b \in Nat, 1 .. a = 1 .. b
    PROVE  a = b
<1>1. CASE a < b
  <2>1. b \in 1 .. b /\ b \notin 1 .. a
    BY <1>1
  <2> QED BY <2>1
<1>2. CASE b < a
  <2>1. a \in 1 .. a /\ a \notin 1 .. b
    BY <1>2
  <2> QED BY <2>1
<1> QED BY <1>1, <1>2

(* after is before with x at its end.                                      *)
Appended(before, after, x) ==
    /\ Len(before) \in Nat
    /\ DOMAIN before = 1 .. Len(before)
    /\ DOMAIN after = 1 .. Len(before) + 1
    /\ Len(after) = Len(before) + 1
    /\ \A i \in DOMAIN before : after[i] = before[i]
    /\ after[Len(before) + 1] = x

(* What Append does, place by place.                                       *)
LEMMA AppendPlaces ==
    ASSUME NEW S, NEW s \in Seq(S), NEW e \in S
    PROVE  Appended(s, Append(s, e), e)
BY AppendProperties, LenProperties DEF Appended

-----------------------------------------------------------------------------
(* Induction and recursion                                                 *)

(* Induction: a set that holds zero and with each number the next one      *)
(* holds every natural number. The statement is about a set, as no prover  *)
(* can instantiate the library's theorems, which are about an operator.    *)
LEMMA SetInduction ==
    ASSUME NEW T, 0 \in T, \A n \in Nat : n \in T => n + 1 \in T
    PROVE  Nat \subseteq T
<1> DEFINE Rest == Nat \ T
<1>1. SUFFICES ASSUME Rest # {} PROVE FALSE
  OBVIOUS
<1>2. PICK m \in Rest : \A x \in Rest : m <= x
  <2>1. Rest \subseteq Nat
    OBVIOUS
  <2> HIDE DEF Rest
  <2> QED BY <1>1, <2>1, MinIsLeast
<1>3. m - 1 \in Nat /\ m - 1 \notin Rest /\ m = (m - 1) + 1
  BY <1>2
<1> QED BY <1>2, <1>3

(* The recursive functions of 1 .. N: every call is one of zero or one     *)
(* that is nearer to the end, of less depth.                               *)
IsRecursion(N, S, base, next, step, depth) ==
    /\ N \in Nat
    /\ base \in S
    /\ next \in [1 .. N -> 0 .. N]
    /\ step \in [(1 .. N) \X S -> S]
    /\ depth \in [1 .. N -> 0 .. N]
    /\ \A m \in 1 .. N : next[m] = 0 \/ depth[next[m]] < depth[m]

(* There are such functions.                                               *)
LEMMA Recursion ==
    ASSUME NEW N, NEW S, NEW base, NEW next, NEW step, NEW depth,
           IsRecursion(N, S, base, next, step, depth)
    PROVE  \E f \in [0 .. N -> S] : f[0] = base /\ \A m \in 1 .. N : f[m] = step[<<m, f[next[m]]>>]
<1> USE DEF IsRecursion
<1> DEFINE Follows(f, m) == f[m] = step[<<m, f[next[m]]>>]
           Upto(k) == \E f \in [0 .. N -> S] :
                         f[0] = base /\ \A m \in 1 .. N : depth[m] < k => Follows(f, m)
           T == {k \in Nat : Upto(k)}
<1>1. 0 \in T
  <2>1. [m \in 0 .. N |-> base] \in [0 .. N -> S] /\ [m \in 0 .. N |-> base][0] = base
    OBVIOUS
  <2>2. \A m \in 1 .. N : ~ (depth[m] < 0)
    OBVIOUS
  <2> QED BY <2>1, <2>2
<1>2. ASSUME NEW k \in Nat, k \in T PROVE k + 1 \in T
  <2>1. PICK f \in [0 .. N -> S] :
          f[0] = base /\ \A m \in 1 .. N : depth[m] < k => Follows(f, m)
    BY <1>2
  <2> DEFINE g == [m \in 0 .. N |-> IF m # 0 /\ depth[m] = k THEN step[<<m, f[next[m]]>>] ELSE f[m]]
  <2>2. \A m \in 1 .. N : step[<<m, f[next[m]]>>] \in S
    OBVIOUS
  <2>3. g \in [0 .. N -> S] /\ g[0] = base
    BY <2>1, <2>2
  <2>4. ASSUME NEW m \in 1 .. N, depth[m] < k + 1 PROVE Follows(g, m)
    <3>1. next[m] \in 0 .. N /\ (next[m] = 0 \/ (next[m] \in 1 .. N /\ depth[next[m]] < k))
      BY <2>4
    <3>2. g[next[m]] = f[next[m]]
      BY <3>1
    <3>3. CASE depth[m] = k
      BY <3>2, <3>3
    <3>4. CASE depth[m] # k
      <4>1. depth[m] < k /\ g[m] = f[m]
        BY <2>4, <3>4
      <4> HIDE DEF g
      <4> QED BY <2>1, <3>2, <4>1
    <3> QED BY <3>3, <3>4
  <2> HIDE DEF g, Follows
  <2> QED BY <2>3, <2>4
<1>3. Nat \subseteq T
  <2> HIDE DEF T
  <2> QED BY <1>1, <1>2, SetInduction
<1>4. N + 1 \in T
  <2> HIDE DEF T
  <2> QED BY <1>3
<1>5. PICK f \in [0 .. N -> S] : f[0] = base /\ \A m \in 1 .. N : depth[m] < N + 1 => Follows(f, m)
  BY <1>4
<1>6. \A m \in 1 .. N : depth[m] < N + 1
  OBVIOUS
<1> QED BY <1>5, <1>6
=============================================================================
