-------------------------- MODULE RecursionProofs --------------------------
(***************************************************************************)
(* Induction over the naturals, stated for a set instead of a predicate,   *)
(* and the existence of a function given by its steps.  A definition       *)
(* f[k \in 0..n] == IF k = 0 THEN ... ELSE ... f[k - 1] ... chooses a      *)
(* function with that equation: what it computes is known once some        *)
(* function has it.                                                        *)
(***************************************************************************)
EXTENDS Naturals, Sequences, SequenceTheorems, WellFoundedInduction, TLAPS

LEMMA SetInduction ==
    ASSUME NEW T, 0 \in T, \A n \in Nat : n \in T => n + 1 \in T
    PROVE  Nat \subseteq T
<1> SUFFICES ASSUME Nat \ T # {} PROVE FALSE
  OBVIOUS
<1> DEFINE before == OpToRel(<, Nat)
<1>1. \A a, b \in Nat : a < b => <<a, b>> \in before
  BY DEF OpToRel
<1>2. IsWellFoundedOn(before, Nat)
  BY NatLessThanWellFounded
<1> HIDE DEF before
<1>3. PICK x \in Nat \ T : \A y \in Nat \ T : ~(<<y, x>> \in before)
  BY <1>2, WFMin
<1>4. x - 1 \in Nat
  OBVIOUS
<1>5. <<x - 1, x>> \in before
  BY <1>1, <1>4
<1> QED BY <1>3, <1>4, <1>5

LEMMA BoundedInduction ==
    ASSUME NEW n \in Nat, NEW T, 0 \in T, \A k \in 1..n : k - 1 \in T => k \in T
    PROVE  0..n \subseteq T
<1> DEFINE U == {k \in Nat : k <= n => k \in T}
<1>1. 0 \in U
  OBVIOUS
<1>2. ASSUME NEW k \in Nat, k \in U PROVE k + 1 \in U
  <2>1. CASE k + 1 <= n
    <3>1. k \in T /\ k + 1 \in 1..n /\ (k + 1) - 1 = k
      BY <1>2, <2>1
    <3>2. k + 1 \in T
      BY <3>1
    <3> QED BY <3>2
  <2>2. CASE ~(k + 1 <= n)
    BY <2>2
  <2> QED BY <2>1, <2>2
<1> HIDE DEF U
<1>3. Nat \subseteq U
  BY <1>1, <1>2, SetInduction
<1> QED BY <1>3 DEF U

HasRecursion(D, base, n, step) ==
    \E f \in [0..n -> D] : f[0] = base /\ \A k \in 1..n : f[k] = step[k][f[k - 1]]

LEMMA RecursionExists ==
    ASSUME NEW D, NEW base \in D, NEW n \in Nat, NEW step \in [1..n -> [D -> D]]
    PROVE  HasRecursion(D, base, n, step)
<1> DEFINE Computes(m, f) == f[0] = base /\ \A k \in 1..m : f[k] = step[k][f[k - 1]]
           T == {m \in Nat : \E f \in [0..m -> D] : Computes(m, f)}
<1>1. 0 \in T
  <2> DEFINE f == [k \in 0..0 |-> base]
  <2>1. f \in [0..0 -> D] /\ Computes(0, f)
    OBVIOUS
  <2> QED BY <2>1
<1>2. ASSUME NEW m \in 1..n, m - 1 \in T PROVE m \in T
  <2>1. PICK f \in [0..(m - 1) -> D] : Computes(m - 1, f)
    BY <1>2
  <2> DEFINE g == [k \in 0..m |-> IF k = m THEN step[m][f[m - 1]] ELSE f[k]]
  <2>2. m - 1 \in 0..(m - 1) /\ f[m - 1] \in D /\ step[m] \in [D -> D]
    OBVIOUS
  <2>3. g \in [0..m -> D]
    BY <2>2
  <2>4. g[0] = base /\ g[m] = step[m][g[m - 1]]
    BY <2>1, <2>2
  <2>5. ASSUME NEW k \in 1..(m - 1) PROVE g[k] = step[k][g[k - 1]]
    <3>1. k # m /\ k - 1 # m /\ k \in 0..m /\ k - 1 \in 0..m
      OBVIOUS
    <3>2. g[k] = f[k] /\ g[k - 1] = f[k - 1]
      BY <3>1
    <3> QED BY <2>1, <3>2
  <2>6. Computes(m, g)
    <3>1. ASSUME NEW k \in 1..m PROVE g[k] = step[k][g[k - 1]]
      <4>1. k = m \/ k \in 1..(m - 1)
        OBVIOUS
      <4> HIDE DEF g
      <4> QED BY <2>4, <2>5, <4>1
    <3> QED BY <2>4, <3>1
  <2>7. m \in Nat
    OBVIOUS
  <2> HIDE DEF g, Computes
  <2> QED BY <2>3, <2>6, <2>7
<1> HIDE DEF T
<1>3. n \in T
  <2>1. 0..n \subseteq T
    BY <1>1, <1>2, BoundedInduction
  <2> QED BY <2>1
<1> QED BY <1>3 DEF T, HasRecursion

-----------------------------------------------------------------------------
(* The two ends of a sequence                                              *)

LEMMA NotEmpty ==
    ASSUME NEW S, NEW s \in Seq(S), NEW m \in Nat, Len(s) = m + 1 PROVE s # <<>>
BY EmptySeq

LEMMA LastApart ==
    ASSUME NEW S, NEW s \in Seq(S), s # <<>>
    PROVE  \E front \in Seq(S), x \in S : s = Append(front, x) /\ Len(front) = Len(s) - 1
<1>1. PICK front \in Seq(S), x \in S : s = Append(front, x)
  BY SequenceEmptyOrAppend
<1>2. Len(front) = Len(s) - 1
  BY <1>1, AppendProperties
<1> QED BY <1>1, <1>2

LEMMA LastOfConcat ==
    ASSUME NEW S, NEW front \in Seq(S), NEW end \in Seq(S), NEW last \in S
    PROVE  Append(front \o end, last) = front \o Append(end, last)
<1>1. <<last>> \in Seq(S) /\ front \o end \in Seq(S)
  OBVIOUS
<1>2. Append(front \o end, last) = (front \o end) \o <<last>> /\ Append(end, last) = end \o <<last>>
  BY <1>1, AppendIsConcat
<1>3. (front \o end) \o <<last>> = front \o (end \o <<last>>)
  BY <1>1, ConcatAssociative
<1> QED BY <1>2, <1>3

LEMMA FirstApart ==
    ASSUME NEW S, NEW x \in S, NEW rest \in Seq(S), NEW whole, whole = <<x>> \o rest
    PROVE  whole # <<>> /\ Head(whole) = x /\ Tail(whole) = rest
<1>1. <<x>> \in Seq(S) /\ Len(<<x>>) = 1 /\ <<x>>[1] = x /\ Len(rest) \in Nat
  OBVIOUS
<1>2. /\ whole \in Seq(S) /\ Len(whole) = 1 + Len(rest) /\ whole[1] = x
      /\ \A i \in 1..Len(rest) : whole[i + 1] = rest[i]
  BY <1>1, ConcatProperties
<1>3. whole # <<>>
  BY <1>1, <1>2
<1>4. /\ Head(whole) = x /\ Tail(whole) \in Seq(S) /\ Len(Tail(whole)) = Len(rest)
      /\ \A i \in 1..Len(rest) : Tail(whole)[i] = rest[i]
  BY <1>1, <1>2, <1>3, HeadTailProperties
<1>5. Tail(whole) = rest
  BY <1>4, SeqEqual
<1> QED BY <1>3, <1>4, <1>5

LEMMA FirstOfConcat ==
    ASSUME NEW S, NEW x \in S, NEW front \in Seq(S), NEW end \in Seq(S), NEW whole,
           whole = (<<x>> \o front) \o end
    PROVE  whole # <<>> /\ Head(whole) = x /\ Tail(whole) = front \o end
<1>1. <<x>> \in Seq(S) /\ front \o end \in Seq(S)
  OBVIOUS
<1>2. whole = <<x>> \o (front \o end)
  BY <1>1, ConcatAssociative
<1> QED BY <1>1, <1>2, FirstApart
=============================================================================
