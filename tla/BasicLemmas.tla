---------------------------- MODULE BasicLemmas ----------------------------
(***************************************************************************)
(* What the proofs about several components need to know of numbers and of *)
(* sequences from which elements are removed.  Everything that is defined  *)
(* by recursion along the numbers is reasoned about by the least number    *)
(* for which a claim is wrong.                                             *)
(***************************************************************************)
EXTENDS Removal, SequenceTheorems, WellFoundedInduction, NaturalsInduction, TLAPS

-----------------------------------------------------------------------------
(* A set of numbers that is not empty has a least one.                     *)
LEMMA LeastNat ==
    ASSUME NEW S \in SUBSET Nat, S # {}
    PROVE  \E n \in S : \A m \in S : n <= m
<1>1. IsWellFoundedOn(OpToRel(<, Nat), Nat)
  BY NatLessThanWellFounded
<1>2. PICK R : R = OpToRel(<, Nat)
  OBVIOUS
<1>3. \A m, n \in Nat : m < n => <<m, n>> \in R
  BY <1>2 DEF OpToRel
<1>4. PICK n \in S : \A m \in S : ~(<<m, n>> \in R)
  BY <1>1, <1>2, WFMin
<1>5. \A m \in S : ~(m < n)
  BY <1>3, <1>4
<1>6. QED
  BY <1>5

(* A set that contains 0 and with every number the next contains them all. *)
LEMMA Induct ==
    ASSUME NEW S, 0 \in S, \A n \in Nat : n \in S => n + 1 \in S
    PROVE  Nat \subseteq S
<1>1. SUFFICES ASSUME Nat \ S # {} PROVE FALSE
  OBVIOUS
<1>2. PICK n \in Nat \ S : \A m \in Nat \ S : n <= m
  BY <1>1, LeastNat
<1>3. n - 1 \in Nat /\ n - 1 \in S
  BY <1>2
<1>4. QED
  BY <1>2, <1>3


-----------------------------------------------------------------------------
(* The recursion of AllBut: what f[n] is after f[n - 1].                   *)
Kept(seq, S, n, before) == IF seq[n] \in S THEN before ELSE Append(before, seq[n])

Filters(seq, S, T, f, N) ==
    /\ f \in [0 .. N -> Seq(T)]
    /\ f[0] = <<>>
    /\ \A n \in 1 .. N : f[n] = Kept(seq, S, n, f[n - 1])

LEMMA FilterExists ==
    ASSUME NEW T, NEW seq \in Seq(T), NEW S
    PROVE  \E f : Filters(seq, S, T, f, Len(seq))
<1> DEFINE K == {N \in Nat : N <= Len(seq) => \E f : Filters(seq, S, T, f, N)}
<1>0. Len(seq) \in Nat /\ \A n \in 1 .. Len(seq) : seq[n] \in T
  BY LenProperties, ElementOfSeq
<1>1. 0 \in K
  <2>1. <<>> \in Seq(T)
    BY EmptySeq
  <2>2. PICK e : e = <<>>
    OBVIOUS
  <2>3. PICK f : f = [n \in 0 .. 0 |-> e]
    OBVIOUS
  <2>4. f \in [0 .. 0 -> Seq(T)] /\ f[0] = e /\ 1 .. 0 = {}
    BY <2>1, <2>2, <2>3
  <2>5. Filters(seq, S, T, f, 0)
    BY <2>2, <2>4 DEF Filters
  <2> QED BY <2>5
<1>2. ASSUME NEW N \in Nat, N \in K PROVE N + 1 \in K
  <2>1. SUFFICES ASSUME N + 1 <= Len(seq) PROVE \E f : Filters(seq, S, T, f, N + 1)
    OBVIOUS
  <2>2. PICK f : Filters(seq, S, T, f, N)
    BY <1>0, <1>2, <2>1
  <2>3. PICK x : x = Kept(seq, S, N + 1, f[N])
    OBVIOUS
  <2>4. f \in [0 .. N -> Seq(T)] /\ f[N] \in Seq(T) /\ seq[N + 1] \in T
    BY <1>0, <2>1, <2>2 DEF Filters
  <2>5. x \in Seq(T)
    BY <2>3, <2>4, AppendProperties DEF Kept
  <2>6. PICK g : g = [n \in 0 .. N + 1 |-> IF n <= N THEN f[n] ELSE x]
    OBVIOUS
  <2>7. g \in [0 .. N + 1 -> Seq(T)]
    BY <2>4, <2>5, <2>6
  <2>8. g[0] = <<>>
    <3>1. g[0] = f[0]
      BY <2>6
    <3> QED BY <2>2, <3>1 DEF Filters
  <2>9. ASSUME NEW n \in 1 .. N + 1 PROVE g[n] = Kept(seq, S, n, g[n - 1])
    <3>1. n - 1 \in 0 .. N /\ g[n - 1] = f[n - 1]
      BY <2>6
    <3>2. CASE n = N + 1
      BY <2>3, <2>6, <3>1, <3>2
    <3>3. CASE n # N + 1
      <4>1. n \in 1 .. N /\ g[n] = f[n]
        BY <2>6, <3>3
      <4> QED BY <2>2, <3>1, <4>1 DEF Filters
    <3> QED BY <3>2, <3>3
  <2>10. Filters(seq, S, T, g, N + 1)
    BY <2>7, <2>8, <2>9 DEF Filters
  <2> QED BY <2>10
<1>3. Nat \subseteq K
  <2> HIDE DEF K
  <2> QED BY <1>1, <1>2, Induct
<1> QED BY <1>0, <1>3

(* AllBut is the last value of that recursion.                             *)
LEMMA AllButFilters ==
    ASSUME NEW T, NEW seq \in Seq(T), NEW S
    PROVE  \E f : Filters(seq, S, T, f, Len(seq)) /\ AllBut(seq, S) = f[Len(seq)]
<1> DEFINE Body(g) == [n \in 0 .. Len(seq) |->
                         IF n = 0 THEN <<>>
                         ELSE IF seq[n] \in S THEN g[n - 1] ELSE Append(g[n - 1], seq[n])]
<1>1. PICK f : Filters(seq, S, T, f, Len(seq))
  BY FilterExists
<1>2. Len(seq) \in Nat
  BY LenProperties
<1>3. f = Body(f)
  <2>1. PICK e : e = <<>>
    OBVIOUS
  <2>2. f \in [0 .. Len(seq) -> Seq(T)] /\ f[0] = e
    BY <1>1, <2>1 DEF Filters
  <2>3. ASSUME NEW n \in 0 .. Len(seq), n # 0
        PROVE  f[n] = (IF seq[n] \in S THEN f[n - 1] ELSE Append(f[n - 1], seq[n]))
    <3>1. n \in 1 .. Len(seq)
      BY <1>2, <2>3
    <3>2. f[n] = Kept(seq, S, n, f[n - 1])
      BY <1>1, <3>1 DEF Filters
    <3> QED BY <3>2, Zenon DEF Kept
  <2> QED BY <2>1, <2>2, <2>3, Zenon
<1>4. PICK g : g = CHOOSE h : h = Body(h)
  OBVIOUS
<1>5. g = Body(g)
  BY <1>3, <1>4, Zenon
<1>6. AllBut(seq, S) = g[Len(seq)]
  BY <1>4, Zenon DEF AllBut
<1>7. \A n \in 0 .. Len(seq) : g[n] = f[n]
  <2> DEFINE K == {n \in Nat : n <= Len(seq) => g[n] = f[n]}
  <2>1. PICK e : e = <<>>
    OBVIOUS
  <2>2. 0 \in 0 .. Len(seq)
    BY <1>2
  <2>3. g[0] = e
    BY <1>5, <2>1, <2>2, Zenon
  <2>4. f[0] = e
    BY <1>1, <2>1 DEF Filters
  <2>5. 0 \in K
    BY <2>3, <2>4
  <2>6. ASSUME NEW n \in Nat, n \in K PROVE n + 1 \in K
    <3>1. SUFFICES ASSUME n + 1 <= Len(seq) PROVE g[n + 1] = f[n + 1]
      OBVIOUS
    <3>2. n + 1 \in 1 .. Len(seq) /\ n + 1 \in 0 .. Len(seq) /\ n + 1 # 0 /\ (n + 1) - 1 = n
      BY <1>2, <3>1
    <3>3. g[n] = f[n]
      BY <1>2, <2>6, <3>1
    <3>4. PICK m : m = n + 1
      OBVIOUS
    <3>5. g[m] = IF seq[m] \in S THEN g[m - 1] ELSE Append(g[m - 1], seq[m])
      BY <1>5, <3>2, <3>4, Zenon
    <3>6. f[m] = Kept(seq, S, m, f[m - 1])
      BY <1>1, <3>2, <3>4 DEF Filters
    <3> QED BY <3>2, <3>3, <3>4, <3>5, <3>6 DEF Kept
  <2>7. Nat \subseteq K
    <3> HIDE DEF K
    <3> QED BY <2>5, <2>6, Induct
  <2> QED BY <1>2, <2>7
<1> QED BY <1>1, <1>2, <1>6, <1>7

(* What AllBut returns.                                                   *)
LEMMA AllButFacts ==
    ASSUME NEW T, NEW seq \in Seq(T), NEW S
    PROVE  /\ AllBut(seq, S) \in Seq(T)
           /\ \A i \in DOMAIN AllBut(seq, S) : AllBut(seq, S)[i] \notin S
           /\ \A i \in DOMAIN AllBut(seq, S) : \E j \in DOMAIN seq : AllBut(seq, S)[i] = seq[j]
           /\ Distinct(seq) => Distinct(AllBut(seq, S))
<1>1. PICK f : Filters(seq, S, T, f, Len(seq)) /\ AllBut(seq, S) = f[Len(seq)]
  BY AllButFilters
<1>2. Len(seq) \in Nat /\ DOMAIN seq = 1 .. Len(seq) /\ \A n \in 1 .. Len(seq) : seq[n] \in T
  BY LenProperties, ElementOfSeq
<1> DEFINE Good(n, w) ==
             /\ w \in Seq(T)
             /\ \A i \in DOMAIN w : w[i] \notin S /\ \E j \in 1 .. n : w[i] = seq[j]
             /\ Distinct(seq) => Distinct(w)
           K == {n \in Nat : n <= Len(seq) => Good(n, f[n])}
<1>3. 0 \in K
  <2>1. PICK e : e = <<>>
    OBVIOUS
  <2>2. e \in Seq(T) /\ DOMAIN e = {}
    BY <2>1, EmptySeq
  <2>3. f[0] = e
    BY <1>1, <2>1 DEF Filters
  <2>4. Good(0, e)
    BY <2>2 DEF Distinct
  <2> QED BY <2>3, <2>4
<1>4. ASSUME NEW n \in Nat, n \in K PROVE n + 1 \in K
  <2>1. SUFFICES ASSUME n + 1 <= Len(seq) PROVE Good(n + 1, f[n + 1])
    OBVIOUS
  <2>2. PICK w : w = f[n]
    OBVIOUS
  <2>3. Good(n, w)
    BY <1>2, <1>4, <2>1, <2>2
  <2>4. PICK m : m = n + 1
    OBVIOUS
  <2>5. m \in 1 .. Len(seq) /\ m - 1 = n /\ seq[m] \in T /\ \A j \in 1 .. n : j \in 1 .. m /\ j # m
    BY <1>2, <2>1, <2>4
  <2>6. f[m] = Kept(seq, S, m, w)
    BY <1>1, <2>2, <2>5 DEF Filters
  <2>7. CASE seq[m] \in S
    <3>1. f[m] = w
      BY <2>6, <2>7 DEF Kept
    <3>2. Good(m, w)
      BY <2>3, <2>5
    <3> QED BY <2>4, <3>1, <3>2
  <2>8. CASE seq[m] \notin S
    <3>1. PICK v : v = Append(w, seq[m])
      OBVIOUS
    <3>2. f[m] = v
      BY <2>6, <2>8, <3>1 DEF Kept
    <3>3. /\ v \in Seq(T) /\ Len(v) = Len(w) + 1 /\ v[Len(w) + 1] = seq[m]
          /\ \A i \in 1 .. Len(w) : v[i] = w[i]
      BY <2>3, <2>5, <3>1, AppendProperties
    <3>4. DOMAIN v = 1 .. Len(w) + 1 /\ DOMAIN w = 1 .. Len(w) /\ Len(w) \in Nat
      BY <2>3, <3>3, LenProperties
    <3>5. \A i \in DOMAIN v : (i \in DOMAIN w /\ v[i] = w[i]) \/ (i = Len(w) + 1 /\ v[i] = seq[m])
      <4>1. SUFFICES ASSUME NEW i \in DOMAIN v
                     PROVE  (i \in DOMAIN w /\ v[i] = w[i]) \/ (i = Len(w) + 1 /\ v[i] = seq[m])
        OBVIOUS
      <4>2. CASE i = Len(w) + 1
        BY <3>3, <4>2
      <4>3. CASE i # Len(w) + 1
        <5>1. i \in 1 .. Len(w)
          BY <3>4, <4>3
        <5> QED BY <3>3, <3>4, <5>1
      <4> QED BY <4>2, <4>3
    <3>6. \A i \in DOMAIN v : v[i] \notin S /\ \E j \in 1 .. m : v[i] = seq[j]
      BY <2>3, <2>5, <2>8, <3>5
    <3>7. ASSUME Distinct(seq) PROVE Distinct(v)
      <4>1. Distinct(w)
        BY <2>3, <3>7
      <4>2. \A i \in DOMAIN w : w[i] # seq[m]
        <5>1. SUFFICES ASSUME NEW i \in DOMAIN w PROVE w[i] # seq[m]
          OBVIOUS
        <5>2. PICK j \in 1 .. n : w[i] = seq[j]
          BY <2>3
        <5>3. j \in DOMAIN seq /\ m \in DOMAIN seq /\ j # m
          BY <1>2, <2>1, <2>4, <2>5
        <5> QED BY <3>7, <5>2, <5>3 DEF Distinct
      <4> QED BY <3>5, <4>1, <4>2 DEF Distinct
    <3>8. Good(m, v)
      BY <3>3, <3>6, <3>7
    <3> QED BY <2>4, <3>2, <3>8
  <2> QED BY <2>7, <2>8
<1>5. Nat \subseteq K
  <2> HIDE DEF K
  <2> QED BY <1>3, <1>4, Induct
<1>6. Good(Len(seq), f[Len(seq)])
  BY <1>2, <1>5
<1> QED BY <1>1, <1>2, <1>6

(* ... and that it keeps all the others.                                   *)
LEMMA AllButKeeps ==
    ASSUME NEW T, NEW seq \in Seq(T), NEW S
    PROVE  \A j \in DOMAIN seq : seq[j] \notin S =>
               \E i \in DOMAIN AllBut(seq, S) : AllBut(seq, S)[i] = seq[j]
<1>1. PICK f : Filters(seq, S, T, f, Len(seq)) /\ AllBut(seq, S) = f[Len(seq)]
  BY AllButFilters
<1>2. Len(seq) \in Nat /\ DOMAIN seq = 1 .. Len(seq) /\ \A n \in 1 .. Len(seq) : seq[n] \in T
  BY LenProperties, ElementOfSeq
<1> DEFINE Good(n, w) == \A j \in 1 .. n : seq[j] \notin S => \E i \in DOMAIN w : w[i] = seq[j]
           K == {n \in Nat : n <= Len(seq) => Good(n, f[n])}
<1>3. 0 \in K
  OBVIOUS
<1>4. ASSUME NEW n \in Nat, n \in K PROVE n + 1 \in K
  <2>1. SUFFICES ASSUME n + 1 <= Len(seq) PROVE Good(n + 1, f[n + 1])
    OBVIOUS
  <2>2. PICK m : m = n + 1
    OBVIOUS
  <2>3. PICK w : w = f[n]
    OBVIOUS
  <2>4. /\ m \in 1 .. Len(seq) /\ m - 1 = n /\ n \in 0 .. Len(seq) /\ seq[m] \in T
        /\ \A j \in 1 .. m : j \in 1 .. n \/ j = m
    BY <1>2, <2>1, <2>2
  <2>5. Good(n, w) /\ w \in Seq(T) /\ f[m] = Kept(seq, S, m, w)
    BY <1>1, <1>2, <1>4, <2>1, <2>3, <2>4 DEF Filters
  <2>6. CASE seq[m] \in S
    <3>1. f[m] = w
      BY <2>5, <2>6 DEF Kept
    <3> QED BY <2>2, <2>4, <2>5, <2>6, <3>1
  <2>7. CASE seq[m] \notin S
    <3>1. PICK v : v = Append(w, seq[m])
      OBVIOUS
    <3>2. f[m] = v
      BY <2>5, <2>7, <3>1 DEF Kept
    <3>3. /\ v \in Seq(T) /\ Len(v) = Len(w) + 1 /\ v[Len(w) + 1] = seq[m]
          /\ \A i \in 1 .. Len(w) : v[i] = w[i]
      BY <2>4, <2>5, <3>1, AppendProperties
    <3>4. DOMAIN v = 1 .. Len(w) + 1 /\ DOMAIN w = 1 .. Len(w) /\ Len(w) \in Nat
      BY <2>5, <3>3, LenProperties
    <3>5. \A i \in DOMAIN w : i \in DOMAIN v /\ v[i] = w[i]
      BY <3>3, <3>4
    <3>6. Len(w) + 1 \in DOMAIN v
      BY <3>4
    <3>7. Good(m, v)
      BY <2>4, <2>5, <3>3, <3>5, <3>6
    <3> QED BY <2>2, <3>2, <3>7
  <2> QED BY <2>6, <2>7
<1>5. Nat \subseteq K
  <2> HIDE DEF K
  <2> QED BY <1>3, <1>4, Induct
<1> QED BY <1>1, <1>2, <1>5
=============================================================================
