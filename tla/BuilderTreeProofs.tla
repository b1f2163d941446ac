--------------------------- MODULE BuilderTreeProofs ---------------------------
(***************************************************************************)
(* What the operations of BuilderTree do to every document: each keeps the *)
(* tree a tree and the columns of a section within one row.  The induction *)
(* that recursive definitions need goes by least counterexamples.          *)
(***************************************************************************)
EXTENDS BuilderTree, TLAPS, FiniteSetTheorems, SequenceTheorems

(* Natural numbers are well founded.                                       *)
LEMMA LeastNat ==
  ASSUME NEW S \in SUBSET Nat, S # {}
  PROVE  \E m \in S : \A n \in S : m <= n
<1>1. IsWellFoundedOn(OpToRel(<, Nat), Nat)
  BY NatLessThanWellFounded
<1>2. PICK m \in S : \A n \in S : ~ (<<n, m>> \in OpToRel(<, Nat))
  <2> HIDE DEF OpToRel
  <2>1. QED BY <1>1, WFMin, Zenon
<1>3. \A n \in S : ~(n < m)
  BY <1>2 DEF OpToRel
<1>4. QED BY <1>3

\* Induction over numbers, for a set instead of an operator.
LEMMA Induct ==
  ASSUME NEW S \in SUBSET Nat, 0 \in S, \A n \in S : n + 1 \in S
  PROVE  \A n \in Nat : n \in S
<1> DEFINE bad == {n \in Nat : n \notin S}
<1>1. SUFFICES ASSUME bad # {} PROVE FALSE
  OBVIOUS
<1>2. PICK m \in bad : \A n \in bad : m <= n
  <2>1. bad \in SUBSET Nat
    OBVIOUS
  <2> HIDE DEF bad
  <2>2. QED BY <1>1, <2>1, LeastNat
<1>3. m \in Nat \ {0}
  BY <1>2
<1>4. m - 1 \in S
  BY <1>2, <1>3
<1>5. QED BY <1>2, <1>3, <1>4

-----------------------------------------------------------------------------
(* Sums of lists of numbers.                                               *)

\* What a list of elements of S is.
LEMMA NumberAt ==
  ASSUME NEW S, NEW s \in Seq(S)
  PROVE  Len(s) \in Nat /\ DOMAIN s = 1..Len(s) /\ \A i \in 1..Len(s) : s[i] \in S
BY LenProperties

(* The sums of the first numbers of a list, as SumOf computes them.        *)
UpTo(numbers) ==
  CHOOSE upTo : upTo = [i \in 0..Len(numbers) |->
    IF i = 0 THEN 0 ELSE upTo[i - 1] + numbers[i]]

\* The recursion of SumOf has a solution: partial sums can be built up.
LEMMA UpToExists ==
  ASSUME NEW s \in Seq(Nat)
  PROVE  \E f : f = [i \in 0..Len(s) |-> IF i = 0 THEN 0 ELSE f[i - 1] + s[i]]
<1> DEFINE sums(f, k) == f = [i \in 0..k |-> IF i = 0 THEN 0 ELSE f[i - 1] + s[i]]
           good == {k \in Nat : \E f : sums(f, k)}
<1>1. 0 \in good
  <2>1. sums([i \in 0..0 |-> 0], 0)
    OBVIOUS
  <2>2. QED BY <2>1
<1>2. ASSUME NEW k \in good PROVE k + 1 \in good
  <2>1. PICK f : sums(f, k)
    BY <1>2
  <2>0. k \in Nat
    OBVIOUS
  <2> DEFINE g == [i \in 0..(k + 1) |-> IF i = k + 1 THEN f[k] + s[k + 1] ELSE f[i]]
  <2>3. \A i \in 0..k : f[i] = IF i = 0 THEN 0 ELSE f[i - 1] + s[i]
    BY <2>1
  <2> HIDE <1>2
  <2>4. \A i \in 0..(k + 1) : g[i] = IF i = 0 THEN 0 ELSE g[i - 1] + s[i]
    <3>1. g[k + 1] = f[k] + s[k + 1] /\ \A i \in 0..k : g[i] = f[i]
      BY <2>0
    <3>2. g[k + 1] = g[(k + 1) - 1] + s[k + 1]
      BY <2>0, <3>1
    <3>3. \A i \in 0..k : g[i] = IF i = 0 THEN 0 ELSE g[i - 1] + s[i]
      <4> HIDE DEF g
      <4>1. QED BY <2>0, <2>3, <3>1
    <3>4. QED
      <4> HIDE DEF g
      <4>1. \A i \in 0..(k + 1) : i \in 0..k \/ i = k + 1
        BY <2>0
      <4>2. k + 1 # 0
        BY <2>0
      <4>3. QED BY <3>2, <3>3, <4>1, <4>2
  <2>5. g = [i \in 0..(k + 1) |-> g[i]]
    OBVIOUS
  <2>6. sums(g, k + 1)
    <3> HIDE DEF g
    <3>1. QED BY <2>4, <2>5, Zenon
  <2>7. \E f1 : sums(f1, k + 1)
    <3> HIDE DEF g, sums
    <3>1. QED BY <2>6, Zenon
  <2>8. QED BY <2>0, <2>7
<1>3. \A k \in Nat : k \in good
  <2>1. good \in SUBSET Nat
    OBVIOUS
  <2> HIDE DEF good
  <2>2. QED BY <1>1, <1>2, <2>1, Induct
<1>4. Len(s) \in good
  BY <1>3
<1>5. QED BY <1>4

\* SumOf is the last partial sum; each adds one number to the one before.
LEMMA UpToFacts ==
  ASSUME NEW s \in Seq(Nat)
  PROVE  /\ SumOf(s) = UpTo(s)[Len(s)] /\ UpTo(s)[0] = 0
         /\ \A i \in 1..Len(s) : UpTo(s)[i] = UpTo(s)[i - 1] + s[i]
         /\ \A i \in 0..Len(s) : UpTo(s)[i] \in Nat
<1>1. UpTo(s) = [i \in 0..Len(s) |-> IF i = 0 THEN 0 ELSE UpTo(s)[i - 1] + s[i]]
  BY UpToExists, Zenon DEF UpTo
<1>2. UpTo(s)[0] = 0 /\ \A i \in 1..Len(s) : UpTo(s)[i] = UpTo(s)[i - 1] + s[i]
  <2>1. \A i \in 0..Len(s) : UpTo(s)[i] = IF i = 0 THEN 0 ELSE UpTo(s)[i - 1] + s[i]
    BY <1>1, Zenon
  <2>2. QED BY <2>1
<1>3. \A i \in Nat : i \in {n \in Nat : n <= Len(s) => UpTo(s)[n] \in Nat}
  <2> DEFINE good == {n \in Nat : n <= Len(s) => UpTo(s)[n] \in Nat}
  <2>1. 0 \in good /\ good \in SUBSET Nat
    BY <1>2
  <2>2. ASSUME NEW n \in good PROVE n + 1 \in good
    BY <1>2
  <2> HIDE DEF good
  <2>3. \A n \in Nat : n \in good
    BY <2>1, <2>2, Induct
  <2>4. QED BY <2>3 DEF good
<1>4. SumOf(s) = UpTo(s)[Len(s)]
  BY Zenon DEF SumOf, UpTo
<1>5. QED BY <1>2, <1>3, <1>4

\* Sums of numbers are numbers.
LEMMA SumTyped ==
  ASSUME NEW s \in Seq(Nat)
  PROVE  SumOf(s) \in Nat
BY UpToFacts, NumberAt

(* How the partial sums of a list grow.                                    *)
LEMMA UpToGrows ==
  ASSUME NEW s \in Seq(Nat)
  PROVE  /\ Len(s) \in Nat /\ UpTo(s)[0] = 0 /\ SumOf(s) = UpTo(s)[Len(s)]
         /\ \A n \in Nat : n <= Len(s) => UpTo(s)[n] \in Nat
         /\ \A n \in Nat : n < Len(s) =>
              /\ n + 1 \in 1..Len(s) /\ s[n + 1] \in Nat
              /\ UpTo(s)[n + 1] = UpTo(s)[n] + s[n + 1]
<1>1. ASSUME NEW n \in Nat, n < Len(s)
      PROVE  /\ n + 1 \in 1..Len(s) /\ s[n + 1] \in Nat
             /\ UpTo(s)[n + 1] = UpTo(s)[n] + s[n + 1]
  <2>1. n + 1 \in 1..Len(s) /\ (n + 1) - 1 = n
    BY <1>1, NumberAt
  <2>2. QED BY <2>1, UpToFacts, NumberAt
<1>2. QED BY <1>1, UpToFacts, NumberAt

(* A list of one number.                                                   *)
LEMMA SumOfOne ==
  ASSUME NEW s \in Seq(Nat), Len(s) = 1
  PROVE  SumOf(s) = s[1]
BY UpToFacts, NumberAt

(* S holds the partial sums of the numbers s[1], ..., s[N].                *)
Sums(N, s, S) ==
  /\ S[0] = 0
  /\ \A n \in 0..N : S[n] \in Nat
  /\ \A n \in 0..(N - 1) : s[n + 1] \in Nat /\ S[n + 1] = S[n] + s[n + 1]

\* The partial sums of a list are Sums of it.
LEMMA UpToSums ==
  ASSUME NEW s \in Seq(Nat)
  PROVE  /\ Len(s) \in Nat /\ SumOf(s) = UpTo(s)[Len(s)]
         /\ Sums(Len(s), s, UpTo(s))
BY UpToGrows DEF Sums

\* Without one number, the last partial sum is not higher.
LEMMA SumsRemove ==
  ASSUME NEW N \in Nat, NEW s, NEW t, NEW S, NEW T, NEW at \in 1..(N + 1),
         Sums(N + 1, s, S), Sums(N, t, T),
         \A i \in 1..N : t[i] = IF i < at THEN s[i] ELSE s[i + 1]
  PROVE  T[N] <= S[N + 1]
<1> DEFINE good == {n \in Nat : n <= N => T[n] <= IF n < at THEN S[n] ELSE S[n + 1]}
<1>1. 0 \in good
  BY DEF Sums
<1>2. ASSUME NEW n \in Nat, n \in good PROVE n + 1 \in good
  <2>1. SUFFICES ASSUME n < N PROVE T[n + 1] <= IF n + 1 < at THEN S[n + 1] ELSE S[(n + 1) + 1]
    OBVIOUS
  <2>2. T[n + 1] = T[n] + t[n + 1] /\ T[n] \in Nat /\ T[n] <= IF n < at THEN S[n] ELSE S[n + 1]
    BY <1>2, <2>1 DEF Sums
  <2>3. t[n + 1] = IF n + 1 < at THEN s[n + 1] ELSE s[(n + 1) + 1]
    BY <2>1
  <2>4. /\ S[n + 1] = S[n] + s[n + 1] /\ S[(n + 1) + 1] = S[n + 1] + s[(n + 1) + 1]
        /\ S[n] \in Nat /\ S[n + 1] \in Nat /\ s[n + 1] \in Nat /\ s[(n + 1) + 1] \in Nat
    BY <2>1 DEF Sums
  <2>5. QED BY <2>2, <2>3, <2>4
<1>3. N \in good
  <2>1. good \in SUBSET Nat
    OBVIOUS
  <2> HIDE DEF good
  <2>2. QED BY <1>1, <1>2, <2>1, Induct
<1>4. T[N] <= IF N < at THEN S[N] ELSE S[N + 1]
  BY <1>3
<1>5. T[N] \in Nat /\ S[N] \in Nat /\ s[N + 1] \in Nat /\ S[N + 1] = S[N] + s[N + 1]
  BY DEF Sums
<1>6. QED BY <1>4, <1>5

(* Only two neighbours differ, and not in their sum.                       *)
Shifted(N, s, t, at) ==
  /\ at \in 1..(N - 1) /\ t[at] + t[at + 1] = s[at] + s[at + 1]
  /\ \A i \in 1..N : i \notin {at, at + 1} => t[i] = s[i]

\* Shifting between neighbours leaves the last partial sum alone.
LEMMA SumsShift ==
  ASSUME NEW N \in Nat, NEW s, NEW t, NEW S, NEW T, NEW at, Shifted(N, s, t, at),
         Sums(N, s, S), Sums(N, t, T)
  PROVE  T[N] = S[N]
<1> USE DEF Shifted
<1> DEFINE good == {n \in Nat : n <= N => IF n = at THEN T[n] + t[n + 1] = S[n] + s[n + 1]
                                          ELSE T[n] = S[n]}
<1>1. 0 \in good
  BY DEF Sums
<1>2. ASSUME NEW n \in Nat, n \in good PROVE n + 1 \in good
  <2>1. SUFFICES ASSUME n < N
                 PROVE  IF n + 1 = at THEN T[n + 1] + t[(n + 1) + 1] = S[n + 1] + s[(n + 1) + 1]
                        ELSE T[n + 1] = S[n + 1]
    OBVIOUS
  <2>2. /\ S[n + 1] = S[n] + s[n + 1] /\ T[n + 1] = T[n] + t[n + 1]
        /\ S[n] \in Nat /\ T[n] \in Nat /\ s[n + 1] \in Nat /\ t[n + 1] \in Nat
    BY <2>1 DEF Sums
  <2>3. IF n = at THEN T[n] + t[n + 1] = S[n] + s[n + 1] ELSE T[n] = S[n]
    BY <1>2, <2>1
  <2>4. CASE n = at
    BY <2>2, <2>3, <2>4
  <2>5. CASE n + 1 = at
    <3>1. /\ s[(n + 1) + 1] \in Nat /\ t[(n + 1) + 1] \in Nat
          /\ t[n + 1] + t[(n + 1) + 1] = s[n + 1] + s[(n + 1) + 1]
      BY <2>5 DEF Sums
    <3>2. QED BY <2>2, <2>3, <2>5, <3>1
  <2>6. CASE n # at /\ n + 1 # at
    BY <2>1, <2>2, <2>3, <2>6
  <2>7. QED BY <2>4, <2>5, <2>6
<1>3. N \in good
  <2>1. good \in SUBSET Nat
    OBVIOUS
  <2> HIDE DEF good
  <2>2. QED BY <1>1, <1>2, <2>1, Induct
<1>4. QED BY <1>3

\* The last partial sum of an even share.
LEMMA SumsShared ==
  ASSUME NEW N \in Nat, NEW s, NEW S, NEW base \in Nat, NEW extra \in 0..N, Sums(N, s, S),
         \A i \in 1..N : s[i] = base + (IF i <= extra THEN 1 ELSE 0)
  PROVE  S[N] = base * N + extra
<1> DEFINE good == {n \in Nat : n <= N => S[n] = base * n + (IF n <= extra THEN n ELSE extra)}
<1>1. 0 \in good
  BY DEF Sums
<1>2. ASSUME NEW n \in Nat, n \in good PROVE n + 1 \in good
  <2>1. SUFFICES ASSUME n < N
                 PROVE  S[n + 1] = base * (n + 1) + (IF n + 1 <= extra THEN n + 1 ELSE extra)
    OBVIOUS
  <2>2. S[n + 1] = S[n] + s[n + 1] /\ s[n + 1] = base + (IF n + 1 <= extra THEN 1 ELSE 0)
    BY <2>1 DEF Sums
  <2>3. S[n] = base * n + (IF n <= extra THEN n ELSE extra)
    BY <1>2, <2>1
  <2>4. base * (n + 1) = base * n + base /\ base * n \in Nat
    OBVIOUS
  <2>5. QED BY <2>2, <2>3, <2>4
<1>3. N \in good
  <2>1. good \in SUBSET Nat
    OBVIOUS
  <2> HIDE DEF good
  <2>2. QED BY <1>1, <1>2, <2>1, Induct
<1>4. S[N] = base * N + (IF N <= extra THEN N ELSE extra)
  BY <1>3
<1>5. QED BY <1>4

(* Taking a number out does not raise the sum.                             *)
LEMMA SumRemove ==
  ASSUME NEW s \in Seq(Nat), NEW at \in 1..Len(s), NEW t \in Seq(Nat),
         Len(t) = Len(s) - 1,
         \A i \in 1..Len(t) : t[i] = IF i < at THEN s[i] ELSE s[i + 1]
  PROVE  SumOf(t) <= SumOf(s)
<1>1. Len(t) \in Nat /\ Len(s) = Len(t) + 1
  BY NumberAt
<1>2. UpTo(t)[Len(t)] <= UpTo(s)[Len(t) + 1]
  BY <1>1, UpToSums, SumsRemove
<1>3. QED BY <1>1, <1>2, UpToSums

(* What one number gains its neighbour loses.                              *)
LEMMA SumShift ==
  ASSUME NEW s \in Seq(Nat), NEW t \in Seq(Nat), Len(t) = Len(s),
         NEW at, Shifted(Len(s), s, t, at)
  PROVE  SumOf(t) = SumOf(s)
<1>1. Len(s) \in Nat
  BY NumberAt
<1>2. Sums(Len(s), s, UpTo(s)) /\ Sums(Len(s), t, UpTo(t))
  BY UpToSums
<1>3. UpTo(t)[Len(s)] = UpTo(s)[Len(s)]
  BY <1>1, <1>2, SumsShift
<1>4. QED BY <1>3, UpToSums

(* A sum shared evenly, the first ones getting one more.                   *)
LEMMA SumShared ==
  ASSUME NEW s \in Seq(Nat), NEW base \in Nat, NEW extra \in 0..Len(s),
         \A i \in 1..Len(s) : s[i] = base + (IF i <= extra THEN 1 ELSE 0)
  PROVE  SumOf(s) = base * Len(s) + extra
BY UpToSums, SumsShared

-----------------------------------------------------------------------------
(* Lists of nodes.                                                         *)

Distinct(s) == \A i, j \in 1..Len(s) : s[i] = s[j] => i = j

\* The elements of a list are the values at its positions.
LEMMA Members ==
  ASSUME NEW S, NEW s \in Seq(S)
  PROVE  /\ ToSet(s) = {s[i] : i \in 1..Len(s)} /\ ToSet(s) \subseteq S
         /\ \A i \in 1..Len(s) : s[i] \in ToSet(s)
         /\ \A e \in ToSet(s) : \E i \in 1..Len(s) : s[i] = e
BY NumberAt DEF ToSet

\* The empty list.
LEMMA EmptyList ==
  ASSUME NEW S
  PROVE  << >> \in Seq(S) /\ Len(<< >>) = 0 /\ ToSet(<< >>) = {} /\ Distinct(<< >>)
BY DEF ToSet, Distinct

\* A list of one element.
LEMMA OneList ==
  ASSUME NEW S, NEW e \in S
  PROVE  /\ <<e>> \in Seq(S) /\ Len(<<e>>) = 1 /\ <<e>>[1] = e
         /\ ToSet(<<e>>) = {e} /\ Distinct(<<e>>)
BY DEF ToSet, Distinct

(* The list t is s without its element at a position.                      *)
IsWithout(s, t, at) ==
  /\ at \in 1..Len(s) /\ Len(t) = Len(s) - 1
  /\ \A i \in 1..Len(t) : t[i] = IF i < at THEN s[i] ELSE s[i + 1]

\* RemoveAt takes out one position and keeps the order.
LEMMA RemoveAtFacts ==
  ASSUME NEW S, NEW s \in Seq(S), NEW at \in 1..Len(s)
  PROVE  RemoveAt(s, at) \in Seq(S) /\ IsWithout(s, RemoveAt(s, at), at)
<1> DEFINE a == SubSeq(s, 1, at - 1)
           b == SubSeq(s, at + 1, Len(s))
<1>1. Len(s) \in Nat
  BY NumberAt
<1>2. a \in Seq(S) /\ Len(a) = at - 1 /\ \A i \in 1..(at - 1) : a[i] = s[i]
  BY <1>1
<1>3. b \in Seq(S) /\ Len(b) = Len(s) - at /\ \A i \in 1..(Len(s) - at) : b[i] = s[at + i]
  BY <1>1
<1>4. RemoveAt(s, at) = a \o b
  BY DEF RemoveAt
<1> HIDE DEF a, b
<1>5. /\ a \o b \in Seq(S) /\ Len(a \o b) = Len(s) - 1
      /\ \A i \in 1..(Len(s) - 1) :
           (a \o b)[i] = IF i <= at - 1 THEN a[i] ELSE b[i - (at - 1)]
  <2>1. /\ a \o b \in Seq(S) /\ Len(a \o b) = Len(a) + Len(b)
        /\ \A i \in 1..(Len(a) + Len(b)) :
             (a \o b)[i] = IF i <= Len(a) THEN a[i] ELSE b[i - Len(a)]
    BY <1>2, <1>3, ConcatProperties
  <2>2. Len(a) + Len(b) = Len(s) - 1
    BY <1>1, <1>2, <1>3
  <2>3. QED BY <1>2, <2>1, <2>2
<1>6. ASSUME NEW i \in 1..(Len(s) - 1)
      PROVE  (a \o b)[i] = IF i < at THEN s[i] ELSE s[i + 1]
  <2>1. CASE i < at
    BY <1>1, <1>2, <1>5, <2>1
  <2>2. CASE i >= at
    <3>1. i - (at - 1) \in 1..(Len(s) - at) /\ at + (i - (at - 1)) = i + 1
          /\ ~(i <= at - 1) /\ ~(i < at)
      BY <1>1, <2>2
    <3>2. b[i - (at - 1)] = s[i + 1]
      BY <1>3, <3>1
    <3>3. (a \o b)[i] = b[i - (at - 1)]
      BY <1>5, <3>1
    <3>4. QED BY <2>2, <3>1, <3>2, <3>3
  <2>3. i < at \/ i >= at
    BY <1>1
  <2>4. QED BY <2>1, <2>2, <2>3, Zenon
<1>7. QED BY <1>4, <1>5, <1>6 DEF IsWithout

\* RemoveFirst does nothing, or takes out one position of the node.
LEMMA WithoutIs ==
  ASSUME NEW S, NEW s \in Seq(S), NEW id
  PROVE  /\ RemoveFirst(s, id) \in Seq(S)
         /\ \/ id \notin ToSet(s) /\ RemoveFirst(s, id) = s
            \/ \E at \in 1..Len(s) : s[at] = id /\ IsWithout(s, RemoveFirst(s, id), at)
<1>1. CASE id \notin ToSet(s)
  <2>1. ~ \E i \in 1..Len(s) : s[i] = id
    BY <1>1, Members
  <2>2. QED BY <1>1, <2>1, Zenon DEF RemoveFirst
<1>2. CASE id \in ToSet(s)
  <2> DEFINE I == {i \in 1..Len(s) : s[i] = id}
             at == CHOOSE x \in I : \A y \in I : x =< y
  <2>1. \E i \in 1..Len(s) : s[i] = id
    BY <1>2, Members
  <2>2. RemoveFirst(s, id) = RemoveAt(s, SelectInSeq(s, LAMBDA v : v = id))
    BY <2>1, Zenon DEF RemoveFirst
  <2>3. SelectInSeq(s, LAMBDA v : v = id) = IF I # {} THEN Min(I) ELSE 0
    BY DEF SelectInSeq
  <2>4. Min(I) = at
    BY Zenon DEF Min
  <2>5. I \in SUBSET Nat /\ I # {}
    BY <2>1, NumberAt
  <2>6. at \in I
    <3> HIDE DEF I
    <3>1. \E m \in I : \A n \in I : m <= n
      BY <2>5, LeastNat
    <3>2. QED BY <3>1, Zenon
  <2>7. at \in 1..Len(s) /\ s[at] = id
    BY <2>6
  <2>8. RemoveFirst(s, id) = RemoveAt(s, at)
    <3> HIDE DEF I, at
    <3>1. QED BY <2>2, <2>3, <2>4, <2>5
  <2> HIDE DEF at, I
  <2>9. QED BY <2>7, <2>8, RemoveAtFacts
<1>3. QED BY <1>1, <1>2

\* RemoveFirst takes exactly the node out of a list without repetitions.
LEMMA WithoutFacts ==
  ASSUME NEW S, NEW s \in Seq(S), Distinct(s), NEW id
  PROVE  /\ RemoveFirst(s, id) \in Seq(S) /\ Distinct(RemoveFirst(s, id))
         /\ ToSet(RemoveFirst(s, id)) = ToSet(s) \ {id}
<1> DEFINE t == RemoveFirst(s, id)
<1>1. t \in Seq(S)
  BY WithoutIs
<1>2. CASE id \notin ToSet(s) /\ t = s
  BY <1>1, <1>2
<1>3. ASSUME NEW at \in 1..Len(s), s[at] = id, IsWithout(s, t, at)
      PROVE  Distinct(t) /\ ToSet(t) = ToSet(s) \ {id}
  <2> HIDE DEF t
  <2>1. Len(s) \in Nat /\ Len(t) = Len(s) - 1 /\ at \in 1..Len(s)
    BY <1>3, NumberAt DEF IsWithout
  <2>2. \A i \in 1..Len(t) : t[i] = IF i < at THEN s[i] ELSE s[i + 1]
    BY <1>3 DEF IsWithout
  <2>3. \A i, j \in 1..Len(s) : s[i] = s[j] => i = j
    BY DEF Distinct
  <2>4. Distinct(t)
    BY <2>1, <2>2, <2>3 DEF Distinct
  <2>5. ToSet(t) \subseteq ToSet(s) \ {id}
    <3>1. ASSUME NEW i \in 1..Len(t) PROVE t[i] \in ToSet(s) /\ t[i] # id
      BY <1>3, <2>1, <2>2, <2>3, Members
    <3>2. QED BY <1>1, <3>1, Members
  <2>6. ASSUME NEW e \in ToSet(s), e # id PROVE e \in ToSet(t)
    <3>1. PICK i \in 1..Len(s) : s[i] = e
      BY Members
    <3>2. CASE i < at
      <4>1. i \in 1..Len(t) /\ t[i] = e
        BY <2>1, <2>2, <3>1, <3>2
      <4>2. QED BY <1>1, <4>1, Members
    <3>3. CASE i > at
      <4>1. i - 1 \in 1..Len(t) /\ t[i - 1] = e
        BY <2>1, <2>2, <3>1, <3>3
      <4>2. QED BY <1>1, <4>1, Members
    <3>4. QED BY <1>3, <2>1, <2>6, <3>1, <3>2, <3>3
  <2>7. QED BY <2>4, <2>5, <2>6
<1>4. QED BY <1>1, <1>2, <1>3, WithoutIs

\* InsertAt adds a new element at its position, without repetitions.
LEMMA InsertAtFacts ==
  ASSUME NEW S, NEW s \in Seq(S), NEW at \in 1..(Len(s) + 1), NEW e \in S,
         Distinct(s), e \notin ToSet(s)
  PROVE  /\ InsertAt(s, at, e) \in Seq(S) /\ Distinct(InsertAt(s, at, e))
         /\ ToSet(InsertAt(s, at, e)) = ToSet(s) \cup {e}
         /\ Len(InsertAt(s, at, e)) = Len(s) + 1 /\ InsertAt(s, at, e)[at] = e
<1> DEFINE a == SubSeq(s, 1, at - 1)
           b == SubSeq(s, at, Len(s))
           t == InsertAt(s, at, e)
           n == Len(s)
<1>1. n \in Nat
  BY NumberAt
<1>2. a \in Seq(S) /\ Len(a) = at - 1 /\ \A i \in 1..(at - 1) : a[i] = s[i]
  BY <1>1
<1>3. b \in Seq(S) /\ Len(b) = n - at + 1 /\ \A i \in 1..(n - at + 1) : b[i] = s[at + i - 1]
  BY <1>1
<1>4. t = (a \o <<e>>) \o b
  BY DEF InsertAt
<1>5. /\ a \o <<e>> \in Seq(S) /\ Len(a \o <<e>>) = at
      /\ \A i \in 1..at : (a \o <<e>>)[i] = IF i < at THEN s[i] ELSE e
  <2> HIDE DEF a
  <2>1. QED BY <1>1, <1>2, ConcatProperties
<1>6. /\ t \in Seq(S) /\ Len(t) = n + 1
      /\ \A i \in 1..(n + 1) : t[i] = IF i <= at THEN (a \o <<e>>)[i] ELSE b[i - at]
  <2> DEFINE c == a \o <<e>>
  <2>1. c \in Seq(S) /\ Len(c) = at /\ t = c \o b
    BY <1>4, <1>5
  <2> HIDE DEF a, b, c, t
  <2>2. /\ t \in Seq(S) /\ Len(t) = n + 1
        /\ \A i \in 1..(n + 1) : t[i] = IF i <= at THEN c[i] ELSE b[i - at]
    <3>1. /\ c \o b \in Seq(S) /\ Len(c \o b) = Len(c) + Len(b)
          /\ \A i \in 1..(Len(c) + Len(b)) :
               (c \o b)[i] = IF i <= Len(c) THEN c[i] ELSE b[i - Len(c)]
      BY <1>3, <2>1, ConcatProperties
    <3>2. Len(c) + Len(b) = n + 1
      BY <1>1, <1>3, <2>1
    <3>3. QED BY <2>1, <3>1, <3>2
  <2>3. QED BY <2>2 DEF c
<1> HIDE DEF a, b, t, n
<1>0. at \in 1..(n + 1)
  BY DEF n
<1>7. ASSUME NEW i \in 1..(n + 1)
      PROVE  t[i] = IF i < at THEN s[i] ELSE IF i = at THEN e ELSE s[i - 1]
  <2>1. CASE i <= at
    BY <1>0, <1>1, <1>5, <1>6, <2>1
  <2>2. CASE i > at
    <3>1. i - at \in 1..(n - at + 1) /\ at + (i - at) - 1 = i - 1 /\ ~(i <= at) /\ ~(i < at) /\ i # at
      BY <1>0, <1>1, <2>2
    <3>2. b[i - at] = s[i - 1]
      BY <1>3, <3>1
    <3>3. QED BY <1>6, <3>1, <3>2
  <2>3. QED BY <1>0, <1>1, <2>1, <2>2
<1>8. \A i, j \in 1..n : s[i] = s[j] => i = j
  BY DEF Distinct, n
<1>9. \A i \in 1..n : s[i] # e /\ s[i] \in ToSet(s)
  BY Members DEF n
<1>10. Distinct(t)
  <2>1. ASSUME NEW i \in 1..(n + 1), NEW j \in 1..(n + 1), t[i] = t[j], i < j PROVE FALSE
    <3>1. CASE j < at
      BY <1>1, <1>7, <1>8, <1>0, <2>1, <3>1
    <3>2. CASE j = at
      BY <1>1, <1>7, <1>9, <1>0, <2>1, <3>2
    <3>3. CASE j > at
      <4>1. t[j] = s[j - 1] /\ j - 1 \in 1..n
        BY <1>1, <1>7, <1>0, <3>3
      <4>2. CASE i < at
        <5>1. t[i] = s[i] /\ i \in 1..n
          BY <1>1, <1>7, <1>0, <4>2
        <5>2. i = j - 1
          BY <1>8, <2>1, <4>1, <5>1
        <5>3. QED BY <1>0, <1>1, <3>3, <4>2, <5>2
      <4>3. CASE i = at
        BY <1>1, <1>7, <1>9, <1>0, <2>1, <4>1, <4>3
      <4>4. CASE i > at
        <5>1. t[i] = s[i - 1] /\ i - 1 \in 1..n
          BY <1>1, <1>7, <1>0, <4>4
        <5>2. i - 1 = j - 1
          BY <1>8, <2>1, <4>1, <5>1
        <5>3. QED BY <2>1, <5>2
      <4>5. QED BY <1>1, <1>0, <4>2, <4>3, <4>4
    <3>4. QED BY <1>1, <1>0, <3>1, <3>2, <3>3
  <2>2. \A i, j \in 1..(n + 1) : t[i] = t[j] => i = j
    BY <1>1, <2>1
  <2>3. QED BY <1>6, <2>2 DEF Distinct
<1>11. ToSet(t) \subseteq ToSet(s) \cup {e}
  <2>1. \A i \in 1..(n + 1) : t[i] \in ToSet(s) \cup {e}
    BY <1>1, <1>7, <1>9, <1>0
  <2>2. QED BY <1>6, <2>1, Members
<1>12. e \in ToSet(t) /\ t[at] = e
  <2>1. t[at] = e
    BY <1>1, <1>7, <1>0
  <2>2. QED BY <1>6, <1>0, <2>1, Members
<1>13. ASSUME NEW x \in ToSet(s) PROVE x \in ToSet(t)
  <2>1. PICK i \in 1..n : s[i] = x
    BY Members DEF n
  <2>2. CASE i < at
    <3>1. i \in 1..(n + 1) /\ t[i] = x
      BY <1>1, <1>7, <2>1, <2>2
    <3>2. QED BY <1>6, <3>1, Members
  <2>3. CASE i >= at
    <3>1. i + 1 \in 1..(n + 1) /\ t[i + 1] = x
      BY <1>1, <1>7, <1>0, <2>1, <2>3
    <3>2. QED BY <1>6, <3>1, Members
  <2>4. QED BY <1>1, <1>0, <2>1, <2>2, <2>3
<1>14. QED BY <1>6, <1>10, <1>11, <1>12, <1>13 DEF t, n

\* Append adds one element at the end.
LEMMA AppendFacts ==
  ASSUME NEW S, NEW s \in Seq(S), NEW e \in S
  PROVE  /\ Append(s, e) \in Seq(S) /\ Len(Append(s, e)) = Len(s) + 1
         /\ Append(s, e)[Len(s) + 1] = e
         /\ \A i \in 1..Len(s) : Append(s, e)[i] = s[i]
         /\ ToSet(Append(s, e)) = ToSet(s) \cup {e}
         /\ Distinct(s) /\ e \notin ToSet(s) => Distinct(Append(s, e))
<1> DEFINE t == Append(s, e)
           n == Len(s)
<1>1. /\ t \in Seq(S) /\ n \in Nat /\ Len(t) = n + 1 /\ t[n + 1] = e
      /\ \A i \in 1..n : t[i] = s[i]
  BY AppendProperties, NumberAt
<1> HIDE DEF t, n
<1>2. \A i \in 1..(n + 1) : i \in 1..n \/ i = n + 1
  BY <1>1
<1>3. ToSet(t) \subseteq ToSet(s) \cup {e}
  <2>1. \A i \in 1..(n + 1) : t[i] \in ToSet(s) \cup {e}
    BY <1>1, <1>2, Members DEF n
  <2>2. QED BY <1>1, <2>1, Members
<1>4. ToSet(s) \cup {e} \subseteq ToSet(t)
  <2>1. e \in ToSet(t)
    BY <1>1, Members
  <2>2. ASSUME NEW x \in ToSet(s) PROVE x \in ToSet(t)
    <3>1. PICK i \in 1..n : s[i] = x
      BY Members DEF n
    <3>2. i \in 1..(n + 1) /\ t[i] = x
      BY <1>1, <3>1
    <3>3. QED BY <1>1, <3>2, Members
  <2>3. QED BY <2>1, <2>2
<1>5. ASSUME Distinct(s), e \notin ToSet(s) PROVE Distinct(t)
  <2>1. \A i, j \in 1..n : s[i] = s[j] => i = j
    BY <1>5 DEF Distinct, n
  <2>2. \A i \in 1..n : s[i] # e
    BY <1>5, Members DEF n
  <2>3. QED BY <1>1, <1>2, <2>1, <2>2 DEF Distinct
<1>6. QED BY <1>1, <1>3, <1>4, <1>5 DEF t, n

-----------------------------------------------------------------------------
(* Below: the least set that holds a node and, with a node, its children.  *)

\* There are finitely many nodes.
LEMMA ParentFinite == IsFiniteSet(Parent)
BY TreeAssumption, FS_AddElement DEF Parent, Node

KidsOf(d, S) == UNION {ToSet(d.kids[x]) : x \in S}
Grown(d, S) == S \cup KidsOf(d, S)
Closed(d, T) == \A x \in T : ToSet(d.kids[x]) \subseteq T

Least(d, S) ==
  {y \in Parent : \A T \in SUBSET Parent : S \subseteq T /\ Closed(d, T) => y \in T}

(* The function that Below applies.                                        *)
Grow(d) ==
  CHOOSE grow : grow = [S \in SUBSET Parent |->
    LET more == S \cup UNION {ToSet(d.kids[x]) : x \in S}
    IN IF more = S THEN S ELSE grow[more]]

\* Children are lists of nodes.
LEMMA KidsTyped ==
  ASSUME NEW d \in Document, NEW x \in Parent
  PROVE  d.kids[x] \in Seq(Node) /\ ToSet(d.kids[x]) \subseteq Node
<1>1. d.kids[x] \in Seq(Node)
  BY DEF Document
<1>2. QED BY <1>1 DEF ToSet

\* Children of nodes are nodes.
LEMMA GrownTyped ==
  ASSUME NEW d \in Document, NEW S \in SUBSET Parent
  PROVE  Grown(d, S) \in SUBSET Parent
BY KidsTyped DEF Grown, KidsOf, Parent

\* Least(d, S) is closed, holds S and is within every such set.
LEMMA LeastFacts ==
  ASSUME NEW d \in Document, NEW S \in SUBSET Parent
  PROVE  /\ S \subseteq Least(d, S) /\ Least(d, S) \in SUBSET Parent
         /\ Closed(d, Least(d, S))
         /\ \A T \in SUBSET Parent : S \subseteq T /\ Closed(d, T) => Least(d, S) \subseteq T
         /\ Least(d, Grown(d, S)) = Least(d, S)
         /\ Grown(d, S) = S => Least(d, S) = S
<1>1. /\ S \subseteq Least(d, S) /\ Least(d, S) \in SUBSET Parent
      /\ \A T \in SUBSET Parent : S \subseteq T /\ Closed(d, T) => Least(d, S) \subseteq T
  BY DEF Least
<1>2. Closed(d, Least(d, S))
  BY KidsTyped DEF Least, Closed, Parent
<1>3. \A T \in SUBSET Parent : Closed(d, T) => (S \subseteq T <=> Grown(d, S) \subseteq T)
  BY DEF Closed, Grown, KidsOf
<1>4. Least(d, Grown(d, S)) = Least(d, S)
  BY <1>3 DEF Least
<1>5. ASSUME Grown(d, S) = S PROVE Least(d, S) = S
  <2>1. Closed(d, S)
    BY <1>5 DEF Closed, Grown, KidsOf
  <2>2. QED BY <2>1, <1>1
<1>6. QED BY <1>1, <1>2, <1>4, <1>5

\* The recursion of Below has a solution, the least closed sets.
LEMMA GrowSolves ==
  ASSUME NEW d \in Document
  PROVE  Grow(d) = [S \in SUBSET Parent |->
                      IF Grown(d, S) = S THEN S ELSE Grow(d)[Grown(d, S)]]
<1> DEFINE eq(g) == g = [S \in SUBSET Parent |->
                          LET more == S \cup UNION {ToSet(d.kids[x]) : x \in S}
                          IN IF more = S THEN S ELSE g[more]]
           least == [S \in SUBSET Parent |-> Least(d, S)]
<1>1. eq(least)
  <2>1. \A S \in SUBSET Parent :
          least[S] = IF Grown(d, S) = S THEN S ELSE least[Grown(d, S)]
    BY LeastFacts, GrownTyped
  <2>2. least = [S \in SUBSET Parent |-> IF Grown(d, S) = S THEN S ELSE least[Grown(d, S)]]
    BY <2>1, Zenon
  <2>3. QED BY <2>2, Zenon DEF Grown, KidsOf
<1>2. eq(Grow(d))
  <2> HIDE DEF least
  <2>1. \E g : eq(g)
    BY <1>1, Zenon
  <2>2. QED BY <2>1, Zenon DEF Grow
<1>3. QED BY <1>2, Zenon DEF Grown, KidsOf

\* It has no other: any solution is the least closed set, by induction on what is left.
LEMMA GrowIsLeast ==
  ASSUME NEW d \in Document
  PROVE  \A S \in SUBSET Parent : Grow(d)[S] = Least(d, S)
<1> DEFINE bad == {S \in SUBSET Parent : Grow(d)[S] # Least(d, S)}
           sizes == {Cardinality(Parent \ S) : S \in bad}
<1>1. SUFFICES ASSUME bad # {} PROVE FALSE
  OBVIOUS
<1>2. \A S \in SUBSET Parent : IsFiniteSet(Parent \ S) /\ Cardinality(Parent \ S) \in Nat
  BY ParentFinite, FS_Difference, FS_CardinalityType
<1>3. sizes \in SUBSET Nat /\ sizes # {}
  BY <1>1, <1>2
<1>4. PICK S \in bad : \A T \in bad : Cardinality(Parent \ S) <= Cardinality(Parent \ T)
  <2> HIDE DEF bad
  <2>1. PICK m \in sizes : \A n \in sizes : m <= n
    <3> HIDE DEF sizes
    <3>1. QED BY <1>3, LeastNat
  <2>2. QED BY <2>1
<1> DEFINE more == Grown(d, S)
<1>5. Grow(d)[S] = IF more = S THEN S ELSE Grow(d)[more]
  BY GrowSolves
<1>6. more # S
  BY <1>4, <1>5, LeastFacts
<1>7. more \in SUBSET Parent /\ S \subseteq more
  BY GrownTyped DEF Grown
<1>8. more \in bad
  BY <1>4, <1>5, <1>6, <1>7, LeastFacts
<1>9. PICK x \in Parent \ S : x \in more
  BY <1>6, <1>7
<1>10. Parent \ more \subseteq (Parent \ S) \ {x}
  BY <1>7, <1>9
<1>11. /\ Cardinality((Parent \ S) \ {x}) = Cardinality(Parent \ S) - 1
       /\ IsFiniteSet((Parent \ S) \ {x})
  BY <1>2, <1>9, FS_RemoveElement
<1>12. Cardinality(Parent \ more) <= Cardinality((Parent \ S) \ {x})
  BY <1>10, <1>11, FS_Subset
<1>13. Cardinality(Parent \ S) <= Cardinality(Parent \ more)
  BY <1>4, <1>8
<1>14. /\ Cardinality(Parent \ S) \in Nat /\ Cardinality(Parent \ more) \in Nat
       /\ Cardinality((Parent \ S) \ {x}) \in Nat
  <2>1. S \in SUBSET Parent
    BY <1>4
  <2>2. Cardinality((Parent \ S) \ {x}) \in Nat
    BY <1>11, FS_CardinalityType
  <2>3. QED BY <1>2, <1>7, <2>1, <2>2
<1>15. QED
  <2> DEFINE a == Cardinality(Parent \ S)
             b == Cardinality(Parent \ more)
             c == Cardinality((Parent \ S) \ {x})
  <2>1. a \in Nat /\ b \in Nat /\ c \in Nat
    BY <1>14
  <2>2. c = a - 1 /\ b <= c /\ a <= b
    BY <1>11, <1>12, <1>13
  <2> HIDE DEF a, b, c
  <2>3. QED BY <2>1, <2>2

\* What is below a node is the least set that holds it and the children of its
\* members: the walk of the code over children ends and misses nothing, whatever the
\* document.  ops.ts:11-29, 161-166.
THEOREM BelowFacts ==
  ASSUME NEW d \in Document, NEW id \in Parent
  PROVE  /\ id \in Below(d, id) /\ Below(d, id) \subseteq Parent
         /\ Closed(d, Below(d, id))
         /\ \A T \in SUBSET Parent : id \in T /\ Closed(d, T) => Below(d, id) \subseteq T
<1>1. Below(d, id) = Grow(d)[{id}]
  BY Zenon DEF Below, Grow
<1>2. Below(d, id) = Least(d, {id})
  BY <1>1, GrowIsLeast
<1>3. {id} \in SUBSET Parent
  OBVIOUS
<1>4. QED BY <1>2, <1>3, LeastFacts

(* Only the node itself can be below it without being held there.          *)
LEMMA BelowHeld ==
  ASSUME NEW d \in Document, NEW id \in Parent
  PROVE  \A y \in Below(d, id) : y = id \/ \E x \in Below(d, id) : y \in ToSet(d.kids[x])
<1> DEFINE B == Below(d, id)
           T == {y \in B : y = id \/ \E x \in B : y \in ToSet(d.kids[x])}
<1>1. id \in B /\ B \subseteq Parent /\ Closed(d, B)
  BY BelowFacts
<1>2. T \in SUBSET Parent /\ id \in T /\ Closed(d, T)
  BY <1>1 DEF Closed
<1>3. B \subseteq T
  BY <1>2, BelowFacts
<1>4. QED BY <1>3

(* Below looks at nothing but the children.                                *)
LEMMA BelowSame ==
  ASSUME NEW d \in Document, NEW e \in Document, d.kids = e.kids, NEW id \in Parent
  PROVE  Below(d, id) = Below(e, id)
<1>1. Closed(d, Below(e, id)) /\ Closed(e, Below(d, id))
  BY BelowFacts DEF Closed
<1>2. QED BY <1>1, BelowFacts

-----------------------------------------------------------------------------
(* Trees, by the sets of the children.                                     *)

(* A node is in one list of k only, and there only once.                   *)
Apart(k, X) ==
  /\ \A x \in X : Distinct(k[x])
  /\ \A x, y \in X : \A z \in ToSet(k[x]) : z \in ToSet(k[y]) => x = y

KidKind(x) ==
  IF x = Root THEN Sections
  ELSE IF x \in Sections THEN Columns
  ELSE IF x \in Columns THEN Widgets
  ELSE IF x \in Containers THEN Sections ELSE {}

RightKinds(k, X) == \A x \in X : ToSet(k[x]) \subseteq KidKind(x)

Reached(d) == \A x \in Parent \ Below(d, Root) : d.kids[x] = <<>>

\* Two forms of: no node is a child twice.
LEMMA ApartIs ==
  ASSUME NEW S, NEW X, NEW k, \A x \in X : k[x] \in Seq(S)
  PROVE  Apart(k, X) <=> \A x \in X, y \in X : \A i \in DOMAIN k[x], j \in DOMAIN k[y] :
                           k[x][i] = k[y][j] => x = y /\ i = j
<1>1. \A x \in X : DOMAIN k[x] = 1..Len(k[x])
  BY NumberAt
<1>2. \A x \in X : /\ \A i \in 1..Len(k[x]) : k[x][i] \in ToSet(k[x])
                   /\ \A e \in ToSet(k[x]) : \E i \in 1..Len(k[x]) : k[x][i] = e
  BY Members
<1>3. ASSUME Apart(k, X), NEW x \in X, NEW y \in X, NEW i \in 1..Len(k[x]), NEW j \in 1..Len(k[y]),
             k[x][i] = k[y][j]
      PROVE  x = y /\ i = j
  <2>1. k[x][i] \in ToSet(k[x]) /\ k[x][i] \in ToSet(k[y])
    BY <1>2, <1>3, Zenon
  <2>2. x = y
    BY <1>3, <2>1, Zenon DEF Apart
  <2>3. QED BY <1>3, <2>2, Zenon DEF Apart, Distinct
<1>4. ASSUME \A x \in X, y \in X : \A i \in 1..Len(k[x]), j \in 1..Len(k[y]) :
               k[x][i] = k[y][j] => x = y /\ i = j
      PROVE  Apart(k, X)
  <2>1. \A x \in X : Distinct(k[x])
    BY <1>4, Zenon DEF Distinct
  <2>2. ASSUME NEW x \in X, NEW y \in X, NEW z \in ToSet(k[x]), z \in ToSet(k[y])
        PROVE  x = y
    <3>1. PICK i \in 1..Len(k[x]) : k[x][i] = z
      BY <1>2
    <3>2. PICK j \in 1..Len(k[y]) : k[y][j] = z
      BY <1>2, <2>2
    <3>3. QED BY <1>4, <3>1, <3>2, Zenon
  <2>3. QED BY <2>1, <2>2, Zenon DEF Apart
<1>5. ASSUME NEW x \in X, NEW y \in X
      PROVE  (\A i \in DOMAIN k[x], j \in DOMAIN k[y] : k[x][i] = k[y][j] => x = y /\ i = j)
             <=> \A i \in 1..Len(k[x]), j \in 1..Len(k[y]) :
                   k[x][i] = k[y][j] => x = y /\ i = j
  <2>1. DOMAIN k[x] = 1..Len(k[x]) /\ DOMAIN k[y] = 1..Len(k[y])
    BY <1>1, Zenon
  <2>2. QED BY ONLY <2>1, Zenon
<1>6. QED BY <1>3, <1>4, <1>5, Zenon

(* IsTree, of a document.                                                  *)
Tree(d) ==
  /\ Apart(d.kids, Parent)
  /\ Reached(d)
  /\ RightKinds(d.kids, Parent)
  /\ d.locked \subseteq In(d)

\* The root and the nodes, and what each kind may hold.
LEMMA NodeKinds ==
  /\ Parent = {Root} \cup Sections \cup Columns \cup Widgets
  /\ Node \subseteq Parent /\ Root \in Parent /\ Root \notin Node
  /\ \A x \in Parent : x = Root \/ x \in Node
  /\ KidKind(Root) = Sections
  /\ \A s \in Sections : KidKind(s) = Columns
  /\ \A c \in Columns : KidKind(c) = Widgets
  /\ \A w \in Widgets : KidKind(w) = IF w \in Containers THEN Sections ELSE {}
BY TreeAssumption DEF Parent, Node, KidKind

\* IsTree in the form the proofs use.
LEMMA TreeForm ==
  ASSUME NEW d \in Document
  PROVE  IsTree(d) <=> Tree(d)
<1>1. \A x \in Parent : d.kids[x] \in Seq(Node)
  BY KidsTyped
<1>2. Apart(d.kids, Parent) <=>
        \A x \in Parent, y \in Parent : \A i \in DOMAIN d.kids[x], j \in DOMAIN d.kids[y] :
           d.kids[x][i] = d.kids[y][j] => x = y /\ i = j
  BY <1>1, ApartIs
<1>3. Reached(d) <=> LET seen == Below(d, Root) IN \A x \in Node \ seen : d.kids[x] = <<>>
  BY NodeKinds, BelowFacts DEF Reached
<1>4. RightKinds(d.kids, Parent) <=>
        /\ ToSet(d.kids[Root]) \subseteq Sections
        /\ \A s \in Sections : ToSet(d.kids[s]) \subseteq Columns
        /\ \A c \in Columns : ToSet(d.kids[c]) \subseteq Widgets
        /\ \A w \in Widgets :
             ToSet(d.kids[w]) \subseteq IF w \in Containers THEN Sections ELSE {}
  <2>1. ASSUME RightKinds(d.kids, Parent)
        PROVE  /\ ToSet(d.kids[Root]) \subseteq Sections
               /\ \A s \in Sections : ToSet(d.kids[s]) \subseteq Columns
               /\ \A c \in Columns : ToSet(d.kids[c]) \subseteq Widgets
               /\ \A w \in Widgets :
                    ToSet(d.kids[w]) \subseteq IF w \in Containers THEN Sections ELSE {}
    <3>1. \A x \in Parent : ToSet(d.kids[x]) \subseteq KidKind(x)
      BY <2>1 DEF RightKinds
    <3>2. \A x \in Sections \cup Columns \cup Widgets : x \in Parent
      BY NodeKinds
    <3>3. QED BY <3>1, <3>2, NodeKinds
  <2>2. ASSUME ToSet(d.kids[Root]) \subseteq Sections,
               \A s \in Sections : ToSet(d.kids[s]) \subseteq Columns,
               \A c \in Columns : ToSet(d.kids[c]) \subseteq Widgets,
               \A w \in Widgets :
                 ToSet(d.kids[w]) \subseteq IF w \in Containers THEN Sections ELSE {},
               NEW x \in Parent
        PROVE  ToSet(d.kids[x]) \subseteq KidKind(x)
    <3>1. x = Root \/ x \in Sections \/ x \in Columns \/ x \in Widgets
      BY NodeKinds
    <3>2. QED BY <2>2, <3>1, NodeKinds
  <2>3. QED BY <2>1, <2>2 DEF RightKinds
<1>5. QED BY <1>2, <1>3, <1>4, Zenon DEF IsTree, Tree

\* In(d) is what some node or the root has as a child.
LEMMA InFacts ==
  ASSUME NEW d \in Document
  PROVE  /\ In(d) \subseteq Node
         /\ \A x \in Parent : ToSet(d.kids[x]) \subseteq In(d)
         /\ \A z \in In(d) : \E x \in Parent : z \in ToSet(d.kids[x])
BY KidsTyped DEF In

(* The nodes of a tree are those below the root.                           *)
LEMMA InReached ==
  ASSUME NEW d \in Document, Tree(d)
  PROVE  /\ Below(d, Root) = In(d) \cup {Root}
         /\ \A x \in Parent : x \notin In(d) /\ x # Root => d.kids[x] = <<>>
         /\ \A z \in In(d) : \E x \in In(d) \cup {Root} : z \in ToSet(d.kids[x])
<1>1. /\ Root \in Below(d, Root) /\ Below(d, Root) \subseteq Parent
      /\ \A x \in Below(d, Root) : ToSet(d.kids[x]) \subseteq Below(d, Root)
  BY BelowFacts, NodeKinds DEF Closed
<1>2. \A y \in Below(d, Root) : y = Root \/ \E x \in Below(d, Root) : y \in ToSet(d.kids[x])
  BY BelowHeld, NodeKinds
<1>3. \A z \in In(d) : \E x \in Below(d, Root) : z \in ToSet(d.kids[x])
  BY InFacts, EmptyList DEF Tree, Reached
<1>4. Below(d, Root) = In(d) \cup {Root}
  BY <1>1, <1>2, <1>3, InFacts
<1>5. QED BY <1>3, <1>4, NodeKinds DEF Tree, Reached

(* The place of a node.                                                    *)
LEMMA HolderFacts ==
  ASSUME NEW d \in Document, Tree(d), NEW id \in In(d)
  PROVE  /\ Holder(d, id) \in In(d) \cup {Root} /\ Holder(d, id) \in Parent
         /\ id \in ToSet(d.kids[Holder(d, id)])
         /\ id \in KidKind(Holder(d, id))
         /\ \A x \in Parent : id \in ToSet(d.kids[x]) => x = Holder(d, id)
         /\ Position(d, id) \in 1..Len(d.kids[Holder(d, id)])
         /\ d.kids[Holder(d, id)][Position(d, id)] = id
<1>1. PICK x \in In(d) \cup {Root} : id \in ToSet(d.kids[x])
  BY InReached
<1>2. x \in Parent
  BY InFacts, NodeKinds
<1>3. Holder(d, id) \in Parent /\ id \in ToSet(d.kids[Holder(d, id)])
  BY <1>1, <1>2 DEF Holder
<1>4. \A y \in Parent : id \in ToSet(d.kids[y]) => y = Holder(d, id)
  BY <1>3 DEF Tree, Apart
<1>5. \E i \in DOMAIN d.kids[Holder(d, id)] : d.kids[Holder(d, id)][i] = id
  <2>1. d.kids[Holder(d, id)] \in Seq(Node)
    BY <1>3, KidsTyped
  <2>2. QED BY <1>3, <2>1, Members, NumberAt
<1>6. /\ Position(d, id) \in 1..Len(d.kids[Holder(d, id)])
      /\ d.kids[Holder(d, id)][Position(d, id)] = id
  BY <1>3, <1>5, KidsTyped, NumberAt DEF Position
<1>7. QED BY <1>1, <1>2, <1>3, <1>4, <1>6 DEF Tree, RightKinds

(* What holds a node below id other than id is below id.                   *)
LEMMA BelowUp ==
  ASSUME NEW d \in Document, Tree(d), NEW id \in Node
  PROVE  /\ id \in Below(d, id) /\ Below(d, id) \subseteq Node
         /\ \A x \in Below(d, id) : ToSet(d.kids[x]) \subseteq Below(d, id)
         /\ \A x \in Parent : \A z \in ToSet(d.kids[x]) :
              z \in Below(d, id) /\ z # id => x \in Below(d, id)
<1>1. /\ id \in Below(d, id) /\ Below(d, id) \subseteq Parent
      /\ \A x \in Below(d, id) : ToSet(d.kids[x]) \subseteq Below(d, id)
  BY BelowFacts, NodeKinds DEF Closed
<1>2. \A y \in Below(d, id) : y = id \/ \E x \in Below(d, id) : y \in ToSet(d.kids[x])
  BY BelowHeld, NodeKinds
<1>3. Root \notin Below(d, id)
  BY <1>1, <1>2, KidsTyped, NodeKinds
<1>4. \A x \in Parent : \A z \in ToSet(d.kids[x]) :
        z \in Below(d, id) /\ z # id => x \in Below(d, id)
  BY <1>1, <1>2 DEF Tree, Apart
<1>5. QED BY <1>1, <1>3, <1>4, NodeKinds

(* No node is below itself.                                                *)
LEMMA Acyclic ==
  ASSUME NEW d \in Document, Tree(d), NEW id \in In(d)
  PROVE  /\ \A x \in Below(d, id) : id \notin ToSet(d.kids[x])
         /\ Below(d, id) \subseteq In(d)
<1> DEFINE B == Below(d, id)
           T == Below(d, Root) \ B
<1>1. id \in Node
  BY InFacts
<1>2. /\ id \in B /\ B \subseteq Node
      /\ \A x \in B : ToSet(d.kids[x]) \subseteq B
      /\ \A x \in Parent : \A z \in ToSet(d.kids[x]) : z \in B /\ z # id => x \in B
  BY <1>1, BelowUp
<1>3. B \subseteq In(d)
  <2>1. \A y \in B : y = id \/ \E x \in B : y \in ToSet(d.kids[x])
    BY <1>1, BelowHeld, NodeKinds
  <2>2. QED BY <1>2, <2>1, InFacts, NodeKinds
<1>4. ASSUME NEW x \in B, id \in ToSet(d.kids[x]) PROVE FALSE
  <2>1. Below(d, Root) = In(d) \cup {Root} /\ Root \notin B
    BY <1>2, InReached, NodeKinds
  <2>2. T \in SUBSET Parent /\ Root \in T
    BY <2>1, InFacts, NodeKinds
  <2>3. ASSUME NEW y \in T, NEW z \in ToSet(d.kids[y]) PROVE z \in T
    <3>1. y \in Parent /\ x \in Parent
      BY <1>2, <2>2, NodeKinds
    <3>2. z \in Below(d, Root)
      BY <2>1, <3>1, InFacts
    <3>3. z # id
      BY <1>4, <3>1 DEF Tree, Apart
    <3>4. QED BY <1>2, <3>1, <3>2, <3>3
  <2>4. Below(d, Root) \subseteq T
    <3> HIDE DEF T
    <3>1. QED BY <2>2, <2>3, BelowFacts, NodeKinds DEF Closed
  <2>5. QED BY <1>2, <2>1, <2>4
<1>5. QED BY <1>3, <1>4

-----------------------------------------------------------------------------
(* The spans of a list of columns, and the like.                           *)

Mapped(k, span) == [i \in DOMAIN k |-> span[k[i]]]

\* The spans of a list of columns are numbers.
LEMMA SpansTyped ==
  ASSUME NEW S, NEW k \in Seq(S), NEW span, \A c \in ToSet(k) : span[c] \in Nat
  PROVE  /\ Mapped(k, span) \in Seq(Nat) /\ Len(Mapped(k, span)) = Len(k)
         /\ \A i \in 1..Len(k) : Mapped(k, span)[i] = span[k[i]]
<1>1. Len(k) \in Nat /\ DOMAIN k = 1..Len(k) /\ \A i \in 1..Len(k) : k[i] \in ToSet(k)
  BY NumberAt, Members
<1>2. Mapped(k, span) = [i \in 1..Len(k) |-> span[k[i]]]
  BY <1>1 DEF Mapped
<1>3. [i \in 1..Len(k) |-> span[k[i]]] \in [1..Len(k) -> Nat]
  BY <1>1
<1>4. Mapped(k, span) \in [1..Len(k) -> Nat]
  BY <1>2, <1>3
<1>5. Mapped(k, span) \in Seq(Nat) /\ Len(Mapped(k, span)) = Len(k)
  <2> HIDE DEF Mapped
  <2>1. QED BY <1>1, <1>4
<1>6. QED BY <1>2, <1>5

\* Only the spans of the list matter.
LEMMA SpansSame ==
  ASSUME NEW S, NEW k \in Seq(S), NEW f, NEW g, \A c \in ToSet(k) : f[c] = g[c]
  PROVE  Mapped(k, f) = Mapped(k, g)
<1>1. \A i \in DOMAIN k : f[k[i]] = g[k[i]]
  BY NumberAt, Members
<1>2. QED BY <1>1, Zenon DEF Mapped

(* A document that may be on the page.                                     *)
Good(d) == d \in Document /\ IsTree(d) /\ SpansFit(d)

\* Good in the form the proofs use.
LEMMA GoodForm ==
  ASSUME NEW d \in Document
  PROVE  Good(d) <=> /\ Tree(d)
                     /\ \A c \in In(d) \cap Columns : d.span[c] >= 1
                     /\ \A s \in In(d) \cap Sections : SumOf(Mapped(d.kids[s], d.span)) <= FullSpan
BY TreeForm, Zenon DEF Good, SpansFit, Total, Mapped

(* The columns of a section have spans.                                    *)
LEMMA ColumnsTyped ==
  ASSUME NEW d \in Document, Tree(d), NEW s \in Sections
  PROVE  /\ d.kids[s] \in Seq(Node) /\ ToSet(d.kids[s]) \subseteq In(d) \cap Columns
         /\ \A c \in ToSet(d.kids[s]) : d.span[c] \in Nat
<1>1. s \in Parent /\ KidKind(s) = Columns
  BY NodeKinds
<1>2. d.kids[s] \in Seq(Node) /\ ToSet(d.kids[s]) \subseteq In(d) \cap Columns
  BY <1>1, KidsTyped, InFacts DEF Tree, RightKinds
<1>3. QED BY <1>2 DEF Document

-----------------------------------------------------------------------------
(* removeNode.                                                             *)

\* removeNode: the subtree is emptied, and the node is taken from every list.
LEMMA RemoveTyped ==
  ASSUME NEW d \in Document, Tree(d), NEW id \in Node
  PROVE  /\ removeNode(d, id) \in Document
         /\ \A x \in Below(d, id) : removeNode(d, id).kids[x] = <<>>
         /\ \A x \in Parent \ Below(d, id) :
              /\ removeNode(d, id).kids[x] = RemoveFirst(d.kids[x], id)
              /\ Distinct(removeNode(d, id).kids[x])
              /\ ToSet(removeNode(d, id).kids[x]) = ToSet(d.kids[x]) \ {id}
         /\ \A c \in Columns : removeNode(d, id).span[c] = IF c \in Below(d, id) THEN 0 ELSE d.span[c]
         /\ removeNode(d, id).locked = d.locked \ Below(d, id)
<1> DEFINE e == removeNode(d, id)
           B == Below(d, id)
<1>1. /\ e.kids = [x \in Parent |-> IF x \in B THEN <<>> ELSE RemoveFirst(d.kids[x], id)]
      /\ e.span = [c \in Columns |-> IF c \in B THEN 0 ELSE d.span[c]]
      /\ e.locked = d.locked \ B
      /\ e = [kids |-> e.kids, span |-> e.span, locked |-> e.locked]
  BY DEF removeNode
<1>2. \A x \in Parent : /\ d.kids[x] \in Seq(Node) /\ Distinct(d.kids[x])
  BY KidsTyped DEF Tree, Apart
<1>3. \A x \in Parent : /\ RemoveFirst(d.kids[x], id) \in Seq(Node) /\ Distinct(RemoveFirst(d.kids[x], id))
                        /\ ToSet(RemoveFirst(d.kids[x], id)) = ToSet(d.kids[x]) \ {id}
  BY <1>2, WithoutFacts
<1>4. <<>> \in Seq(Node)
  BY EmptyList
<1>5. B \subseteq Parent
  BY BelowUp, NodeKinds
<1>6. d.span \in [Columns -> Nat] /\ d.locked \in SUBSET Node
  BY DEF Document
<1> HIDE DEF e, B
<1>7. e.kids \in [Parent -> Seq(Node)]
  BY <1>1, <1>3, <1>4
<1>8. e.span \in [Columns -> Nat] /\ e.locked \in SUBSET Node
  BY <1>1, <1>6
<1>9. e \in Document
  BY <1>1, <1>7, <1>8 DEF Document
<1>10. QED BY <1>1, <1>3, <1>5, <1>9 DEF e, B

\* removeNode takes the subtree and nothing else.
LEMMA RemoveIn ==
  ASSUME NEW d \in Document, Tree(d), NEW id \in Node
  PROVE  In(removeNode(d, id)) = In(d) \ Below(d, id)
<1> DEFINE e == removeNode(d, id)
           B == Below(d, id)
<1>1. /\ \A x \in B : e.kids[x] = <<>>
      /\ \A x \in Parent \ B : ToSet(e.kids[x]) = ToSet(d.kids[x]) \ {id}
  BY RemoveTyped
<1>2. /\ id \in B /\ B \subseteq Node
      /\ \A x \in B : ToSet(d.kids[x]) \subseteq B
      /\ \A x \in Parent : \A z \in ToSet(d.kids[x]) : z \in B /\ z # id => x \in B
  BY BelowUp
<1> HIDE DEF e, B
<1>3. In(e) \subseteq In(d) \ B
  BY <1>1, <1>2, EmptyList DEF In
<1>4. In(d) \ B \subseteq In(e)
  BY <1>1, <1>2 DEF In
<1>5. QED BY <1>3, <1>4 DEF e, B

\* removeNode leaves a tree: the rest is still reached from the root.
LEMMA RemoveTree ==
  ASSUME NEW d \in Document, Tree(d), NEW id \in Node
  PROVE  Tree(removeNode(d, id))
<1> DEFINE e == removeNode(d, id)
           B == Below(d, id)
<1>1. /\ e \in Document /\ e.locked = d.locked \ B
      /\ \A x \in B : e.kids[x] = <<>>
      /\ \A x \in Parent \ B : /\ Distinct(e.kids[x]) /\ e.kids[x] = RemoveFirst(d.kids[x], id)
                               /\ ToSet(e.kids[x]) = ToSet(d.kids[x]) \ {id}
  BY RemoveTyped
<1>2. /\ id \in B /\ B \subseteq Node
      /\ \A x \in B : ToSet(d.kids[x]) \subseteq B
      /\ \A x \in Parent : \A z \in ToSet(d.kids[x]) : z \in B /\ z # id => x \in B
  BY BelowUp
<1>3. In(e) = In(d) \ B
  BY RemoveIn
<1> HIDE DEF e, B
<1>4. \A x \in Parent : ToSet(e.kids[x]) \subseteq ToSet(d.kids[x]) /\ Distinct(e.kids[x])
  BY <1>1, EmptyList
<1>5. Apart(e.kids, Parent) /\ RightKinds(e.kids, Parent)
  BY <1>4 DEF Tree, Apart, RightKinds
<1>6. e.locked \subseteq In(e)
  BY <1>1, <1>3 DEF Tree
<1>7. Reached(e)
  <2> DEFINE T == Below(e, Root) \cup B
  <2>1. /\ Root \in Below(e, Root) /\ Below(e, Root) \subseteq Parent
        /\ \A x \in Below(e, Root) : ToSet(e.kids[x]) \subseteq Below(e, Root)
    BY <1>1, BelowFacts, NodeKinds DEF Closed
  <2>2. T \in SUBSET Parent /\ Root \in T
    BY <1>2, <2>1, NodeKinds
  <2>3. Closed(d, T)
    <3>1. ASSUME NEW x \in T, NEW z \in ToSet(d.kids[x]) PROVE z \in T
      BY <1>1, <1>2, <2>1, <3>1
    <3>2. QED BY <3>1 DEF Closed
  <2>4. Below(d, Root) \subseteq T
    <3> HIDE DEF T
    <3>1. QED BY <2>2, <2>3, BelowFacts, NodeKinds
  <2>5. ASSUME NEW x \in Parent \ Below(e, Root) PROVE e.kids[x] = <<>>
    <3>1. CASE x \in B
      BY <1>1, <3>1
    <3>2. CASE x \notin B
      <4>1. d.kids[x] = <<>>
        BY <2>4, <3>2 DEF Tree, Reached
      <4>2. RemoveFirst(<<>>, id) = <<>>
        BY EmptyList DEF RemoveFirst
      <4>3. QED BY <1>1, <3>2, <4>1, <4>2
    <3>3. QED BY <3>1, <3>2
  <2>6. QED BY <2>5 DEF Reached
<1>8. QED BY <1>5, <1>6, <1>7 DEF Tree, e

\* A section that loses a column does not get wider.
LEMMA RemoveSpans ==
  ASSUME NEW S, NEW k \in Seq(S), NEW id, NEW f, NEW g,
         \A c \in ToSet(k) : f[c] \in Nat,
         \A c \in ToSet(k) \ {id} : g[c] = f[c], Distinct(k)
  PROVE  SumOf(Mapped(RemoveFirst(k, id), g)) <= SumOf(Mapped(k, f))
<1> DEFINE t == RemoveFirst(k, id)
<1>1. t \in Seq(S) /\ ToSet(t) = ToSet(k) \ {id}
  BY WithoutFacts
<1>2. Mapped(t, g) = Mapped(t, f)
  BY <1>1, SpansSame
<1>3. /\ Mapped(k, f) \in Seq(Nat) /\ Len(Mapped(k, f)) = Len(k)
      /\ \A i \in 1..Len(k) : Mapped(k, f)[i] = f[k[i]]
  BY SpansTyped
<1>4. /\ Mapped(t, f) \in Seq(Nat) /\ Len(Mapped(t, f)) = Len(t)
      /\ \A i \in 1..Len(t) : Mapped(t, f)[i] = f[t[i]]
  <2>1. \A c \in ToSet(t) : f[c] \in Nat
    BY <1>1
  <2> HIDE DEF t
  <2>2. QED BY <1>1, <2>1, SpansTyped
<1>5. CASE t = k
  BY <1>2, <1>3, <1>5, SumTyped
<1>6. ASSUME NEW at \in 1..Len(k), IsWithout(k, t, at) PROVE SumOf(Mapped(t, f)) <= SumOf(Mapped(k, f))
  <2> DEFINE a == Mapped(k, f)
             b == Mapped(t, f)
  <2>1. Len(k) \in Nat /\ Len(t) \in Nat /\ Len(t) = Len(k) - 1
    BY <1>1, <1>6, NumberAt DEF IsWithout
  <2>2. \A i \in 1..Len(t) : b[i] = IF i < at THEN a[i] ELSE a[i + 1]
    <3>1. ASSUME NEW i \in 1..Len(t) PROVE b[i] = IF i < at THEN a[i] ELSE a[i + 1]
      <4>1. b[i] = f[t[i]] /\ t[i] = IF i < at THEN k[i] ELSE k[i + 1]
        BY <1>4, <1>6 DEF IsWithout
      <4>2. i \in 1..Len(k) /\ i + 1 \in 1..Len(k)
        BY <2>1
      <4>3. a[i] = f[k[i]] /\ a[i + 1] = f[k[i + 1]]
        BY <1>3, <4>2
      <4> HIDE DEF a, b, t
      <4>4. QED BY <4>1, <4>3
    <3>2. QED BY <3>1
  <2> HIDE DEF a, b, t
  <2>3. a \in Seq(Nat) /\ b \in Seq(Nat) /\ Len(a) = Len(k) /\ Len(b) = Len(t)
    BY <1>3, <1>4 DEF a, b
  <2>4. SumOf(b) <= SumOf(a)
    BY <2>1, <2>2, <2>3, SumRemove
  <2>5. QED BY <2>4 DEF a, b
<1>7. QED BY <1>2, <1>5, <1>6, WithoutIs

\* removeNode of any good document leaves a good one, without the node and what is
\* below it and with every other node.  tree.ts:104-120.
THEOREM RemoveGood ==
  ASSUME NEW d, Good(d), NEW id \in Node
  PROVE  Good(removeNode(d, id)) /\ In(removeNode(d, id)) = In(d) \ Below(d, id)
<1> DEFINE e == removeNode(d, id)
           B == Below(d, id)
<1>1. d \in Document
  BY DEF Good
<1>2. /\ Tree(d) /\ \A c \in In(d) \cap Columns : d.span[c] >= 1
      /\ \A s \in In(d) \cap Sections : SumOf(Mapped(d.kids[s], d.span)) <= FullSpan
  BY <1>1, GoodForm
<1>3. /\ e \in Document
      /\ \A x \in B : e.kids[x] = <<>>
      /\ \A x \in Parent \ B : e.kids[x] = RemoveFirst(d.kids[x], id)
      /\ \A c \in Columns : e.span[c] = IF c \in B THEN 0 ELSE d.span[c]
  BY <1>1, <1>2, RemoveTyped
<1>4. In(e) = In(d) \ B /\ Tree(e)
  BY <1>1, <1>2, RemoveIn, RemoveTree
<1>5. \A c \in In(e) \cap Columns : e.span[c] >= 1
  BY <1>2, <1>3, <1>4
<1>6. ASSUME NEW s \in In(e) \cap Sections PROVE SumOf(Mapped(e.kids[s], e.span)) <= FullSpan
  <2>1. s \in In(d) \cap Sections /\ s \in Parent \ B
    BY <1>4, NodeKinds
  <2>2. /\ d.kids[s] \in Seq(Node) /\ Distinct(d.kids[s])
        /\ \A c \in ToSet(d.kids[s]) : c \in Columns /\ d.span[c] \in Nat
    BY <1>1, <1>2, <2>1, ColumnsTyped DEF Tree, Apart
  <2>3. \A c \in ToSet(d.kids[s]) \ {id} : c \notin B
    BY <1>1, <1>2, <2>1, BelowUp
  <2>4. \A c \in ToSet(d.kids[s]) \ {id} : e.span[c] = d.span[c]
    BY <1>3, <2>2, <2>3
  <2>5. SumOf(Mapped(RemoveFirst(d.kids[s], id), e.span)) <= SumOf(Mapped(d.kids[s], d.span))
    <3> HIDE DEF e
    <3>1. QED BY <2>2, <2>4, RemoveSpans
  <2>6. SumOf(Mapped(d.kids[s], d.span)) <= FullSpan /\ SumOf(Mapped(d.kids[s], d.span)) \in Nat
    BY <1>2, <2>1, <2>2, SpansTyped, SumTyped
  <2>7. SumOf(Mapped(e.kids[s], e.span)) \in Nat
    <3>1. e.kids[s] \in Seq(Node) /\ \A c \in ToSet(e.kids[s]) : e.span[c] \in Nat
      <4> HIDE DEF e
      <4>1. QED BY <1>3, <1>4, <2>1, ColumnsTyped
    <3>2. QED BY <3>1, SpansTyped, SumTyped
  <2>8. QED BY <1>3, <2>1, <2>5, <2>6, <2>7, TreeAssumption
<1>7. QED BY <1>3, <1>4, <1>5, <1>6, GoodForm

-----------------------------------------------------------------------------
(* Parts of documents, as they are moved, cloned and kept on the clipboard. *)

IsPart(p) ==
  /\ p.root \in DOMAIN p.kids /\ DOMAIN p.kids \subseteq Node
  /\ p.kids \in [DOMAIN p.kids -> Seq(DOMAIN p.kids \ {p.root})]
  /\ p.span \in [DOMAIN p.kids \cap Columns -> Nat \ {0}]
  /\ p.locked \subseteq DOMAIN p.kids
  /\ Apart(p.kids, DOMAIN p.kids) /\ RightKinds(p.kids, DOMAIN p.kids)
  /\ \A S \in SUBSET DOMAIN p.kids :
       p.root \in S /\ (\A x \in S : ToSet(p.kids[x]) \subseteq S) => S = DOMAIN p.kids
  /\ \A s \in DOMAIN p.kids \cap Sections : SumOf(Mapped(p.kids[s], p.span)) <= FullSpan

\* The children in a part are nodes of the part, and all but the root are children.
LEMMA PartKids ==
  ASSUME NEW p, IsPart(p)
  PROVE  /\ \A x \in DOMAIN p.kids : /\ p.kids[x] \in Seq(DOMAIN p.kids \ {p.root})
                                     /\ p.kids[x] \in Seq(Node)
                                     /\ ToSet(p.kids[x]) \subseteq DOMAIN p.kids \ {p.root}
         /\ \A z \in DOMAIN p.kids \ {p.root} : \E x \in DOMAIN p.kids : z \in ToSet(p.kids[x])
<1> DEFINE X == DOMAIN p.kids
<1>1. ASSUME NEW x \in X
      PROVE  /\ p.kids[x] \in Seq(X \ {p.root}) /\ p.kids[x] \in Seq(Node)
             /\ ToSet(p.kids[x]) \subseteq X \ {p.root}
  <2>1. p.kids[x] \in Seq(X \ {p.root}) /\ X \ {p.root} \subseteq Node
    BY <1>1 DEF IsPart
  <2>2. ToSet(p.kids[x]) \subseteq X \ {p.root}
    BY <2>1, Members
  <2> HIDE DEF X
  <2>3. p.kids[x] \in Seq(Node)
    BY <2>1
  <2>4. QED BY <2>1, <2>2, <2>3
<1>2. ASSUME NEW z \in X \ {p.root} PROVE \E x \in X : z \in ToSet(p.kids[x])
  <2> DEFINE S == {y \in X : y = p.root \/ \E x \in X : y \in ToSet(p.kids[x])}
  <2>1. S \in SUBSET X /\ p.root \in S /\ \A x \in S : ToSet(p.kids[x]) \subseteq S
    BY <1>1 DEF IsPart
  <2>2. S = X
    <3> HIDE DEF S
    <3>1. QED BY <2>1 DEF IsPart
  <2>3. QED BY <2>2
<1>3. QED BY <1>1, <1>2

(* A node of a document with what is below it.                             *)
LEMMA PartGood ==
  ASSUME NEW d, Good(d), NEW id \in In(d)
  PROVE  /\ IsPart(Part(d, id)) /\ Part(d, id).root = id
         /\ DOMAIN Part(d, id).kids = Below(d, id) /\ Below(d, id) \subseteq In(d)
         /\ \A x \in Below(d, id) : Part(d, id).kids[x] = d.kids[x]
         /\ \A c \in Below(d, id) \cap Columns : Part(d, id).span[c] = d.span[c]
<1> DEFINE p == Part(d, id)
           B == Below(d, id)
<1>1. /\ p.root = id /\ p.kids = [x \in B |-> d.kids[x]]
      /\ p.span = [c \in B \cap Columns |-> d.span[c]] /\ p.locked = d.locked \cap B
  BY DEF Part
<1>2. /\ d \in Document /\ Tree(d) /\ \A c \in In(d) \cap Columns : d.span[c] >= 1
      /\ \A s \in In(d) \cap Sections : SumOf(Mapped(d.kids[s], d.span)) <= FullSpan
  BY GoodForm DEF Good
<1>3. id \in Node
  BY <1>2, InFacts
<1>4. /\ id \in B /\ B \subseteq Node /\ B \subseteq Parent
      /\ \A x \in B : ToSet(d.kids[x]) \subseteq B
  BY <1>2, <1>3, BelowUp, NodeKinds
<1>5. B \subseteq In(d) /\ \A x \in B : id \notin ToSet(d.kids[x])
  BY <1>2, Acyclic
<1> HIDE DEF p, B
<1>6. p.kids \in [B -> Seq(B \ {id})]
  <2>1. ASSUME NEW x \in B PROVE d.kids[x] \in Seq(B \ {id})
    <3>1. d.kids[x] \in Seq(Node) /\ ToSet(d.kids[x]) \subseteq B \ {id}
      BY <1>2, <1>4, <1>5, KidsTyped
    <3>2. Len(d.kids[x]) \in Nat /\ DOMAIN d.kids[x] = 1..Len(d.kids[x])
          /\ \A i \in 1..Len(d.kids[x]) : d.kids[x][i] \in B \ {id}
      BY <3>1, NumberAt, Members
    <3>3. QED BY <3>1, <3>2
  <2>2. QED BY <1>1, <2>1
<1>7. p.span \in [B \cap Columns -> Nat \ {0}]
  <2>1. \A c \in B \cap Columns : d.span[c] \in Nat \ {0}
    BY <1>2, <1>5 DEF Document
  <2>2. QED BY <1>1, <2>1
<1>8. Apart(p.kids, B) /\ RightKinds(p.kids, B)
  BY <1>1, <1>2, <1>4 DEF Tree, Apart, RightKinds
<1>9. ASSUME NEW S \in SUBSET B, id \in S, \A x \in S : ToSet(p.kids[x]) \subseteq S
      PROVE  S = B
  <2>1. S \in SUBSET Parent /\ Closed(d, S)
    BY <1>1, <1>4, <1>9 DEF Closed
  <2>2. id \in Parent
    BY <1>3, NodeKinds
  <2>3. Below(d, id) \subseteq S
    BY <1>2, <1>9, <2>1, <2>2, BelowFacts
  <2>4. QED BY <2>3 DEF B
<1>10. ASSUME NEW s \in B \cap Sections PROVE SumOf(Mapped(p.kids[s], p.span)) <= FullSpan
  <2>1. /\ p.kids[s] = d.kids[s] /\ d.kids[s] \in Seq(Node)
        /\ ToSet(d.kids[s]) \subseteq B \cap Columns
    BY <1>1, <1>2, <1>4, ColumnsTyped
  <2>2. \A c \in ToSet(d.kids[s]) : p.span[c] = d.span[c]
    BY <1>1, <2>1
  <2>3. Mapped(p.kids[s], p.span) = Mapped(d.kids[s], d.span)
    BY <2>1, <2>2, SpansSame
  <2>4. QED BY <1>2, <1>5, <2>3
<1>11. IsPart(p)
  <2>1. DOMAIN p.kids = B /\ p.locked \subseteq B
    BY <1>1
  <2>2. QED BY <1>1, <1>4, <1>6, <1>7, <1>8, <1>9, <1>10, <2>1 DEF IsPart
<1>12. QED BY <1>1, <1>5, <1>11 DEF p, B

-----------------------------------------------------------------------------
(* A part is put into a document.                                          *)

\* Over: the values of f, and those of g elsewhere.
LEMMA Merge ==
  ASSUME NEW f, NEW g
  PROVE  /\ DOMAIN Over(f, g) = DOMAIN f \cup DOMAIN g
         /\ Over(f, g) = [x \in DOMAIN f \cup DOMAIN g |-> Over(f, g)[x]]
         /\ \A x \in DOMAIN f : Over(f, g)[x] = f[x]
         /\ \A x \in DOMAIN g : x \notin DOMAIN f => Over(f, g)[x] = g[x]
BY DEF Over

(* e is d with the part p at the end of the node at, or between its        *)
(* children.                                                               *)
Grafted(d, p, at, e) ==
  /\ e \in Document /\ at \in In(d) \cup {Root} /\ p.root \in KidKind(at)
  /\ DOMAIN p.kids \cap In(d) = {}
  /\ \A x \in DOMAIN p.kids : e.kids[x] = p.kids[x]
  /\ \A x \in Parent \ DOMAIN p.kids : x # at => e.kids[x] = d.kids[x]
  /\ Distinct(e.kids[at]) /\ ToSet(e.kids[at]) = ToSet(d.kids[at]) \cup {p.root}
  /\ e.locked = d.locked \cup p.locked

\* A grafted part brings its nodes and no others.
LEMMA GraftIn ==
  ASSUME NEW d \in Document, Tree(d), NEW p, IsPart(p), NEW at, NEW e, Grafted(d, p, at, e)
  PROVE  In(e) = In(d) \cup DOMAIN p.kids
<1> DEFINE X == DOMAIN p.kids
<1>1. /\ e \in Document /\ at \in Parent /\ X \cap In(d) = {} /\ X \subseteq Parent /\ at \notin X
      /\ \A x \in X : e.kids[x] = p.kids[x]
      /\ \A x \in Parent \ X : x # at => e.kids[x] = d.kids[x]
      /\ ToSet(e.kids[at]) = ToSet(d.kids[at]) \cup {p.root} /\ p.root \in X
  BY InFacts, NodeKinds DEF Grafted, IsPart
<1>2. /\ \A x \in X : ToSet(p.kids[x]) \subseteq X
      /\ \A z \in X \ {p.root} : \E x \in X : z \in ToSet(p.kids[x])
  BY PartKids
<1>3. /\ \A x \in Parent : x \notin In(d) /\ x # Root => d.kids[x] = <<>>
      /\ \A z \in In(d) : \E x \in In(d) \cup {Root} : z \in ToSet(d.kids[x])
      /\ Root \notin X /\ \A x \in Parent : ToSet(d.kids[x]) \subseteq In(d)
  BY InReached, InFacts, NodeKinds DEF IsPart
<1> HIDE DEF X
<1>4. In(e) \subseteq In(d) \cup X
  BY <1>1, <1>2, <1>3 DEF In
<1>5. ASSUME NEW z \in In(d) PROVE z \in In(e)
  <2>1. PICK x \in In(d) \cup {Root} : z \in ToSet(d.kids[x])
    BY <1>3
  <2>2. x \in Parent \ X
    BY <1>1, <1>3, InFacts, NodeKinds
  <2>3. z \in ToSet(e.kids[x])
    BY <1>1, <2>1, <2>2
  <2>4. QED BY <1>1, <2>2, <2>3, InFacts
<1>6. ASSUME NEW z \in X PROVE z \in In(e)
  <2>1. CASE z = p.root
    BY <1>1, <2>1, InFacts
  <2>2. CASE z # p.root
    BY <1>1, <1>2, <2>2, InFacts
  <2>3. QED BY <2>1, <2>2
<1>7. QED BY <1>4, <1>5, <1>6 DEF X

\* A tree with a part grafted on is a tree.
LEMMA GraftTree ==
  ASSUME NEW d \in Document, Tree(d), NEW p, IsPart(p), NEW at, NEW e, Grafted(d, p, at, e)
  PROVE  Tree(e)
<1> DEFINE X == DOMAIN p.kids
<1>1. /\ e \in Document /\ at \in Parent /\ X \cap In(d) = {} /\ X \subseteq Parent /\ at \notin X
      /\ \A x \in X : e.kids[x] = p.kids[x]
      /\ \A x \in Parent \ X : x # at => e.kids[x] = d.kids[x]
      /\ ToSet(e.kids[at]) = ToSet(d.kids[at]) \cup {p.root} /\ p.root \in X
      /\ at \in In(d) \cup {Root} /\ Root \notin X /\ p.root \in KidKind(at)
      /\ Distinct(e.kids[at]) /\ e.locked = d.locked \cup p.locked /\ p.locked \subseteq X
  BY InFacts, NodeKinds DEF Grafted, IsPart
<1>2. \A x \in X : ToSet(p.kids[x]) \subseteq X \ {p.root}
  BY PartKids
<1>3. /\ Apart(p.kids, X) /\ RightKinds(p.kids, X)
      /\ \A S \in SUBSET X :
           p.root \in S /\ (\A x \in S : ToSet(p.kids[x]) \subseteq S) => S = X
  BY DEF IsPart
<1>4. /\ Apart(d.kids, Parent) /\ RightKinds(d.kids, Parent) /\ Reached(d)
      /\ d.locked \subseteq In(d) /\ Below(d, Root) = In(d) \cup {Root}
      /\ \A x \in Parent : ToSet(d.kids[x]) \subseteq In(d)
  BY InReached, InFacts DEF Tree
<1>5. In(e) = In(d) \cup X
  BY GraftIn
<1> HIDE DEF X
<1>6. Apart(e.kids, Parent)
  <2>1. ASSUME NEW x \in Parent PROVE Distinct(e.kids[x])
    BY <1>1, <1>3, <1>4 DEF Apart
  <2>2. ASSUME NEW x \in Parent, NEW y \in Parent, NEW z \in ToSet(e.kids[x]),
               z \in ToSet(e.kids[y])
        PROVE  x = y
    <3>1. CASE z \in X /\ z # p.root
      <4>1. x \in X /\ y \in X
        BY <1>1, <1>4, <2>2, <3>1
      <4>2. QED BY <1>1, <1>3, <2>2, <4>1 DEF Apart
    <3>2. CASE z = p.root
      <4>1. x = at /\ y = at
        BY <1>1, <1>2, <1>4, <2>2, <3>2
      <4>2. QED BY <4>1
    <3>3. CASE z \notin X
      <4>1. x \notin X /\ y \notin X
        BY <1>1, <1>2, <2>2, <3>3
      <4>2. z \in ToSet(d.kids[x]) /\ z \in ToSet(d.kids[y])
        BY <1>1, <2>2, <3>3, <4>1
      <4>3. QED BY <1>4, <4>2 DEF Apart
    <3>4. QED BY <3>1, <3>2, <3>3
  <2>3. QED BY <2>1, <2>2 DEF Apart
<1>7. RightKinds(e.kids, Parent)
  <2>1. ASSUME NEW x \in Parent PROVE ToSet(e.kids[x]) \subseteq KidKind(x)
    <3>1. CASE x \in X
      BY <1>1, <1>3, <3>1 DEF RightKinds
    <3>2. CASE x = at
      BY <1>1, <1>4, <3>2 DEF RightKinds
    <3>3. CASE x \notin X /\ x # at
      BY <1>1, <1>4, <3>3 DEF RightKinds
    <3>4. QED BY <3>1, <3>2, <3>3
  <2>2. QED BY <2>1 DEF RightKinds
<1>8. e.locked \subseteq In(e)
  BY <1>1, <1>4, <1>5
<1>9. Reached(e)
  <2> DEFINE T == Below(e, Root)
             S == {x \in Below(d, Root) : x \in T}
             R == {x \in X : x \in T}
  <2>1. /\ Root \in T /\ T \subseteq Parent /\ \A x \in T : ToSet(e.kids[x]) \subseteq T
    BY <1>1, BelowFacts, NodeKinds DEF Closed
  <2>2. /\ Root \in Below(d, Root) /\ Below(d, Root) \subseteq Parent
        /\ \A x \in Below(d, Root) : ToSet(d.kids[x]) \subseteq Below(d, Root)
    BY BelowFacts, NodeKinds DEF Closed
  <2>3. \A x \in Below(d, Root) : x \notin X
    BY <1>1, <1>4
  <2> HIDE DEF T
  <2>4. S \in SUBSET Parent /\ Root \in S
    BY <2>1, <2>2
  <2>5. Closed(d, S)
    <3>1. ASSUME NEW x \in S, NEW z \in ToSet(d.kids[x]) PROVE z \in S
      <4>1. z \in ToSet(e.kids[x])
        BY <1>1, <2>2, <2>3, <3>1
      <4>2. QED BY <2>1, <2>2, <3>1, <4>1
    <3>2. QED BY <3>1 DEF Closed
  <2>6. Below(d, Root) \subseteq T
    <3>1. Below(d, Root) \subseteq S
      <4> HIDE DEF S
      <4>1. QED BY <2>4, <2>5, BelowFacts, NodeKinds
    <3>2. QED BY <3>1
  <2>7. X \subseteq T
    <3>1. p.root \in R
      BY <1>1, <1>4, <2>1, <2>6
    <3>2. \A x \in R : ToSet(p.kids[x]) \subseteq R
      BY <1>1, <1>2, <2>1
    <3>3. R = X
      <4>1. R \in SUBSET X
        OBVIOUS
      <4> HIDE DEF R
      <4>2. QED BY <1>3, <3>1, <3>2, <4>1
    <3>4. QED BY <3>3
  <2>8. ASSUME NEW x \in Parent \ T PROVE e.kids[x] = <<>>
    <3>1. x \notin X /\ x \notin Below(d, Root) /\ x # at
      BY <1>1, <1>4, <2>6, <2>7
    <3>2. QED BY <1>1, <1>4, <3>1 DEF Reached
  <2>9. QED BY <2>8 DEF Reached, T
<1>10. QED BY <1>6, <1>7, <1>8, <1>9 DEF Tree

(* The spans come with the part.                                           *)
LEMMA GraftGood ==
  ASSUME NEW d, Good(d), NEW p, IsPart(p), p.root \in Sections \cup Widgets,
         NEW at, NEW e, Grafted(d, p, at, e),
         \A c \in DOMAIN p.kids \cap Columns : e.span[c] = p.span[c],
         \A c \in Columns \ DOMAIN p.kids : e.span[c] = d.span[c]
  PROVE  Good(e) /\ In(e) = In(d) \cup DOMAIN p.kids
<1> DEFINE X == DOMAIN p.kids
<1>1. /\ d \in Document /\ Tree(d) /\ \A c \in In(d) \cap Columns : d.span[c] >= 1
      /\ \A s \in In(d) \cap Sections : SumOf(Mapped(d.kids[s], d.span)) <= FullSpan
  BY GoodForm DEF Good
<1>2. In(e) = In(d) \cup X /\ Tree(e) /\ e \in Document
  BY <1>1, GraftIn, GraftTree DEF Grafted
<1>3. /\ X \cap In(d) = {} /\ p.span \in [X \cap Columns -> Nat \ {0}]
      /\ \A x \in X : e.kids[x] = p.kids[x] /\ p.kids[x] \in Seq(Node)
      /\ \A x \in Parent \ X : x # at => e.kids[x] = d.kids[x]
      /\ at \notin Sections
  BY PartKids, NodeKinds, TreeAssumption DEF Grafted, IsPart
<1>4. ASSUME NEW c \in In(e) \cap Columns PROVE e.span[c] >= 1
  <2>1. CASE c \in X
    BY <1>3, <2>1
  <2>2. CASE c \notin X
    BY <1>1, <1>2, <2>2
  <2>3. QED BY <2>1, <2>2
<1>5. ASSUME NEW s \in In(e) \cap Sections PROVE SumOf(Mapped(e.kids[s], e.span)) <= FullSpan
  <2>1. CASE s \in X
    <3>0. p.kids[s] \in Seq(Node) /\ ToSet(p.kids[s]) \subseteq X
      BY <2>1, PartKids
    <3>1. ToSet(p.kids[s]) \subseteq Columns
      <4>1. ToSet(p.kids[s]) \subseteq KidKind(s) /\ s \in Sections
        BY <2>1 DEF IsPart, RightKinds
      <4>2. QED BY <4>1, NodeKinds
    <3>2. Mapped(p.kids[s], e.span) = Mapped(p.kids[s], p.span)
      <4>1. \A c \in ToSet(p.kids[s]) : e.span[c] = p.span[c]
        BY <3>0, <3>1
      <4>2. QED BY <3>0, <4>1, SpansSame
    <3>3. QED BY <1>3, <2>1, <3>2 DEF IsPart
  <2>2. CASE s \notin X
    <3>1. s \in In(d) /\ s \in Parent
      BY <1>2, <2>2, NodeKinds
    <3>2. d.kids[s] \in Seq(Node) /\ ToSet(d.kids[s]) \subseteq In(d) \cap Columns
      BY <1>1, ColumnsTyped
    <3>3. Mapped(d.kids[s], e.span) = Mapped(d.kids[s], d.span)
      <4>1. \A c \in ToSet(d.kids[s]) : e.span[c] = d.span[c]
        BY <1>3, <3>2
      <4>2. QED BY <3>2, <4>1, SpansSame
    <3>4. QED BY <1>1, <1>3, <2>2, <3>1, <3>3
  <2>3. QED BY <2>1, <2>2
<1>6. QED BY <1>2, <1>4, <1>5, GoodForm

\* Clamp stays within its bounds.
LEMMA ClampFits ==
  ASSUME NEW i \in Nat, NEW n \in Nat
  PROVE  Clamp(i, 1, n + 1) \in 1..(n + 1)
BY DEF Clamp

(* What insert makes of a document that has the node at.                   *)
LEMMA InsertIs ==
  ASSUME NEW d \in Document, NEW p, IsPart(p), NEW at \in In(d) \cup {Root}, NEW i \in Nat,
         DOMAIN p.kids \cap In(d) = {}, Distinct(d.kids[at])
  PROVE  /\ insert(d, p, at, i) \in Document
         /\ \A x \in DOMAIN p.kids : insert(d, p, at, i).kids[x] = p.kids[x]
         /\ \A x \in Parent \ DOMAIN p.kids : x # at => insert(d, p, at, i).kids[x] = d.kids[x]
         /\ Distinct(insert(d, p, at, i).kids[at])
         /\ ToSet(insert(d, p, at, i).kids[at]) = ToSet(d.kids[at]) \cup {p.root}
         /\ insert(d, p, at, i).kids[at] = InsertAt(d.kids[at], Clamp(i, 1, Len(d.kids[at]) + 1), p.root)
         /\ insert(d, p, at, i).locked = d.locked \cup p.locked
         /\ \A c \in DOMAIN p.kids \cap Columns : insert(d, p, at, i).span[c] = p.span[c]
         /\ \A c \in Columns \ DOMAIN p.kids : insert(d, p, at, i).span[c] = d.span[c]
<1> DEFINE e == insert(d, p, at, i)
           X == DOMAIN p.kids
           over == Over(p.kids, d.kids)
<1>1. /\ e.kids = [over EXCEPT ![at] = InsertAt(@, Clamp(i, 1, Len(@) + 1), p.root)]
      /\ e.span = Over(p.span, d.span) /\ e.locked = d.locked \cup p.locked
      /\ e = [kids |-> e.kids, span |-> e.span, locked |-> e.locked]
  BY DEF insert
<1>2. /\ at \in Parent /\ at \notin X /\ X \subseteq Parent /\ p.root \in X /\ p.root \in Node
      /\ p.root \notin ToSet(d.kids[at])
  BY InFacts, NodeKinds DEF IsPart
<1>3. /\ DOMAIN d.kids = Parent /\ DOMAIN d.span = Columns /\ DOMAIN p.span = X \cap Columns
      /\ d.locked \subseteq Node /\ p.locked \subseteq Node
      /\ \A c \in Columns : d.span[c] \in Nat
      /\ \A c \in X \cap Columns : p.span[c] \in Nat
  BY DEF Document, IsPart
<1>4. /\ over = [x \in Parent |-> over[x]]
      /\ \A x \in X : over[x] = p.kids[x]
      /\ \A x \in Parent \ X : over[x] = d.kids[x]
  <2>1. /\ DOMAIN over = DOMAIN p.kids \cup DOMAIN d.kids
        /\ over = [x \in DOMAIN p.kids \cup DOMAIN d.kids |-> over[x]]
        /\ \A x \in DOMAIN p.kids : over[x] = p.kids[x]
        /\ \A x \in DOMAIN d.kids : x \notin DOMAIN p.kids => over[x] = d.kids[x]
    BY Merge, Zenon
  <2>2. DOMAIN p.kids \cup DOMAIN d.kids = Parent
    BY <1>2, <1>3
  <2> HIDE DEF over
  <2>3. QED BY <1>3, <2>1, <2>2
<1>5. /\ Over(p.span, d.span) = [c \in Columns |-> Over(p.span, d.span)[c]]
      /\ \A c \in X \cap Columns : Over(p.span, d.span)[c] = p.span[c]
      /\ \A c \in Columns \ X : Over(p.span, d.span)[c] = d.span[c]
  <2> DEFINE over2 == Over(p.span, d.span)
  <2>1. /\ DOMAIN over2 = DOMAIN p.span \cup DOMAIN d.span
        /\ over2 = [x \in DOMAIN p.span \cup DOMAIN d.span |-> over2[x]]
        /\ \A x \in DOMAIN p.span : over2[x] = p.span[x]
        /\ \A x \in DOMAIN d.span : x \notin DOMAIN p.span => over2[x] = d.span[x]
    BY Merge, Zenon
  <2>2. DOMAIN p.span \cup DOMAIN d.span = Columns
    BY <1>3
  <2> HIDE DEF over2, X
  <2>3. QED BY <1>3, <2>1, <2>2 DEF over2
<1> DEFINE j == Clamp(i, 1, Len(d.kids[at]) + 1)
           new == InsertAt(d.kids[at], j, p.root)
<1>6. d.kids[at] \in Seq(Node) /\ j \in 1..(Len(d.kids[at]) + 1)
  BY <1>2, KidsTyped, NumberAt, ClampFits
<1>7. new \in Seq(Node) /\ Distinct(new) /\ ToSet(new) = ToSet(d.kids[at]) \cup {p.root}
  <2> HIDE DEF j
  <2>1. QED BY <1>2, <1>6, InsertAtFacts
<1> HIDE DEF over, e, X
<1>8. e.kids = [x \in Parent |-> IF x = at THEN new ELSE over[x]]
  <2>1. DOMAIN over = Parent /\ over[at] = d.kids[at]
    BY <1>2, <1>4
  <2>2. e.kids = [over EXCEPT ![at] = new]
    BY <1>1, <2>1
  <2> HIDE DEF new, j
  <2>3. QED BY <1>4, <2>2
<1> HIDE DEF new, j
<1>9. e.kids[at] = new /\ \A x \in Parent : x # at => e.kids[x] = over[x]
  BY <1>2, <1>8
<1>10. \A x \in X : e.kids[x] = p.kids[x]
  BY <1>2, <1>4, <1>9
<1>11. \A x \in Parent \ X : x # at => e.kids[x] = d.kids[x]
  BY <1>4, <1>9
<1>12. e.kids \in [Parent -> Seq(Node)]
  <2>1. ASSUME NEW x \in Parent PROVE over[x] \in Seq(Node)
    BY <1>4, KidsTyped, PartKids DEF X
  <2>2. QED BY <1>7, <1>8, <2>1
<1>13. e.span \in [Columns -> Nat]
  <2>1. \A c \in Columns : Over(p.span, d.span)[c] \in Nat
    BY <1>3, <1>5
  <2>2. QED BY <1>1, <1>5, <2>1
<1>14. e \in Document
  BY <1>1, <1>3, <1>12, <1>13 DEF Document
<1>15. QED BY <1>1, <1>5, <1>7, <1>9, <1>10, <1>11, <1>14 DEF e, X, new, j

\* insert puts a part whose ids the document does not have under a node that may hold
\* it: the result is good and has the nodes of both.  Under a node the document does not
\* have, nothing happens.  tree.ts:192-210.
THEOREM InsertGood ==
  ASSUME NEW d, Good(d), NEW p, IsPart(p), p.root \in Sections \cup Widgets,
         NEW at, p.root \in KidKind(at), NEW i \in Nat, DOMAIN p.kids \cap In(d) = {}
  PROVE  /\ Good(insert(d, p, at, i))
         /\ at \in In(d) \cup {Root} => In(insert(d, p, at, i)) = In(d) \cup DOMAIN p.kids
         /\ at \notin In(d) \cup {Root} => insert(d, p, at, i) = d
<1>1. CASE at \notin In(d) \cup {Root}
  BY <1>1 DEF insert
<1>2. CASE at \in In(d) \cup {Root}
  <2> DEFINE e == insert(d, p, at, i)
  <2>1. d \in Document /\ Tree(d)
    BY GoodForm DEF Good
  <2>2. Distinct(d.kids[at])
    BY <1>2, <2>1, InFacts, NodeKinds DEF Tree, Apart
  <2>3. /\ e \in Document
        /\ \A x \in DOMAIN p.kids : e.kids[x] = p.kids[x]
        /\ \A x \in Parent \ DOMAIN p.kids : x # at => e.kids[x] = d.kids[x]
        /\ Distinct(e.kids[at])
        /\ ToSet(e.kids[at]) = ToSet(d.kids[at]) \cup {p.root}
        /\ e.locked = d.locked \cup p.locked
        /\ \A c \in DOMAIN p.kids \cap Columns : e.span[c] = p.span[c]
        /\ \A c \in Columns \ DOMAIN p.kids : e.span[c] = d.span[c]
    BY <1>2, <2>1, <2>2, InsertIs
  <2> HIDE DEF e
  <2>6. Grafted(d, p, at, e)
    BY <1>2, <2>3 DEF Grafted
  <2>4. Good(e) /\ In(e) = In(d) \cup DOMAIN p.kids
    BY <2>3, <2>6, GraftGood
  <2>5. QED BY <1>2, <2>4 DEF e
<1>3. QED BY <1>1, <1>2

-----------------------------------------------------------------------------
(* clone.                                                                  *)

(* The new ids that clone gives to the nodes of a part.                    *)
NewOf(d, p, kind) == CHOOSE f \in Renamings(d, p, kind) : TRUE
NewIds(d, p) ==
  Over(Over(NewOf(d, p, Sections), NewOf(d, p, Columns)),
       Over(NewOf(d, p, Containers), NewOf(d, p, Widgets \ Containers)))

\* New ids of a kind are of that kind, free and different.
LEMMA NewOfFacts ==
  ASSUME NEW d, NEW p, CanClone(d, p),
         NEW kind \in {Sections, Columns, Containers, Widgets \ Containers}
  PROVE  /\ DOMAIN NewOf(d, p, kind) = DOMAIN p.kids \cap kind
         /\ \A x \in DOMAIN p.kids \cap kind :
              NewOf(d, p, kind)[x] \in kind /\ NewOf(d, p, kind)[x] \notin In(d)
         /\ \A x, y \in DOMAIN p.kids \cap kind :
              NewOf(d, p, kind)[x] = NewOf(d, p, kind)[y] => x = y
<1> DEFINE f == NewOf(d, p, kind)
           X == DOMAIN p.kids
<1>1. f \in Renamings(d, p, kind)
  BY Zenon DEF NewOf, CanClone
<1>2. f \in [X \cap kind -> kind \ In(d)] /\ IsInjective(f)
  BY <1>1, Zenon DEF Renamings, Injection, Free
<1> HIDE DEF f, X
<1>3. DOMAIN f = X \cap kind /\ \A x \in X \cap kind : f[x] \in kind /\ f[x] \notin In(d)
  BY <1>2
<1>4. \A x, y \in X \cap kind : f[x] = f[y] => x = y
  BY <1>2, <1>3, Zenon DEF IsInjective
<1>5. QED BY <1>3, <1>4 DEF f, X

\* New ids of all kinds together are free, different and of the kind of the old ones.
LEMMA NewIdsFacts ==
  ASSUME NEW d, NEW p, IsPart(p), CanClone(d, p)
  PROVE  /\ DOMAIN NewIds(d, p) = DOMAIN p.kids
         /\ \A x \in DOMAIN p.kids : NewIds(d, p)[x] \in Node /\ NewIds(d, p)[x] \notin In(d)
         /\ \A x \in DOMAIN p.kids :
              \A kind \in {Sections, Columns, Containers, Widgets \ Containers} :
                x \in kind <=> NewIds(d, p)[x] \in kind
         /\ \A x, y \in DOMAIN p.kids : NewIds(d, p)[x] = NewIds(d, p)[y] => x = y
<1> DEFINE X == DOMAIN p.kids
           f1 == NewOf(d, p, Sections)
           f2 == NewOf(d, p, Columns)
           f3 == NewOf(d, p, Containers)
           f4 == NewOf(d, p, Widgets \ Containers)
           new == NewIds(d, p)
<1>0. new = Over(Over(f1, f2), Over(f3, f4))
  BY DEF NewIds
<1>1. /\ DOMAIN f1 = X \cap Sections /\ DOMAIN f2 = X \cap Columns
      /\ DOMAIN f3 = X \cap Containers /\ DOMAIN f4 = X \cap (Widgets \ Containers)
  BY NewOfFacts
<1>2. /\ \A x \in X \cap Sections : f1[x] \in Sections /\ f1[x] \notin In(d)
      /\ \A x \in X \cap Columns : f2[x] \in Columns /\ f2[x] \notin In(d)
      /\ \A x \in X \cap Containers : f3[x] \in Containers /\ f3[x] \notin In(d)
      /\ \A x \in X \cap (Widgets \ Containers) :
           f4[x] \in Widgets \ Containers /\ f4[x] \notin In(d)
  BY NewOfFacts
<1>3. /\ \A x, y \in X \cap Sections : f1[x] = f1[y] => x = y
      /\ \A x, y \in X \cap Columns : f2[x] = f2[y] => x = y
      /\ \A x, y \in X \cap Containers : f3[x] = f3[y] => x = y
      /\ \A x, y \in X \cap (Widgets \ Containers) : f4[x] = f4[y] => x = y
  BY NewOfFacts
<1>4. /\ X \subseteq Sections \cup Columns \cup Containers \cup (Widgets \ Containers)
      /\ Sections \cap Columns = {} /\ Sections \cap Containers = {}
      /\ Sections \cap (Widgets \ Containers) = {} /\ Columns \cap Containers = {}
      /\ Columns \cap (Widgets \ Containers) = {}
      /\ Sections \subseteq Node /\ Columns \subseteq Node /\ Containers \subseteq Node
      /\ Widgets \ Containers \subseteq Node
  BY TreeAssumption DEF IsPart, Node
<1> HIDE DEF f1, f2, f3, f4, X, new
<1>5. /\ DOMAIN new = X
      /\ \A x \in X \cap Sections : new[x] = f1[x]
      /\ \A x \in X \cap Columns : new[x] = f2[x]
      /\ \A x \in X \cap Containers : new[x] = f3[x]
      /\ \A x \in X \cap (Widgets \ Containers) : new[x] = f4[x]
  <2> DEFINE g == Over(f1, f2)
             h == Over(f3, f4)
  <2>1. /\ DOMAIN g = DOMAIN f1 \cup DOMAIN f2
        /\ \A x \in DOMAIN f1 : g[x] = f1[x]
        /\ \A x \in DOMAIN f2 : x \notin DOMAIN f1 => g[x] = f2[x]
    BY Merge
  <2>2. /\ DOMAIN h = DOMAIN f3 \cup DOMAIN f4
        /\ \A x \in DOMAIN f3 : h[x] = f3[x]
        /\ \A x \in DOMAIN f4 : x \notin DOMAIN f3 => h[x] = f4[x]
    BY Merge
  <2>3. new = Over(g, h)
    BY <1>0
  <2> HIDE DEF g, h
  <2>4. /\ DOMAIN new = DOMAIN g \cup DOMAIN h
        /\ \A x \in DOMAIN g : new[x] = g[x]
        /\ \A x \in DOMAIN h : x \notin DOMAIN g => new[x] = h[x]
    <3>1. /\ DOMAIN Over(g, h) = DOMAIN g \cup DOMAIN h
          /\ \A x \in DOMAIN g : Over(g, h)[x] = g[x]
          /\ \A x \in DOMAIN h : x \notin DOMAIN g => Over(g, h)[x] = h[x]
      BY Merge
    <3>2. QED BY <2>3, <3>1, Zenon
  <2>5. DOMAIN g = X \cap (Sections \cup Columns) /\ DOMAIN h = X \cap Widgets
    BY <1>1, <2>1, <2>2, TreeAssumption
  <2>6. DOMAIN new = X
    BY <1>4, <2>4, <2>5, TreeAssumption
  <2>7. \A x \in X \cap (Sections \cup Columns) : new[x] = g[x]
    BY <2>4, <2>5
  <2>8. \A x \in X \cap Widgets : new[x] = h[x]
    BY <2>4, <2>5, TreeAssumption
  <2>9. QED BY <1>1, <1>4, <2>1, <2>2, <2>6, <2>7, <2>8, TreeAssumption
<1>6. /\ \A x \in X \cap Sections : new[x] \in Sections /\ new[x] \notin In(d)
      /\ \A x \in X \cap Columns : new[x] \in Columns /\ new[x] \notin In(d)
      /\ \A x \in X \cap Containers : new[x] \in Containers /\ new[x] \notin In(d)
      /\ \A x \in X \cap (Widgets \ Containers) :
           new[x] \in Widgets \ Containers /\ new[x] \notin In(d)
  BY <1>2, <1>5
<1>7. \A x \in X : new[x] \in Node /\ new[x] \notin In(d)
  BY <1>4, <1>6
<1>8. ASSUME NEW x \in X
      PROVE  /\ x \in Sections <=> new[x] \in Sections
             /\ x \in Columns <=> new[x] \in Columns
             /\ x \in Containers <=> new[x] \in Containers
             /\ x \in Widgets \ Containers <=> new[x] \in Widgets \ Containers
  BY <1>4, <1>6
<1>9. ASSUME NEW x \in X, NEW y \in X, new[x] = new[y] PROVE x = y
  <2>1. CASE x \in Sections
    BY <1>3, <1>5, <1>8, <1>9, <2>1
  <2>2. CASE x \in Columns
    BY <1>3, <1>5, <1>8, <1>9, <2>2
  <2>3. CASE x \in Containers
    BY <1>3, <1>5, <1>8, <1>9, <2>3
  <2>4. CASE x \in Widgets \ Containers
    BY <1>3, <1>5, <1>8, <1>9, <2>4
  <2>5. QED BY <1>4, <2>1, <2>2, <2>3, <2>4
<1>10. QED BY <1>5, <1>7, <1>8, <1>9 DEF X, new

\* AntiFunction inverts an injection.
LEMMA AntiFunctionFacts ==
  ASSUME NEW f, NEW X, DOMAIN f = X, \A x, y \in X : f[x] = f[y] => x = y
  PROVE  \A x \in X : AntiFunction(f)[f[x]] = x
<1>1. ASSUME NEW x \in X PROVE AntiFunction(f)[f[x]] = x
  <2>1. f[x] \in Range(f)
    BY DEF Range
  <2>2. AntiFunction(f)[f[x]] = CHOOSE s \in X : f[x] \in Range(f) => f[s] = f[x]
    BY <2>1 DEF AntiFunction, Inverse
  <2>3. \A s \in X : (f[x] \in Range(f) => f[s] = f[x]) <=> s = x
    BY <2>1
  <2>4. QED BY <2>2, <2>3
<1>2. QED BY <1>1

(* A kind of children, in terms of the four kinds of nodes.                *)
LEMMA KidKindSame ==
  ASSUME NEW x \in Node, NEW y \in Node, NEW a \in Node, NEW b \in Node,
         \A kind \in {Sections, Columns, Containers, Widgets \ Containers} : x \in kind <=> y \in kind,
         \A kind \in {Sections, Columns, Containers, Widgets \ Containers} : a \in kind <=> b \in kind
  PROVE  a \in KidKind(x) <=> b \in KidKind(y)
<1>1. /\ x \in Sections <=> y \in Sections
      /\ x \in Columns <=> y \in Columns
      /\ x \in Containers <=> y \in Containers
      /\ a \in Sections <=> b \in Sections
      /\ a \in Columns <=> b \in Columns
      /\ a \in Containers <=> b \in Containers
      /\ a \in Widgets \ Containers <=> b \in Widgets \ Containers
  OBVIOUS
<1>2. a \in Widgets <=> b \in Widgets
  BY <1>1, TreeAssumption
<1>3. x # Root /\ y # Root
  BY NodeKinds
<1>4. QED BY <1>1, <1>2, <1>3 DEF KidKind

(* The children of a clone: the same list, renamed.                        *)
LEMMA MappedFacts ==
  ASSUME NEW S, NEW k \in Seq(S), NEW T, NEW f, \A e \in ToSet(k) : f[e] \in T
  PROVE  /\ Mapped(k, f) \in Seq(T) /\ Len(Mapped(k, f)) = Len(k)
         /\ \A i \in 1..Len(k) : Mapped(k, f)[i] = f[k[i]]
         /\ ToSet(Mapped(k, f)) = {f[e] : e \in ToSet(k)}
         /\ Distinct(k) /\ (\A a, b \in ToSet(k) : f[a] = f[b] => a = b) => Distinct(Mapped(k, f))
<1> DEFINE t == Mapped(k, f)
<1>1. Len(k) \in Nat /\ DOMAIN k = 1..Len(k) /\ \A i \in 1..Len(k) : k[i] \in ToSet(k)
  BY NumberAt, Members
<1>2. t = [i \in 1..Len(k) |-> f[k[i]]]
  BY <1>1 DEF Mapped
<1>3. [i \in 1..Len(k) |-> f[k[i]]] \in [1..Len(k) -> T]
  BY <1>1
<1>4. t \in [1..Len(k) -> T] /\ \A i \in 1..Len(k) : t[i] = f[k[i]]
  BY <1>2, <1>3
<1> HIDE DEF t
<1>5. t \in Seq(T) /\ Len(t) = Len(k)
  BY <1>1, <1>4
<1>6. ToSet(t) = {f[e] : e \in ToSet(k)}
  <2>1. ToSet(t) \subseteq {f[e] : e \in ToSet(k)}
    <3>1. ASSUME NEW z \in ToSet(t) PROVE \E e \in ToSet(k) : z = f[e]
      <4>1. PICK i \in 1..Len(k) : t[i] = z
        BY <1>5, Members
      <4>2. QED BY <1>1, <1>4, <4>1
    <3>2. QED BY <3>1
  <2>2. ASSUME NEW e \in ToSet(k) PROVE f[e] \in ToSet(t)
    <3>1. PICK i \in 1..Len(k) : k[i] = e
      BY Members
    <3>2. t[i] \in ToSet(t)
      BY <1>5, Members
    <3>3. QED BY <1>4, <3>1, <3>2
  <2>3. QED BY <2>1, <2>2
<1>7. ASSUME Distinct(k), \A a, b \in ToSet(k) : f[a] = f[b] => a = b PROVE Distinct(t)
  <2>1. \A i, j \in 1..Len(k) : k[i] = k[j] => i = j
    BY <1>7 DEF Distinct
  <2>2. \A i, j \in 1..Len(k) : t[i] = t[j] => i = j
    BY <1>1, <1>4, <1>7, <2>1
  <2>3. QED BY <1>5, <2>2 DEF Distinct
<1>8. QED BY <1>4, <1>5, <1>6, <1>7 DEF t

Renamed(p, new, q) ==
  /\ q.root = new[p.root] /\ q.locked = {new[x] : x \in p.locked}
  /\ DOMAIN q.kids = {new[x] : x \in DOMAIN p.kids}
  /\ q.kids = [y \in DOMAIN q.kids |-> q.kids[y]]
  /\ \A x \in DOMAIN p.kids : q.kids[new[x]] = Mapped(p.kids[x], new)
  /\ DOMAIN q.span = {new[x] : x \in DOMAIN p.kids \cap Columns}
  /\ q.span = [y \in DOMAIN q.span |-> q.span[y]]
  /\ \A x \in DOMAIN p.kids \cap Columns : q.span[new[x]] = p.span[x]

\* clone is the part with its nodes renamed.
LEMMA CloneIs ==
  ASSUME NEW d, NEW p, IsPart(p), CanClone(d, p)
  PROVE  Renamed(p, NewIds(d, p), clone(d, p))
<1> DEFINE new == NewIds(d, p)
           old == AntiFunction(new)
           q == clone(d, p)
           X == DOMAIN p.kids
<1>1. q = [root |-> new[p.root],
           kids |-> [y \in {new[x] : x \in X} |->
                       [i \in DOMAIN p.kids[old[y]] |-> new[p.kids[old[y]][i]]]],
           span |-> [y \in {new[x] : x \in X \cap Columns} |-> p.span[old[y]]],
           locked |-> {new[x] : x \in p.locked}]
  BY Zenon DEF clone, NewIds, NewOf
<1>2. \A x \in X : old[new[x]] = x
  BY NewIdsFacts, AntiFunctionFacts
<1> HIDE DEF new, old, q, X
<1>3. /\ q.root = new[p.root] /\ q.locked = {new[x] : x \in p.locked}
      /\ q.kids = [y \in {new[x] : x \in X} |->
                       [i \in DOMAIN p.kids[old[y]] |-> new[p.kids[old[y]][i]]]]
      /\ q.span = [y \in {new[x] : x \in X \cap Columns} |-> p.span[old[y]]]
  BY <1>1
<1>4. ASSUME NEW x \in X PROVE q.kids[new[x]] = Mapped(p.kids[x], new)
  <2>1. q.kids[new[x]] = [i \in DOMAIN p.kids[old[new[x]]] |-> new[p.kids[old[new[x]]][i]]]
    BY <1>3
  <2>2. QED BY <1>2, <2>1, Zenon DEF Mapped
<1>5. ASSUME NEW x \in X \cap Columns PROVE q.span[new[x]] = p.span[x]
  BY <1>2, <1>3
<1>6. /\ DOMAIN q.kids = {new[x] : x \in X} /\ q.kids = [y \in DOMAIN q.kids |-> q.kids[y]]
      /\ DOMAIN q.span = {new[x] : x \in X \cap Columns}
      /\ q.span = [y \in DOMAIN q.span |-> q.span[y]]
  BY <1>3
<1>7. Renamed(p, new, q)
  BY <1>3, <1>4, <1>5, <1>6, Zenon DEF Renamed, X
<1>8. QED BY <1>7 DEF new, q

\* clone of a part of any shape gives a part of the same kinds, none of whose ids the
\* document has.  tree.ts:265-287.
THEOREM CloneGood ==
  ASSUME NEW d, NEW p, IsPart(p), CanClone(d, p)
  PROVE  /\ IsPart(clone(d, p)) /\ DOMAIN clone(d, p).kids \cap In(d) = {}
         /\ \A x \in Node : p.root \in KidKind(x) => clone(d, p).root \in KidKind(x)
         /\ p.root \in Sections => clone(d, p).root \in Sections
         /\ p.root \in Widgets => clone(d, p).root \in Widgets
<1> DEFINE new == NewIds(d, p)
           q == clone(d, p)
           X == DOMAIN p.kids
           Y == {new[x] : x \in X}
<1>0. Renamed(p, new, q)
  BY CloneIs
<1>2. /\ \A x \in X : new[x] \in Node /\ new[x] \notin In(d)
      /\ \A x \in X : \A kind \in {Sections, Columns, Containers, Widgets \ Containers} :
           x \in kind <=> new[x] \in kind
      /\ \A x, y \in X : new[x] = new[y] => x = y
  BY NewIdsFacts
<1>3. /\ p.root \in X /\ X \subseteq Node /\ p.locked \subseteq X
      /\ p.span \in [X \cap Columns -> Nat \ {0}]
      /\ Apart(p.kids, X)
      /\ \A x \in X : ToSet(p.kids[x]) \subseteq KidKind(x)
      /\ \A S \in SUBSET X :
           p.root \in S /\ (\A x \in S : ToSet(p.kids[x]) \subseteq S) => S = X
      /\ \A s \in X \cap Sections : SumOf(Mapped(p.kids[s], p.span)) <= FullSpan
  BY DEF IsPart, RightKinds
<1>4. \A x \in X : p.kids[x] \in Seq(Node) /\ ToSet(p.kids[x]) \subseteq X \ {p.root}
  BY PartKids
<1> HIDE DEF new, q, X
<1>1. /\ q.root = new[p.root] /\ DOMAIN q.kids = Y /\ q.kids = [y \in Y |-> q.kids[y]]
      /\ \A x \in X : q.kids[new[x]] = Mapped(p.kids[x], new)
      /\ DOMAIN q.span = {new[x] : x \in X \cap Columns}
      /\ q.span = [y \in DOMAIN q.span |-> q.span[y]]
      /\ \A x \in X \cap Columns : q.span[new[x]] = p.span[x]
      /\ q.locked = {new[x] : x \in p.locked}
  BY <1>0, Zenon DEF Renamed, X
<1>5. ASSUME NEW x \in X
      PROVE  /\ q.kids[new[x]] \in Seq(Y \ {q.root})
             /\ ToSet(q.kids[new[x]]) = {new[e] : e \in ToSet(p.kids[x])}
             /\ Distinct(q.kids[new[x]])
  <2>1. \A e \in ToSet(p.kids[x]) : new[e] \in Y \ {q.root}
    BY <1>1, <1>2, <1>3, <1>4
  <2>2. Distinct(p.kids[x]) /\ \A a, b \in ToSet(p.kids[x]) : new[a] = new[b] => a = b
    BY <1>2, <1>3, <1>4 DEF Apart
  <2> HIDE DEF Y
  <2>3. p.kids[x] \in Seq(Node)
    BY <1>4
  <2>4. /\ Mapped(p.kids[x], new) \in Seq(Y \ {q.root})
        /\ ToSet(Mapped(p.kids[x], new)) = {new[e] : e \in ToSet(p.kids[x])}
        /\ Distinct(Mapped(p.kids[x], new))
    <3> DEFINE k == p.kids[x]
               T == Y \ {q.root}
    <3>1. k \in Seq(Node) /\ \A e \in ToSet(k) : new[e] \in T
      BY <2>1, <2>3
    <3>2. Distinct(k) /\ \A a, b \in ToSet(k) : new[a] = new[b] => a = b
      BY <2>2
    <3> HIDE DEF k, T
    <3>3. /\ Mapped(k, new) \in Seq(T) /\ ToSet(Mapped(k, new)) = {new[e] : e \in ToSet(k)}
          /\ Distinct(Mapped(k, new))
      BY <3>1, <3>2, MappedFacts
    <3>4. QED BY <3>3 DEF k, T
  <2>5. QED BY <1>1, <2>4
<1>6. q.kids \in [Y -> Seq(Y \ {q.root})]
  <2>1. \A y \in Y : q.kids[y] \in Seq(Y \ {q.root})
    BY <1>5
  <2> HIDE DEF Y
  <2>2. QED BY <1>1, <2>1
<1>7. q.span \in [Y \cap Columns -> Nat \ {0}]
  <2>1. DOMAIN q.span = Y \cap Columns
    BY <1>1, <1>2
  <2>2. \A y \in Y \cap Columns : q.span[y] \in Nat \ {0}
    BY <1>1, <1>2, <1>3
  <2> HIDE DEF Y
  <2>3. QED BY <1>1, <2>1, <2>2
<1>8. Apart(q.kids, Y)
  <2>1. \A y \in Y : Distinct(q.kids[y])
    BY <1>5
  <2>2. ASSUME NEW a \in X, NEW b \in X, NEW z \in ToSet(q.kids[new[a]]),
               z \in ToSet(q.kids[new[b]])
        PROVE  a = b
    <3>1. PICK e \in ToSet(p.kids[a]) : z = new[e]
      BY <1>5
    <3>2. PICK f \in ToSet(p.kids[b]) : z = new[f]
      BY <1>5, <2>2
    <3>3. e = f
      BY <1>2, <1>4, <3>1, <3>2
    <3>4. QED BY <1>3, <3>1, <3>3 DEF Apart
  <2>3. QED BY <2>1, <2>2 DEF Apart
<1>9. RightKinds(q.kids, Y)
  <2>1. ASSUME NEW x \in X, NEW e \in ToSet(p.kids[x]) PROVE new[e] \in KidKind(new[x])
    <3>1. x \in Node /\ e \in Node /\ new[x] \in Node /\ new[e] \in Node /\ e \in X
          /\ e \in KidKind(x)
      BY <1>2, <1>3, <1>4
    <3>2. \A kind \in {Sections, Columns, Containers, Widgets \ Containers} :
            (x \in kind <=> new[x] \in kind) /\ (e \in kind <=> new[e] \in kind)
      BY <1>2, <3>1
    <3>3. QED BY <3>1, <3>2, KidKindSame
  <2>2. ASSUME NEW x \in X PROVE ToSet(q.kids[new[x]]) \subseteq KidKind(new[x])
    <3>1. ASSUME NEW z \in ToSet(q.kids[new[x]]) PROVE z \in KidKind(new[x])
      <4>1. PICK e \in ToSet(p.kids[x]) : z = new[e]
        BY <1>5
      <4>2. QED BY <2>1, <4>1
    <3>2. QED BY <3>1
  <2>3. QED BY <2>2 DEF RightKinds
<1>10. ASSUME NEW S \in SUBSET Y, q.root \in S, \A y \in S : ToSet(q.kids[y]) \subseteq S
       PROVE  S = Y
  <2> DEFINE R == {x \in X : new[x] \in S}
  <2>1. R \in SUBSET X /\ p.root \in R
    BY <1>1, <1>3, <1>10
  <2>2. \A x \in R : ToSet(p.kids[x]) \subseteq R
    BY <1>4, <1>5, <1>10
  <2>3. R = X
    <3> HIDE DEF R
    <3>1. QED BY <1>3, <2>1, <2>2
  <2>4. QED BY <2>3
<1>11. ASSUME NEW s \in X, new[s] \in Sections
       PROVE  SumOf(Mapped(q.kids[new[s]], q.span)) <= FullSpan
  <2>1. s \in Sections
    BY <1>2, <1>11
  <2>2. /\ p.kids[s] \in Seq(Node) /\ ToSet(p.kids[s]) \subseteq X \cap Columns
        /\ Len(p.kids[s]) \in Nat /\ DOMAIN p.kids[s] = 1..Len(p.kids[s])
        /\ \A i \in 1..Len(p.kids[s]) : p.kids[s][i] \in X \cap Columns
    BY <1>3, <1>4, <2>1, NodeKinds, NumberAt, Members
  <2>3. /\ Mapped(p.kids[s], new) \in Seq(Node)
        /\ Len(Mapped(p.kids[s], new)) = Len(p.kids[s])
        /\ \A i \in 1..Len(p.kids[s]) : Mapped(p.kids[s], new)[i] = new[p.kids[s][i]]
    <3>1. \A e \in ToSet(p.kids[s]) : new[e] \in Node
      BY <1>2, <2>2
    <3>2. QED BY <2>2, <3>1, MappedFacts
  <2>4. DOMAIN Mapped(p.kids[s], new) = 1..Len(p.kids[s])
    BY <2>3, NumberAt
  <2>5. \A i \in 1..Len(p.kids[s]) : q.span[Mapped(p.kids[s], new)[i]] = p.span[p.kids[s][i]]
    BY <1>1, <2>2, <2>3
  <2>6. Mapped(Mapped(p.kids[s], new), q.span)
        = [i \in 1..Len(p.kids[s]) |-> q.span[Mapped(p.kids[s], new)[i]]]
    BY <2>4, Zenon DEF Mapped
  <2>7. Mapped(p.kids[s], p.span) = [i \in 1..Len(p.kids[s]) |-> p.span[p.kids[s][i]]]
    BY <2>2, Zenon DEF Mapped
  <2>8. Mapped(Mapped(p.kids[s], new), q.span) = Mapped(p.kids[s], p.span)
    BY <2>5, <2>6, <2>7, Zenon
  <2>9. QED BY <1>1, <1>3, <2>1, <2>8
<1>12. IsPart(q)
  <2>1. q.root \in Y /\ Y \subseteq Node /\ q.locked \subseteq Y /\ DOMAIN q.kids = Y
    BY <1>1, <1>2, <1>3
  <2>2. \A y \in Y \cap Sections : SumOf(Mapped(q.kids[y], q.span)) <= FullSpan
    BY <1>11
  <2> HIDE DEF Y
  <2>3. QED BY <1>6, <1>7, <1>8, <1>9, <1>10, <2>1, <2>2 DEF IsPart
<1>13. DOMAIN q.kids \cap In(d) = {}
  BY <1>1, <1>2
<1>14. ASSUME NEW x \in Node, p.root \in KidKind(x) PROVE q.root \in KidKind(x)
  <2>1. /\ p.root \in Node /\ q.root \in Node
        /\ \A kind \in {Sections, Columns, Containers, Widgets \ Containers} :
             p.root \in kind <=> q.root \in kind
    BY <1>1, <1>2, <1>3
  <2>2. QED BY <1>14, <2>1, KidKindSame
<1>15. /\ p.root \in Sections => q.root \in Sections
       /\ p.root \in Widgets => q.root \in Widgets
  BY <1>1, <1>2, <1>3, TreeAssumption
<1>16. QED BY <1>12, <1>13, <1>14, <1>15 DEF q

-----------------------------------------------------------------------------
(* New sections, columns and widgets.                                      *)

\* The spare node is free.
LEMMA SpareFacts ==
  ASSUME NEW d, NEW kind, Free(d, kind) # {}
  PROVE  Spare(d, kind) \in kind /\ Spare(d, kind) \notin In(d)
<1>1. Spare(d, kind) \in Free(d, kind)
  BY Zenon DEF Spare
<1>2. QED BY <1>1 DEF Free

\* A new widget is a part of one node.
LEMMA CreateWidgetGood ==
  ASSUME NEW w \in Widgets
  PROVE  /\ IsPart(createWidget(w)) /\ createWidget(w).root = w
         /\ DOMAIN createWidget(w).kids = {w}
<1> DEFINE p == createWidget(w)
<1>1. /\ p.root = w /\ p.kids = [x \in {w} |-> <<>>] /\ p.span = [x \in {} |-> 0]
      /\ p.locked = {}
  BY DEF createWidget
<1> HIDE DEF p
<1>2. /\ DOMAIN p.kids = {w} /\ p.kids[w] = <<>> /\ w \in Node
      /\ p.kids \in [{w} -> Seq({w} \ {p.root})] /\ p.span \in [{w} \cap Columns -> Nat \ {0}]
  <2>1. {w} \cap Columns = {} /\ w \in Node
    BY TreeAssumption, NodeKinds DEF Node
  <2>2. <<>> \in Seq({w} \ {p.root})
    OBVIOUS
  <2>3. QED BY <1>1, <2>1, <2>2
<1>3. Apart(p.kids, {w}) /\ RightKinds(p.kids, {w})
  BY <1>2, EmptyList DEF Apart, RightKinds
<1>4. w \notin Sections
  BY TreeAssumption
<1>5. IsPart(p)
  BY <1>1, <1>2, <1>3, <1>4 DEF IsPart
<1>6. QED BY <1>1, <1>2, <1>5 DEF p

\* A new section is a part with one column, of ids that are free.
LEMMA CreateSectionGood ==
  ASSUME NEW d, CanCreate(d)
  PROVE  /\ IsPart(createSection(d)) /\ createSection(d).root = Spare(d, Sections)
         /\ DOMAIN createSection(d).kids = {Spare(d, Sections), Spare(d, Columns)}
         /\ createSection(d).kids[Spare(d, Sections)] = <<Spare(d, Columns)>>
         /\ Spare(d, Sections) \in Sections \ In(d) /\ Spare(d, Columns) \in Columns \ In(d)
         /\ DOMAIN createSection(d).kids \cap In(d) = {}
<1> DEFINE s == Spare(d, Sections)
           c == Spare(d, Columns)
           p == createSection(d)
<1>1. s \in Sections \ In(d) /\ c \in Columns \ In(d)
  BY SpareFacts DEF CanCreate
<1>2. /\ p.root = s /\ p.kids = [x \in {s, c} |-> IF x = s THEN <<c>> ELSE <<>>]
      /\ p.span = [x \in {c} |-> FullSpan] /\ p.locked = {}
  BY DEF createSection
<1> HIDE DEF s, c, p
<1>3. s # c /\ s \in Node /\ c \in Node /\ s \notin Columns /\ c \notin Sections
      /\ s # Root /\ c # Root
  BY <1>1, TreeAssumption DEF Node
<1>4. DOMAIN p.kids = {s, c} /\ p.kids[s] = <<c>> /\ p.kids[c] = <<>>
      /\ ToSet(p.kids[s]) = {c} /\ ToSet(p.kids[c]) = {}
      /\ Distinct(p.kids[s]) /\ Distinct(p.kids[c])
  BY <1>2, <1>3, OneList, EmptyList
<1>5. p.kids \in [{s, c} -> Seq({s, c} \ {p.root})]
  <2>1. <<c>> \in Seq({s, c} \ {p.root}) /\ <<>> \in Seq({s, c} \ {p.root})
    BY <1>2, <1>3
  <2>2. QED BY <1>2, <2>1
<1>6. p.span \in [{s, c} \cap Columns -> Nat \ {0}] /\ p.span[c] = FullSpan
  <2>1. {s, c} \cap Columns = {c}
    BY <1>1, <1>3
  <2>2. QED BY <1>2, <2>1, TreeAssumption
<1>7. Apart(p.kids, {s, c})
  BY <1>3, <1>4 DEF Apart
<1>8. RightKinds(p.kids, {s, c})
  <2>1. KidKind(s) = Columns
    BY <1>1, NodeKinds
  <2>2. QED BY <1>1, <1>4, <2>1 DEF RightKinds
<1>9. SumOf(Mapped(p.kids[s], p.span)) <= FullSpan
  <2>1. /\ Mapped(<<c>>, p.span) \in Seq(Nat) /\ Len(Mapped(<<c>>, p.span)) = 1
        /\ Mapped(<<c>>, p.span)[1] = FullSpan
    <3>1. <<c>> \in Seq(Node) /\ Len(<<c>>) = 1 /\ <<c>>[1] = c /\ ToSet(<<c>>) = {c}
      BY <1>3, OneList
    <3>2. \A x \in ToSet(<<c>>) : p.span[x] \in Nat
      BY <1>6, <3>1, TreeAssumption
    <3> DEFINE k == <<c>>
    <3>3. k \in Seq(Node) /\ Len(k) = 1 /\ k[1] = c /\ \A x \in ToSet(k) : p.span[x] \in Nat
      BY <3>1, <3>2
    <3> HIDE DEF k
    <3>4. /\ Mapped(k, p.span) \in Seq(Nat) /\ Len(Mapped(k, p.span)) = 1
          /\ Mapped(k, p.span)[1] = FullSpan
      BY <1>6, <3>3, SpansTyped
    <3>5. QED BY <3>4 DEF k
  <2>2. SumOf(Mapped(<<c>>, p.span)) = FullSpan
    BY <2>1, SumOfOne
  <2>3. QED BY <1>4, <2>2, TreeAssumption
<1>10. ASSUME NEW S \in SUBSET {s, c}, s \in S, \A x \in S : ToSet(p.kids[x]) \subseteq S
       PROVE  S = {s, c}
  BY <1>4, <1>10
<1>11. IsPart(p)
  BY <1>2, <1>3, <1>4, <1>5, <1>6, <1>7, <1>8, <1>9, <1>10 DEF IsPart
<1>12. QED BY <1>1, <1>2, <1>4, <1>11 DEF s, c, p

\* addSection appends a new section that holds one column.
LEMMA AddSectionGood ==
  ASSUME NEW d, Good(d), CanCreate(d)
  PROVE  /\ Good(addSection(d))
         /\ In(addSection(d)) = In(d) \cup {Spare(d, Sections), Spare(d, Columns)}
         /\ addSection(d).kids[Root] # <<>>
         /\ Last(addSection(d).kids[Root]) = Spare(d, Sections)
         /\ Head(addSection(d).kids[Spare(d, Sections)]) = Spare(d, Columns)
<1> DEFINE p == createSection(d)
           e == addSection(d)
           n == Len(d.kids[Root])
<1>1. /\ IsPart(p) /\ p.root = Spare(d, Sections) /\ p.root \in Sections
      /\ DOMAIN p.kids = {Spare(d, Sections), Spare(d, Columns)}
      /\ p.kids[Spare(d, Sections)] = <<Spare(d, Columns)>>
      /\ DOMAIN p.kids \cap In(d) = {}
  BY CreateSectionGood
<1>2. d \in Document /\ Tree(d) /\ d.kids[Root] \in Seq(Node) /\ n \in Nat
      /\ Distinct(d.kids[Root])
  BY GoodForm, KidsTyped, NodeKinds, NumberAt DEF Good, Tree, Apart
<1>3. e = insert(d, p, Root, n + 1)
  BY DEF addSection
<1>4. p.root \in KidKind(Root)
  BY <1>1, NodeKinds
<1> HIDE DEF p, e, n
<1>5. Good(e) /\ In(e) = In(d) \cup {Spare(d, Sections), Spare(d, Columns)}
  BY <1>1, <1>2, <1>3, <1>4, InsertGood
<1>6. /\ e.kids[Spare(d, Sections)] = <<Spare(d, Columns)>>
      /\ e.kids[Root] = InsertAt(d.kids[Root], Clamp(n + 1, 1, n + 1), p.root)
  BY <1>1, <1>2, <1>3, InsertIs DEF n
<1>7. Clamp(n + 1, 1, n + 1) = n + 1
  BY <1>2 DEF Clamp
<1>8. p.root \in Node /\ p.root \notin ToSet(d.kids[Root])
  BY <1>1, <1>2, InFacts, NodeKinds, TreeAssumption DEF Node
<1>9. /\ e.kids[Root] \in Seq(Node) /\ Len(e.kids[Root]) = n + 1
      /\ e.kids[Root][n + 1] = p.root
  <2>1. n + 1 \in 1..(Len(d.kids[Root]) + 1)
    BY <1>2 DEF n
  <2>2. QED BY <1>2, <1>6, <1>7, <1>8, <2>1, InsertAtFacts DEF n
<1>10. e.kids[Root] # <<>> /\ Last(e.kids[Root]) = p.root
  BY <1>2, <1>9 DEF Last
<1>11. QED BY <1>1, <1>5, <1>6, <1>10 DEF e

\* The empty document is good.
LEMMA EmptyGood ==
  Good(emptyDocument)
<1> DEFINE e == emptyDocument
<1>1. /\ e.kids = [x \in Parent |-> <<>>] /\ e.span = [c \in Columns |-> 0] /\ e.locked = {}
      /\ e = [kids |-> e.kids, span |-> e.span, locked |-> e.locked]
  BY DEF emptyDocument
<1> HIDE DEF e
<1>2. e.kids \in [Parent -> Seq(Node)] /\ e.span \in [Columns -> Nat] /\ e.locked \in SUBSET Node
  BY <1>1, EmptyList
<1>3. e \in Document
  BY <1>1, <1>2 DEF Document
<1>4. /\ \A x \in Parent : e.kids[x] = <<>> /\ Distinct(e.kids[x]) /\ ToSet(e.kids[x]) = {}
  BY <1>1, EmptyList
<1>5. In(e) = {}
  BY <1>4 DEF In
<1>6. Tree(e)
  BY <1>1, <1>4 DEF Tree, Apart, RightKinds, Reached
<1>7. QED BY <1>3, <1>5, <1>6, GoodForm DEF e

-----------------------------------------------------------------------------
(* addColumn.                                                              *)

(* The columns of one section share the whole width.                       *)
LEMMA Division ==
  ASSUME NEW a \in Nat, NEW n \in 1..a
  PROVE  a \div n \in Nat \ {0} /\ a - (a \div n) * n \in 0..n
OBVIOUS

\* A new column is a part of one node.
LEMMA ColumnPart ==
  ASSUME NEW c \in Columns, NEW p,
         p = [root |-> c, kids |-> [x \in {c} |-> <<>>], span |-> [x \in {c} |-> 1], locked |-> {}]
  PROVE  IsPart(p) /\ p.root = c /\ DOMAIN p.kids = {c} /\ p.kids[c] = <<>> /\ p.locked = {}
<1>1. /\ p.root = c /\ p.kids = [x \in {c} |-> <<>>] /\ p.span = [x \in {c} |-> 1]
      /\ p.locked = {} /\ c \in Node /\ c \notin Sections
  BY TreeAssumption DEF Node
<1>2. /\ DOMAIN p.kids = {c} /\ p.kids[c] = <<>>
      /\ p.kids \in [{c} -> Seq({c} \ {p.root})] /\ p.span \in [{c} \cap Columns -> Nat \ {0}]
  <2>1. {c} \cap Columns = {c} /\ <<>> \in Seq({c} \ {p.root})
    OBVIOUS
  <2>2. QED BY <1>1, <2>1
<1>3. Apart(p.kids, {c}) /\ RightKinds(p.kids, {c})
  BY <1>2, EmptyList DEF Apart, RightKinds
<1>4. QED BY <1>1, <1>2, <1>3 DEF IsPart

\* addColumn adds one column, or nothing at the limit; the columns of the section share
\* the row anew, and fit.  tree.ts:227-239.
THEOREM AddColumnGood ==
  ASSUME NEW d, Good(d), NEW s \in In(d) \cap Sections, Free(d, Columns) # {}
  PROVE  /\ Good(addColumn(d, s))
         /\ addColumn(d, s) = d \/ In(addColumn(d, s)) = In(d) \cup {Spare(d, Columns)}
<1> DEFINE new == Spare(d, Columns)
           cols == Append(d.kids[s], new)
           N == Len(cols)
           base == FullSpan \div N
           extra == FullSpan - base * N
           e == addColumn(d, s)
<1>1. CASE Len(d.kids[s]) >= MaxColumns
  BY <1>1 DEF addColumn
<1>2. CASE ~(Len(d.kids[s]) >= MaxColumns)
  <2>1. /\ d \in Document /\ Tree(d) /\ \A c \in In(d) \cap Columns : d.span[c] >= 1
        /\ \A x \in In(d) \cap Sections : SumOf(Mapped(d.kids[x], d.span)) <= FullSpan
    BY GoodForm DEF Good
  <2>2. new \in Columns /\ new \notin In(d) /\ s \in Parent /\ new \in Node /\ new # Root
        /\ new \in Parent
    BY SpareFacts, NodeKinds DEF Node
  <2>3. /\ d.kids[s] \in Seq(Node) /\ ToSet(d.kids[s]) \subseteq In(d) \cap Columns
        /\ Len(d.kids[s]) \in Nat /\ Distinct(d.kids[s]) /\ new \notin ToSet(d.kids[s])
    BY <2>1, <2>2, ColumnsTyped, NumberAt DEF Tree, Apart
  <2>4. /\ cols \in Seq(Node) /\ N = Len(d.kids[s]) + 1 /\ Distinct(cols)
        /\ ToSet(cols) = ToSet(d.kids[s]) \cup {new}
    <3> HIDE DEF new
    <3>1. QED BY <2>2, <2>3, AppendFacts
  <2>5. N \in 1..FullSpan
    BY <1>2, <2>3, <2>4, TreeAssumption
  <2>6. base \in Nat \ {0} /\ extra \in 0..N /\ base * N + extra = FullSpan
    <3>1. N \in Nat /\ base \in Nat \ {0} /\ extra \in 0..N /\ FullSpan \in Nat
      <4> HIDE DEF N
      <4>1. N \in 1..FullSpan /\ FullSpan \in Nat
        BY <2>5, TreeAssumption
      <4>2. FullSpan \div N \in Nat \ {0} /\ FullSpan - (FullSpan \div N) * N \in 0..N
        BY <4>1, Division
      <4>3. QED BY <4>1, <4>2
    <3> DEFINE m == base * N
    <3>2. m \in Nat
      <4> HIDE DEF base, N
      <4>1. QED BY <3>1
    <3>3. extra = FullSpan - m
      OBVIOUS
    <3> HIDE DEF m, base, N, extra
    <3>4. m + extra = FullSpan
      BY <3>1, <3>2, <3>3
    <3>5. QED BY <3>1, <3>4 DEF m
  <2>7. /\ e.kids = [d.kids EXCEPT ![s] = cols] /\ e.locked = d.locked
        /\ e.span = [c \in Columns |->
                       IF c \notin ToSet(cols) THEN d.span[c]
                       ELSE base + (IF \E i \in 1..extra : cols[i] = c THEN 1 ELSE 0)]
        /\ e = [kids |-> e.kids, span |-> e.span, locked |-> e.locked]
    BY <1>2, <2>1 DEF addColumn, Document
  <2> HIDE DEF new, cols, N, base, extra, e
  <2>8. /\ e.kids[s] = cols /\ \A x \in Parent : x # s => e.kids[x] = d.kids[x]
        /\ e.kids = [x \in Parent |-> e.kids[x]]
    BY <2>1, <2>2, <2>7 DEF Document
  <2>9. /\ \A c \in Columns \ ToSet(cols) : e.span[c] = d.span[c]
        /\ \A c \in Columns \cap ToSet(cols) :
             e.span[c] = base + (IF \E i \in 1..extra : cols[i] = c THEN 1 ELSE 0)
    BY <2>7
  <2>10. e.span \in [Columns -> Nat]
    <3>1. ASSUME NEW c \in Columns
          PROVE  (IF c \notin ToSet(cols) THEN d.span[c]
                  ELSE base + (IF \E i \in 1..extra : cols[i] = c THEN 1 ELSE 0)) \in Nat
      BY <2>1, <2>6 DEF Document
    <3>2. QED BY <2>7, <3>1
  <2>11. e \in Document
    <3>1. ASSUME NEW x \in Parent PROVE e.kids[x] \in Seq(Node)
      BY <2>1, <2>4, <2>8, KidsTyped
    <3>2. d.locked \in SUBSET Node
      BY <2>1 DEF Document
    <3>3. QED BY <2>7, <2>8, <2>10, <3>1, <3>2 DEF Document
  <2> DEFINE p == [root |-> new, kids |-> [x \in {new} |-> <<>>],
                   span |-> [x \in {new} |-> 1], locked |-> {}]
  <2>12. /\ IsPart(p) /\ p.root = new /\ DOMAIN p.kids = {new} /\ p.kids[new] = <<>>
         /\ p.locked = {}
    BY <2>2, ColumnPart
  <2> HIDE DEF p
  <2>13. Grafted(d, p, s, e)
    <3>1. d.kids[new] = <<>> /\ new # s
      BY <2>1, <2>2, InReached
    <3>2. KidKind(s) = Columns
      BY NodeKinds
    <3>3. QED BY <2>2, <2>4, <2>7, <2>8, <2>11, <2>12, <3>1, <3>2 DEF Grafted
  <2>14. Tree(e) /\ In(e) = In(d) \cup {new}
    BY <2>1, <2>12, <2>13, GraftTree, GraftIn
  <2>15. \A c \in In(e) \cap Columns : e.span[c] >= 1
    <3>1. ASSUME NEW c \in In(e) \cap Columns PROVE e.span[c] >= 1
      <4>1. CASE c \in ToSet(cols)
        BY <2>6, <2>9, <4>1
      <4>2. CASE c \notin ToSet(cols)
        BY <2>1, <2>4, <2>9, <2>14, <4>2
      <4>3. QED BY <4>1, <4>2
    <3>2. QED BY <3>1
  <2>16. SumOf(Mapped(cols, e.span)) = FullSpan
    <3>1. \A c \in ToSet(cols) : e.span[c] \in Nat
      BY <2>2, <2>3, <2>4, <2>10
    <3>2. /\ Mapped(cols, e.span) \in Seq(Nat) /\ Len(Mapped(cols, e.span)) = N
          /\ \A i \in 1..N : Mapped(cols, e.span)[i] = e.span[cols[i]]
      BY <2>4, <3>1, SpansTyped DEF N
    <3>3. ASSUME NEW i \in 1..N
          PROVE  Mapped(cols, e.span)[i] = base + (IF i <= extra THEN 1 ELSE 0)
      <4>1. cols[i] \in Columns \cap ToSet(cols)
        BY <2>2, <2>3, <2>4, Members DEF N
      <4>2. (\E j \in 1..extra : cols[j] = cols[i]) <=> i <= extra
        <5>1. \A j \in 1..N : cols[j] = cols[i] => j = i
          BY <2>4 DEF Distinct, N
        <5>2. N \in Nat /\ extra \in Nat /\ extra <= N
          BY <2>5, <2>6
        <5>3. QED BY <5>1, <5>2
      <4>3. QED BY <2>9, <3>2, <4>1, <4>2
    <3>4. SumOf(Mapped(cols, e.span)) = base * N + extra
      <4> DEFINE t == Mapped(cols, e.span)
      <4>1. /\ t \in Seq(Nat) /\ Len(t) = N
            /\ \A i \in 1..N : t[i] = base + (IF i <= extra THEN 1 ELSE 0)
        BY <3>2, <3>3
      <4> HIDE DEF t
      <4>2. SumOf(t) = base * Len(t) + extra
        BY <2>6, <4>1, SumShared
      <4>3. QED BY <4>1, <4>2 DEF t
    <3>5. QED BY <2>6, <3>4
  <2>17. \A x \in In(e) \cap Sections : SumOf(Mapped(e.kids[x], e.span)) <= FullSpan
    <3>1. ASSUME NEW x \in In(e) \cap Sections, x # s
          PROVE  SumOf(Mapped(e.kids[x], e.span)) <= FullSpan
      <4>1. x \in In(d) /\ x \in Parent
        BY <2>2, <2>14, TreeAssumption, NodeKinds
      <4>2. d.kids[x] \in Seq(Node) /\ ToSet(d.kids[x]) \subseteq Columns
        BY <2>1, ColumnsTyped
      <4>3. \A c \in ToSet(d.kids[x]) : c \notin ToSet(cols)
        BY <2>2, <2>8, <2>14, <3>1, <4>1 DEF Tree, Apart
      <4>4. Mapped(d.kids[x], e.span) = Mapped(d.kids[x], d.span)
        <5>1. \A c \in ToSet(d.kids[x]) : e.span[c] = d.span[c]
          BY <2>9, <4>2, <4>3
        <5>2. QED BY <4>2, <5>1, SpansSame
      <4>5. QED BY <2>1, <2>8, <3>1, <4>1, <4>4
    <3>2. QED BY <2>8, <2>16, <3>1, TreeAssumption
  <2>18. QED BY <2>11, <2>14, <2>15, <2>17, GoodForm DEF e, new
<1>3. QED BY <1>1, <1>2

-----------------------------------------------------------------------------
(* Edits that leave the children as they are.                              *)

\* A document with the same children is the same tree.
LEMMA SameKids ==
  ASSUME NEW d \in Document, Tree(d), NEW e \in Document, e.kids = d.kids,
         e.locked \subseteq In(d)
  PROVE  Tree(e) /\ In(e) = In(d)
<1>1. In(e) = In(d)
  BY DEF In
<1>2. Below(e, Root) = Below(d, Root)
  BY BelowSame, NodeKinds
<1>3. QED BY <1>1, <1>2 DEF Tree, Reached

(* lock_node, unlock_node.                                                 *)
LEMMA LockGood ==
  ASSUME NEW d, Good(d), NEW e, NEW L \in SUBSET In(d), e = [d EXCEPT !.locked = L]
  PROVE  Good(e) /\ In(e) = In(d)
<1>1. /\ d \in Document /\ Tree(d) /\ \A c \in In(d) \cap Columns : d.span[c] >= 1
      /\ \A s \in In(d) \cap Sections : SumOf(Mapped(d.kids[s], d.span)) <= FullSpan
  BY GoodForm DEF Good
<1>2. e.kids = d.kids /\ e.span = d.span /\ e.locked = L /\ e \in Document
  BY <1>1, InFacts DEF Document
<1>3. Tree(e) /\ In(e) = In(d)
  BY <1>1, <1>2, SameKids
<1>4. QED BY <1>1, <1>2, <1>3, GoodForm

(* The spans of one section change.                                        *)
LEMMA RespanGood ==
  ASSUME NEW d, Good(d), NEW e \in Document, e.kids = d.kids, e.locked = d.locked,
         NEW s \in Sections,
         \A c \in Columns \ ToSet(d.kids[s]) : e.span[c] = d.span[c],
         \A c \in ToSet(d.kids[s]) : e.span[c] >= 1,
         SumOf(Mapped(d.kids[s], e.span)) <= FullSpan
  PROVE  Good(e) /\ In(e) = In(d)
<1>1. /\ d \in Document /\ Tree(d) /\ \A c \in In(d) \cap Columns : d.span[c] >= 1
      /\ \A x \in In(d) \cap Sections : SumOf(Mapped(d.kids[x], d.span)) <= FullSpan
  BY GoodForm DEF Good
<1>2. Tree(e) /\ In(e) = In(d)
  BY <1>1, SameKids DEF Tree
<1>3. \A c \in In(e) \cap Columns : e.span[c] >= 1
  BY <1>1, <1>2
<1>4. ASSUME NEW x \in In(e) \cap Sections, x # s
      PROVE  SumOf(Mapped(e.kids[x], e.span)) <= FullSpan
  <2>1. d.kids[x] \in Seq(Node) /\ ToSet(d.kids[x]) \subseteq Columns
    BY <1>1, ColumnsTyped
  <2>2. \A c \in ToSet(d.kids[x]) : c \notin ToSet(d.kids[s])
    BY <1>1, <1>4, NodeKinds DEF Tree, Apart
  <2>3. Mapped(d.kids[x], e.span) = Mapped(d.kids[x], d.span)
    <3>1. \A c \in ToSet(d.kids[x]) : e.span[c] = d.span[c]
      BY <2>1, <2>2
    <3>2. QED BY <2>1, <3>1, SpansSame
  <2>4. QED BY <1>1, <1>2, <1>4, <2>3
<1>5. QED BY <1>2, <1>3, <1>4, GoodForm

(* The share of a column and what its neighbour keeps.                     *)
LEMMA ResizeShares ==
  ASSUME NEW n \in Nat, NEW pair \in Nat, pair >= 2,
         NEW span, span = Clamp(n, 1, FullSpan - 1),
         NEW mine, mine = IF span < pair THEN span ELSE pair - 1
  PROVE  /\ span \in 1..FullSpan /\ mine \in Nat \ {0} /\ pair - mine \in Nat \ {0}
         /\ mine + (pair - mine) = pair
BY TreeAssumption DEF Clamp

\* resizeColumn, however far the pointer pulls, takes from one neighbour what it gives
\* the column: the nodes stay, no column disappears and the section does not get wider.
\* tree.ts:241-263.
THEOREM ResizeGood ==
  ASSUME NEW d, Good(d), NEW c \in In(d) \cap Columns, NEW n \in Nat
  PROVE  Good(resizeColumn(d, c, n)) /\ In(resizeColumn(d, c, n)) = In(d)
<1> DEFINE s == Holder(d, c)
           cols == d.kids[s]
           at == Position(d, c)
           span == Clamp(n, 1, FullSpan - 1)
           mate == IF at < Len(cols) THEN cols[at + 1] ELSE cols[at - 1]
           pair == d.span[c] + d.span[mate]
           mine == IF span < pair THEN span ELSE pair - 1
           e == resizeColumn(d, c, n)
<1>1. /\ d \in Document /\ Tree(d) /\ \A x \in In(d) \cap Columns : d.span[x] >= 1
      /\ \A x \in In(d) \cap Sections : SumOf(Mapped(d.kids[x], d.span)) <= FullSpan
  BY GoodForm DEF Good
<1>2. /\ s \in In(d) \cup {Root} /\ s \in Parent /\ c \in ToSet(cols) /\ c \in KidKind(s)
      /\ at \in 1..Len(cols) /\ cols[at] = c
  BY <1>1, HolderFacts
<1>3. s \in In(d) \cap Sections
  BY <1>2, NodeKinds, TreeAssumption DEF Parent, Node
<1>4. /\ cols \in Seq(Node) /\ ToSet(cols) \subseteq In(d) \cap Columns /\ Len(cols) \in Nat
      /\ Distinct(cols) /\ \A x \in ToSet(cols) : d.span[x] \in Nat
      /\ \A i \in 1..Len(cols) : cols[i] \in ToSet(cols)
  <2>1. cols \in Seq(Node) /\ ToSet(cols) \subseteq In(d) \cap Columns
        /\ \A x \in ToSet(cols) : d.span[x] \in Nat
    BY <1>1, <1>3, ColumnsTyped
  <2>2. Distinct(cols)
    BY <1>1, <1>2 DEF Tree, Apart
  <2> HIDE DEF cols
  <2>3. Len(cols) \in Nat /\ \A i \in 1..Len(cols) : cols[i] \in ToSet(cols)
    BY <2>1, NumberAt, Members
  <2>4. QED BY <2>1, <2>2, <2>3
<1>5. /\ d.span \in [Columns -> Nat] /\ c \in Columns
      /\ d = [kids |-> d.kids, span |-> d.span, locked |-> d.locked]
      /\ d.kids \in [Parent -> Seq(Node)] /\ d.locked \in SUBSET Node
  BY <1>1 DEF Document
<1>6. e = IF Len(cols) = 1 THEN [d EXCEPT !.span[c] = span]
          ELSE [d EXCEPT !.span[c] = mine, !.span[mate] = pair - mine]
  BY Zenon DEF resizeColumn
<1>7. span \in 1..FullSpan
  BY TreeAssumption DEF Clamp
<1> HIDE DEF s, cols, at, span, mate, pair, mine, e
<1>8. CASE Len(cols) = 1
  <2>1. /\ e.kids = d.kids /\ e.locked = d.locked /\ e.span = [d.span EXCEPT ![c] = span]
        /\ e \in Document
    <3>1. e = [d EXCEPT !.span[c] = span]
      BY <1>6, <1>8
    <3>2. [d.span EXCEPT ![c] = span] \in [Columns -> Nat]
      BY <1>5, <1>7
    <3>3. QED BY <1>5, <3>1, <3>2 DEF Document
  <2>2. at = 1 /\ cols[1] = c /\ ToSet(cols) = {c}
    BY <1>2, <1>4, <1>8, Members
  <2>3. e.span[c] = span /\ \A x \in Columns : x # c => e.span[x] = d.span[x]
    BY <1>5, <2>1
  <2>4. SumOf(Mapped(cols, e.span)) <= FullSpan
    <3>1. \A x \in ToSet(cols) : e.span[x] \in Nat
      BY <1>7, <2>2, <2>3
    <3>2. /\ Mapped(cols, e.span) \in Seq(Nat) /\ Len(Mapped(cols, e.span)) = 1
          /\ Mapped(cols, e.span)[1] = e.span[cols[1]]
      BY <1>4, <1>8, <3>1, SpansTyped
    <3>3. SumOf(Mapped(cols, e.span)) = e.span[c]
      BY <2>2, <3>2, SumOfOne
    <3>4. QED BY <1>7, <2>3, <3>3
  <2>5. \A x \in ToSet(cols) : e.span[x] >= 1
    BY <1>7, <2>2, <2>3
  <2>6. \A x \in Columns \ ToSet(cols) : e.span[x] = d.span[x]
    BY <2>2, <2>3
  <2>7. QED BY <1>3, <2>1, <2>4, <2>5, <2>6, RespanGood DEF cols, e
<1>9. CASE Len(cols) # 1
  <2> DEFINE low == IF at < Len(cols) THEN at ELSE at - 1
             other == IF at < Len(cols) THEN at + 1 ELSE at - 1
  <2>1. /\ low \in 1..(Len(cols) - 1) /\ other \in 1..Len(cols) /\ other # at
        /\ (low = at /\ low + 1 = other) \/ (low = other /\ low + 1 = at)
    <3>1. Len(cols) \in Nat /\ at \in 1..Len(cols) /\ Len(cols) # 1
      BY <1>2, <1>4, <1>9
    <3>2. CASE at < Len(cols)
      BY <3>1, <3>2
    <3>3. CASE ~(at < Len(cols))
      <4>1. at = Len(cols) /\ at >= 2
        <5> DEFINE N == Len(cols)
        <5>1. N \in Nat /\ at \in 1..N /\ N # 1 /\ ~(at < N)
          BY <3>1, <3>3
        <5> HIDE DEF N
        <5>2. at = N /\ at >= 2
          BY <5>1
        <5>3. QED BY <5>2 DEF N
      <4>2. low = at - 1 /\ other = at - 1
        BY <3>3
      <4> HIDE DEF low, other
      <4>3. QED BY <3>1, <4>1, <4>2
    <3>4. QED BY <3>2, <3>3
  <2>2. mate = cols[other]
    BY DEF mate
  <2> HIDE DEF low, other
  <2>3. mate # c /\ mate \in ToSet(cols) /\ mate \in Columns
    BY <1>2, <1>4, <2>1, <2>2 DEF Distinct
  <2>4. pair \in Nat /\ pair >= 2 /\ pair = d.span[c] + d.span[mate]
    BY <1>1, <1>2, <1>4, <2>3 DEF pair
  <2>5. mine \in Nat \ {0} /\ pair - mine \in Nat \ {0} /\ mine + (pair - mine) = pair
    BY <2>4, ResizeShares DEF span, mine
  <2>6. /\ e.kids = d.kids /\ e.locked = d.locked
        /\ e.span = [[d.span EXCEPT ![c] = mine] EXCEPT ![mate] = pair - mine]
        /\ e \in Document
    <3>1. e = [d EXCEPT !.span[c] = mine, !.span[mate] = pair - mine]
      BY <1>6, <1>9
    <3>2. [[d.span EXCEPT ![c] = mine] EXCEPT ![mate] = pair - mine] \in [Columns -> Nat]
      BY <1>5, <2>5
    <3>3. QED BY <1>5, <3>1, <3>2 DEF Document
  <2>7. /\ e.span[c] = mine /\ e.span[mate] = pair - mine
        /\ \A x \in Columns : x # c /\ x # mate => e.span[x] = d.span[x]
    BY <1>5, <2>3, <2>6
  <2>8. SumOf(Mapped(cols, e.span)) = SumOf(Mapped(cols, d.span))
    <3> DEFINE a == Mapped(cols, d.span)
               b == Mapped(cols, e.span)
    <3>1. /\ a \in Seq(Nat) /\ Len(a) = Len(cols) /\ \A i \in 1..Len(cols) : a[i] = d.span[cols[i]]
      BY <1>4, SpansTyped
    <3>2. \A x \in ToSet(cols) : e.span[x] \in Nat
      BY <1>4, <2>5, <2>7
    <3>3. /\ b \in Seq(Nat) /\ Len(b) = Len(cols) /\ \A i \in 1..Len(cols) : b[i] = e.span[cols[i]]
      BY <1>4, <3>2, SpansTyped
    <3> HIDE DEF a, b
    <3>4. /\ a[at] = d.span[c] /\ a[other] = d.span[mate]
          /\ b[at] = mine /\ b[other] = pair - mine
      BY <1>2, <2>1, <2>2, <2>7, <3>1, <3>3
    <3>5. b[low] + b[low + 1] = a[low] + a[low + 1]
      <4>2. /\ b[at] + b[other] = a[at] + a[other] /\ b[other] + b[at] = a[other] + a[at]
        BY <1>2, <1>4, <2>3, <2>4, <2>5, <3>4
      <4>3. QED BY <2>1, <4>2
    <3>6. ASSUME NEW i \in 1..Len(cols), i \notin {low, low + 1} PROVE b[i] = a[i]
      <4>1. cols[i] # c /\ cols[i] # mate
        BY <1>2, <1>4, <2>1, <2>2, <3>6 DEF Distinct
      <4>2. cols[i] \in Columns
        BY <1>4
      <4>3. QED BY <2>7, <3>1, <3>3, <4>1, <4>2
    <3>7. Shifted(Len(a), a, b, low)
      BY <2>1, <3>1, <3>5, <3>6 DEF Shifted
    <3>8. QED BY <3>1, <3>3, <3>7, SumShift DEF a, b
  <2>9. \A x \in ToSet(cols) : e.span[x] >= 1
    BY <1>1, <1>4, <2>5, <2>7
  <2>10. SumOf(Mapped(cols, e.span)) <= FullSpan
    BY <1>1, <1>3, <2>8 DEF cols
  <2>11. \A x \in Columns \ ToSet(cols) : e.span[x] = d.span[x]
    BY <1>2, <2>3, <2>7
  <2>12. QED BY <1>3, <2>6, <2>9, <2>10, <2>11, RespanGood DEF cols, e
<1>10. QED BY <1>8, <1>9

-----------------------------------------------------------------------------
(* makeClip: what is copied is a widget or a section.                      *)

\* What is copied, a column with its section, is a part that can be pasted.
LEMMA ClipGood ==
  ASSUME NEW d, Good(d), NEW id \in In(d)
  PROVE  /\ IsPart(makeClip(d, id)) /\ makeClip(d, id).root \in Sections \cup Widgets
         /\ makeClip(d, id).root \in Node
<1> DEFINE p == Part(d, id)
           s == Holder(d, id)
           q == makeClip(d, id)
           X == DOMAIN p.kids
<1>1. /\ IsPart(p) /\ p.root = id /\ X = Below(d, id) /\ X \subseteq In(d)
      /\ \A x \in X : p.kids[x] = d.kids[x]
  BY PartGood
<1>2. d \in Document /\ Tree(d) /\ id \in Node /\ In(d) \subseteq Node
  BY GoodForm, InFacts DEF Good
<1>3. CASE id \notin Columns
  <2>1. q = p
    BY <1>3 DEF makeClip
  <2>2. id \in Sections \cup Widgets
    BY <1>2, <1>3 DEF Node
  <2> HIDE DEF p, q
  <2>3. QED BY <1>1, <1>2, <2>1, <2>2 DEF q
<1>4. CASE id \in Columns
  <2>1. /\ s \in Parent /\ id \in ToSet(d.kids[s]) /\ id \in KidKind(s)
    BY <1>2, HolderFacts
  <2>2. s \in Sections /\ s \in Node /\ s # id /\ s \notin Columns
    BY <1>2, <1>4, <2>1, NodeKinds, TreeAssumption DEF Parent, Node
  <2>3. s \notin X
    BY <1>1, <1>2, <2>1, Acyclic
  <2>4. /\ q.root = s /\ q.kids = Over([x \in {s} |-> <<id>>], p.kids)
        /\ q.span = [p.span EXCEPT ![id] = FullSpan] /\ q.locked = p.locked
    BY <1>4 DEF makeClip, Part
  <2> HIDE DEF p, s, q, X
  <2>5. /\ DOMAIN q.kids = X \cup {s} /\ q.kids[s] = <<id>>
        /\ q.kids = [x \in X \cup {s} |-> q.kids[x]]
        /\ \A x \in X : q.kids[x] = p.kids[x]
    <3> DEFINE f == [x \in {s} |-> <<id>>]
    <3>1. DOMAIN f = {s} /\ f[s] = <<id>>
      OBVIOUS
    <3> HIDE DEF f
    <3>2. /\ DOMAIN Over(f, p.kids) = DOMAIN f \cup DOMAIN p.kids
          /\ Over(f, p.kids) = [x \in DOMAIN f \cup DOMAIN p.kids |-> Over(f, p.kids)[x]]
          /\ \A x \in DOMAIN f : Over(f, p.kids)[x] = f[x]
          /\ \A x \in DOMAIN p.kids : x \notin DOMAIN f => Over(f, p.kids)[x] = p.kids[x]
      BY Merge, Zenon
    <3>3. q.kids = Over(f, p.kids)
      BY <2>4 DEF f
    <3>4. DOMAIN f \cup DOMAIN p.kids = X \cup {s}
      BY <3>1 DEF X
    <3>5. QED BY <2>3, <3>1, <3>2, <3>3, <3>4 DEF X
  <2>6. /\ p.root \in X /\ X \subseteq Node /\ p.locked \subseteq X
        /\ p.span \in [X \cap Columns -> Nat \ {0}]
        /\ Apart(p.kids, X) /\ RightKinds(p.kids, X)
        /\ \A S \in SUBSET X :
             p.root \in S /\ (\A x \in S : ToSet(p.kids[x]) \subseteq S) => S = X
        /\ \A x \in X \cap Sections : SumOf(Mapped(p.kids[x], p.span)) <= FullSpan
    BY <1>1 DEF IsPart, X
  <2>7. \A x \in X : p.kids[x] \in Seq(X \ {p.root}) /\ p.kids[x] \in Seq(Node)
                     /\ ToSet(p.kids[x]) \subseteq X \ {p.root}
    BY <1>1, PartKids DEF X
  <2> DEFINE Y == X \cup {s}
  <2>8. id \in X /\ <<id>> \in Seq(X) /\ ToSet(<<id>>) = {id} /\ Distinct(<<id>>)
        /\ Len(<<id>>) = 1 /\ <<id>>[1] = id /\ <<id>> \in Seq(Node)
    BY <1>1, <1>2, <2>6, OneList
  <2>9. q.kids \in [Y -> Seq(Y \ {s})]
    <3>1. Y \ {s} = X
      BY <2>3
    <3>2. \A x \in Y : q.kids[x] \in Seq(X)
      <4>1. ASSUME NEW x \in X PROVE q.kids[x] \in Seq(X)
        <5>1. p.kids[x] \in Seq(X \ {p.root})
          BY <2>7
        <5>2. X \ {p.root} \subseteq X
          OBVIOUS
        <5>3. p.kids[x] \in Seq(X)
          BY <5>1, <5>2
        <5>4. QED BY <2>5, <5>3
      <4>2. QED BY <2>5, <2>8, <4>1
    <3> HIDE DEF Y
    <3>3. q.kids = [x \in Y |-> q.kids[x]]
      BY <2>5 DEF Y
    <3>4. QED BY <3>1, <3>2, <3>3
  <2>10. /\ q.span \in [Y \cap Columns -> Nat \ {0}]
         /\ q.span[id] = FullSpan
         /\ \A c \in X \cap Columns : c # id => q.span[c] = p.span[c]
    <3>1. Y \cap Columns = X \cap Columns
      BY <2>2
    <3>2. [p.span EXCEPT ![id] = FullSpan] \in [X \cap Columns -> Nat \ {0}]
      BY <2>6, TreeAssumption
    <3>3. id \in X \cap Columns
      BY <1>4, <2>8
    <3>4. QED BY <2>4, <2>6, <3>1, <3>2, <3>3
  <2>11. Apart(q.kids, Y)
    <3>1. \A x \in Y : Distinct(q.kids[x])
      BY <2>5, <2>6, <2>8 DEF Apart
    <3>2. \A x \in X : id \notin ToSet(q.kids[x])
      BY <1>1, <2>5, <2>7
    <3>3. QED BY <2>5, <2>6, <2>8, <3>1, <3>2 DEF Apart
  <2>12. RightKinds(q.kids, Y)
    <3>1. KidKind(s) = Columns
      BY <2>2, NodeKinds
    <3>2. QED BY <1>4, <2>5, <2>6, <2>8, <3>1 DEF RightKinds
  <2>13. ASSUME NEW S \in SUBSET Y, s \in S, \A x \in S : ToSet(q.kids[x]) \subseteq S
         PROVE  S = Y
    <3> DEFINE R == S \cap X
    <3>1. R \in SUBSET X /\ p.root \in R
      BY <1>1, <2>5, <2>8, <2>13
    <3>2. \A x \in R : ToSet(p.kids[x]) \subseteq R
      BY <2>5, <2>7, <2>13
    <3>3. R = X
      <4> HIDE DEF R
      <4>1. QED BY <2>6, <3>1, <3>2
    <3>4. QED BY <2>13, <3>3
  <2>14. ASSUME NEW x \in Y \cap Sections
         PROVE  SumOf(Mapped(q.kids[x], q.span)) <= FullSpan
    <3>1. CASE x = s
      <4> DEFINE k == <<id>>
      <4>1. k \in Seq(Node) /\ Len(k) = 1 /\ k[1] = id /\ \A c \in ToSet(k) : q.span[c] \in Nat
        BY <2>8, <2>10, TreeAssumption
      <4> HIDE DEF k
      <4>2. /\ Mapped(k, q.span) \in Seq(Nat) /\ Len(Mapped(k, q.span)) = 1
            /\ Mapped(k, q.span)[1] = FullSpan
        BY <2>10, <4>1, SpansTyped
      <4>3. SumOf(Mapped(k, q.span)) = FullSpan
        BY <4>2, SumOfOne
      <4>4. q.kids[x] = k
        BY <2>5, <3>1 DEF k
      <4>5. QED BY <4>3, <4>4, TreeAssumption
    <3>2. CASE x # s
      <4>1. x \in X /\ p.kids[x] \in Seq(Node) /\ ToSet(p.kids[x]) \subseteq X \ {id}
        BY <1>1, <2>7, <3>2
      <4>2. ToSet(p.kids[x]) \subseteq Columns
        <5>1. ToSet(p.kids[x]) \subseteq KidKind(x)
          BY <2>6, <4>1 DEF RightKinds
        <5>2. QED BY <5>1, NodeKinds
      <4>3. Mapped(p.kids[x], q.span) = Mapped(p.kids[x], p.span)
        <5>1. \A c \in ToSet(p.kids[x]) : q.span[c] = p.span[c]
          BY <2>10, <4>1, <4>2
        <5>2. QED BY <4>1, <5>1, SpansSame
      <4>4. QED BY <2>5, <2>6, <4>1, <4>3
    <3>3. QED BY <3>1, <3>2
  <2>15. IsPart(q)
    <3>1. DOMAIN q.kids = Y /\ q.root = s /\ s \in Y /\ Y \subseteq Node /\ q.locked \subseteq Y
      BY <2>2, <2>4, <2>5, <2>6
    <3> HIDE DEF Y
    <3>2. QED BY <2>9, <2>10, <2>11, <2>12, <2>13, <2>14, <3>1 DEF IsPart
  <2>16. QED BY <2>2, <2>4, <2>15 DEF q
<1>5. QED BY <1>3, <1>4

-----------------------------------------------------------------------------
(* Moves, copies and pastes.                                               *)

(* A node that is moved stays, unless it is moved into itself: then it is  *)
(* removed.                                                                *)
LEMMA MoveGood ==
  ASSUME NEW d, Good(d), NEW id \in In(d), id \in Sections \cup Widgets,
         NEW at, id \in KidKind(at), NEW i \in Nat,
         NEW e, e = insert(removeNode(d, id), Part(d, id), at, i)
  PROVE  Good(e) /\ (In(d) \subseteq In(e) \/ e = removeNode(d, id))
<1> DEFINE rest == removeNode(d, id)
           p == Part(d, id)
           B == Below(d, id)
<1>1. IsPart(p) /\ p.root = id /\ DOMAIN p.kids = B /\ B \subseteq In(d)
  BY PartGood
<1>2. Good(rest) /\ In(rest) = In(d) \ B
  <2>1. id \in Node
    BY InFacts DEF Good
  <2>2. QED BY <2>1, RemoveGood
<1> HIDE DEF rest, p, B
<1>3. e = insert(rest, p, at, i)
  BY DEF rest, p
<1>4. DOMAIN p.kids \cap In(rest) = {}
  BY <1>1, <1>2
<1>5. /\ Good(e)
      /\ at \in In(rest) \cup {Root} => In(e) = In(rest) \cup DOMAIN p.kids
      /\ at \notin In(rest) \cup {Root} => e = rest
  BY <1>1, <1>2, <1>3, <1>4, InsertGood
<1>6. QED BY <1>1, <1>2, <1>5 DEF rest

\* Moving a widget keeps the document good and every node, unless the target went with it.
LEMMA MoveWidgetGood ==
  ASSUME NEW d, Good(d), NEW w \in In(d) \cap Widgets, NEW c \in Columns, NEW i \in Nat \ {0}
  PROVE  /\ Good(moveWidget(d, w, c, i))
         /\ In(d) \subseteq In(moveWidget(d, w, c, i)) \/ moveWidget(d, w, c, i) = removeNode(d, w)
<1>1. CASE Holder(d, w) = c /\ i \in {Position(d, w), Position(d, w) + 1}
  BY <1>1 DEF moveWidget
<1>2. CASE ~(Holder(d, w) = c /\ i \in {Position(d, w), Position(d, w) + 1})
  <2> DEFINE j == IF Holder(d, w) = c /\ Position(d, w) < i THEN i - 1 ELSE i
             e == moveWidget(d, w, c, i)
  <2>1. e = insert(removeNode(d, w), Part(d, w), c, j)
    BY <1>2 DEF moveWidget
  <2>2. j \in Nat
    OBVIOUS
  <2>3. w \in KidKind(c)
    BY NodeKinds
  <2> HIDE DEF e, j
  <2>4. Good(e) /\ (In(d) \subseteq In(e) \/ e = removeNode(d, w))
    BY <2>1, <2>2, <2>3, MoveGood
  <2>5. QED BY <2>4 DEF e
<1>3. QED BY <1>1, <1>2

\* Moving a section likewise.
LEMMA MoveSectionGood ==
  ASSUME NEW d, Good(d), NEW s \in ToSet(d.kids[Root]), NEW i \in Nat
  PROVE  /\ Good(moveSection(d, s, i))
         /\ In(d) \subseteq In(moveSection(d, s, i)) \/ moveSection(d, s, i) = removeNode(d, s)
<1>1. d \in Document /\ Tree(d)
  BY GoodForm DEF Good
<1>2. s \in In(d) /\ s \in Sections /\ s \in KidKind(Root)
  BY <1>1, InFacts, NodeKinds DEF Tree, RightKinds
<1>3. moveSection(d, s, i) = insert(removeNode(d, s), Part(d, s), Root, i)
  BY DEF moveSection
<1> DEFINE e == moveSection(d, s, i)
<1> HIDE DEF e
<1>4. Good(e) /\ (In(d) \subseteq In(e) \/ e = removeNode(d, s))
  BY <1>2, <1>3, MoveGood DEF e
<1>5. QED BY <1>4 DEF e

(* A clone is put where its original may be.                               *)
LEMMA PutClone ==
  ASSUME NEW d, Good(d), NEW p, IsPart(p), p.root \in Sections \cup Widgets, CanClone(d, p),
         NEW at \in In(d) \cup {Root}, p.root \in KidKind(at), NEW i \in Nat,
         NEW e, e = insert(d, clone(d, p), at, i)
  PROVE  Good(e) /\ In(d) \subseteq In(e)
<1> DEFINE q == clone(d, p)
<1>1. /\ IsPart(q) /\ DOMAIN q.kids \cap In(d) = {}
      /\ \A x \in Node : p.root \in KidKind(x) => q.root \in KidKind(x)
      /\ q.root \in Sections \cup Widgets
      /\ p.root \in Sections => q.root \in Sections
  BY CloneGood
<1>2. e = insert(d, q, at, i)
  OBVIOUS
<1> HIDE DEF q
<1>3. q.root \in KidKind(at)
  <2>1. CASE at = Root
    BY <1>1, <2>1, NodeKinds
  <2>2. CASE at \in In(d)
    <3>1. at \in Node
      BY <2>2, InFacts DEF Good
    <3>2. QED BY <1>1, <3>1
  <2>3. QED BY <2>1, <2>2
<1>4. Good(e) /\ In(e) = In(d) \cup DOMAIN q.kids
  BY <1>1, <1>2, <1>3, InsertGood
<1>5. QED BY <1>4

\* duplicate keeps the document good and every node.
LEMMA DuplicateGood ==
  ASSUME NEW d, Good(d), NEW id \in In(d), id \in Sections \cup Widgets, CanClone(d, Part(d, id))
  PROVE  Good(duplicate(d, id)) /\ In(d) \subseteq In(duplicate(d, id))
<1> DEFINE p == Part(d, id)
           at == Holder(d, id)
           i == Position(d, id) + 1
           e == duplicate(d, id)
<1>1. d \in Document /\ Tree(d)
  BY GoodForm DEF Good
<1>2. IsPart(p) /\ p.root = id
  BY PartGood
<1>3. at \in In(d) \cup {Root} /\ id \in KidKind(at) /\ i \in Nat
  BY <1>1, HolderFacts
<1>4. e = insert(d, clone(d, p), at, i)
  BY DEF duplicate
<1> HIDE DEF p, at, i, e
<1>5. Good(e) /\ In(d) \subseteq In(e)
  BY <1>2, <1>3, <1>4, PutClone DEF p
<1>6. QED BY <1>5 DEF e

\* The first and the last child of a node are children of it.
LEMMA FirstOf ==
  ASSUME NEW d \in Document, Tree(d), NEW x \in Parent, d.kids[x] # <<>>
  PROVE  /\ d.kids[x][1] \in ToSet(d.kids[x]) /\ Head(d.kids[x]) \in ToSet(d.kids[x])
         /\ Last(d.kids[x]) \in ToSet(d.kids[x])
<1> DEFINE k == d.kids[x]
<1>1. k \in Seq(Node) /\ k # <<>>
  BY KidsTyped
<1> HIDE DEF k
<1>2. Len(k) \in Nat /\ Len(k) # 0 /\ Head(k) = k[1] /\ Last(k) = k[Len(k)]
  BY <1>1 DEF Last
<1>3. k[1] \in ToSet(k) /\ k[Len(k)] \in ToSet(k)
  BY <1>1, <1>2, Members
<1>4. QED BY <1>2, <1>3 DEF k

\* defaultColumn is a column of the document, or there is none.
LEMMA DefaultColumn ==
  ASSUME NEW d, Good(d), NEW sel
  PROVE  defaultColumn(d, sel) = Root \/ defaultColumn(d, sel) \in In(d) \cap Columns
<1>1. d \in Document /\ Tree(d)
  BY GoodForm DEF Good
<1> DEFINE first(s) == IF d.kids[s] = <<>> THEN Root ELSE d.kids[s][1]
<1>2. ASSUME NEW s \in Sections PROVE first(s) = Root \/ first(s) \in In(d) \cap Columns
  <2>1. s \in Parent /\ ToSet(d.kids[s]) \subseteq In(d) \cap Columns
    BY <1>1, NodeKinds, ColumnsTyped
  <2>2. QED BY <1>1, <2>1, FirstOf
<1>3. defaultColumn(d, sel) =
        IF sel \in In(d) \cap Columns THEN sel
        ELSE IF sel \in In(d) \cap Widgets THEN Holder(d, sel)
        ELSE IF sel \in In(d) THEN first(sel)
        ELSE IF d.kids[Root] = <<>> THEN Root ELSE first(Last(d.kids[Root]))
  BY DEF defaultColumn
<1> HIDE DEF first
<1>4. CASE sel \in In(d) \cap Columns
  BY <1>3, <1>4
<1>5. CASE sel \in In(d) \cap Widgets
  <2>1. sel \notin Columns
    BY <1>5, TreeAssumption
  <2>2. Holder(d, sel) \in In(d) \cup {Root} /\ sel \in KidKind(Holder(d, sel))
    BY <1>1, <1>5, HolderFacts
  <2>3. Holder(d, sel) \in In(d) \cap Columns
    BY <1>1, <1>5, <2>2, InFacts, NodeKinds, TreeAssumption DEF Node
  <2>4. QED BY <1>3, <1>5, <2>1, <2>3
<1>6. CASE sel \in In(d) /\ sel \notin Columns /\ sel \notin Widgets
  <2>1. sel \in Sections
    BY <1>1, <1>6, InFacts DEF Node
  <2>2. QED BY <1>2, <1>3, <1>6, <2>1
<1>7. CASE sel \notin In(d)
  <2>1. CASE d.kids[Root] = <<>>
    BY <1>3, <1>7, <2>1
  <2>2. CASE d.kids[Root] # <<>>
    <3>1. Last(d.kids[Root]) \in Sections
      BY <1>1, <2>2, FirstOf, NodeKinds DEF Tree, RightKinds
    <3>2. QED BY <1>2, <1>3, <1>7, <2>2, <3>1
  <2>3. QED BY <2>1, <2>2
<1>8. QED BY <1>4, <1>5, <1>6, <1>7

\* topSectionOf is a section directly under the root.
LEMMA TopSection ==
  ASSUME NEW d \in Document, Tree(d), NEW id \in In(d)
  PROVE  topSectionOf(d, id) \in ToSet(d.kids[Root])
<1> DEFINE T == {Root} \cup UNION {Below(d, s) : s \in ToSet(d.kids[Root])}
<1>1. \A s \in ToSet(d.kids[Root]) :
        /\ s \in Below(d, s) /\ Below(d, s) \subseteq Parent
        /\ \A x \in Below(d, s) : ToSet(d.kids[x]) \subseteq Below(d, s)
  BY KidsTyped, BelowFacts, NodeKinds DEF Closed
<1>2. T \in SUBSET Parent /\ Root \in T /\ Closed(d, T)
  BY <1>1, NodeKinds DEF Closed
<1>3. Below(d, Root) \subseteq T
  <2> HIDE DEF T
  <2>1. QED BY <1>2, BelowFacts, NodeKinds
<1>4. id # Root /\ id \in Below(d, Root)
  BY InFacts, InReached, NodeKinds
<1>5. \E s \in ToSet(d.kids[Root]) : id \in Below(d, s)
  BY <1>3, <1>4
<1>6. QED BY <1>5, Zenon DEF topSectionOf

\* pasteClip keeps the document good and every node.
LEMMA PasteGood ==
  ASSUME NEW d, Good(d), NEW clip, IsPart(clip), clip.root \in Sections \cup Widgets, NEW sel,
         clip.root \in Widgets /\ defaultColumn(d, sel) = Root
           => CanCreate(d) /\ CanClone(addSection(d), clip),
         ~(clip.root \in Widgets /\ defaultColumn(d, sel) = Root) => CanClone(d, clip)
  PROVE  Good(pasteClip(d, clip, sel)) /\ In(d) \subseteq In(pasteClip(d, clip, sel))
<1> DEFINE e == pasteClip(d, clip, sel)
           end(x) == Len(d.kids[x]) + 1
           nested == sel \in Sections \ ToSet(d.kids[Root])
           column == defaultColumn(d, sel)
           wider == addSection(d)
<1>1. d \in Document /\ Tree(d)
  BY GoodForm DEF Good
<1>2. e = IF clip.root \in Sections
          THEN insert(d, clone(d, clip), Root,
                      IF sel \in In(d) /\ ~nested THEN Position(d, topSectionOf(d, sel)) + 1
                      ELSE end(Root))
          ELSE IF sel \in In(d) \cap Widgets
          THEN insert(d, clone(d, clip), Holder(d, sel), Position(d, sel) + 1)
          ELSE IF column # Root THEN insert(d, clone(d, clip), column, end(column))
          ELSE insert(wider, clone(wider, clip), Head(wider.kids[Last(wider.kids[Root])]), 1)
  BY DEF pasteClip
<1>3. \A x \in Parent : end(x) \in Nat
  BY <1>1, KidsTyped, NumberAt
<1>4. column = Root \/ column \in In(d) \cap Columns
  BY DefaultColumn
<1>5. /\ Root \in Parent /\ In(d) \subseteq Parent /\ KidKind(Root) = Sections
      /\ \A c \in Columns : KidKind(c) = Widgets
  BY <1>1, InFacts, NodeKinds
<1>6. CASE clip.root \in Sections
  <2> DEFINE i == IF sel \in In(d) /\ ~nested THEN Position(d, topSectionOf(d, sel)) + 1
                  ELSE end(Root)
  <2>1. i \in Nat
    <3>1. CASE sel \in In(d) /\ ~nested
      <4>1. topSectionOf(d, sel) \in In(d)
        BY <1>1, <1>5, <3>1, TopSection, InFacts
      <4>2. Position(d, topSectionOf(d, sel)) \in Nat
        BY <1>1, <4>1, HolderFacts
      <4>3. QED BY <3>1, <4>2
    <3>2. CASE ~(sel \in In(d) /\ ~nested)
      BY <1>3, <1>5, <3>2
    <3>3. QED BY <3>1, <3>2
  <2>2. e = insert(d, clone(d, clip), Root, i)
    BY <1>2, <1>6
  <2>3. clip.root \notin Widgets
    BY <1>6, TreeAssumption
  <2> HIDE DEF e, i
  <2>4. Good(e) /\ In(d) \subseteq In(e)
    BY <1>5, <1>6, <2>1, <2>2, <2>3, PutClone
  <2>5. QED BY <2>4 DEF e
<1>7. CASE clip.root \in Widgets /\ sel \in In(d) \cap Widgets
  <2> DEFINE at == Holder(d, sel)
             i == Position(d, sel) + 1
  <2>1. clip.root \notin Sections /\ sel \notin Columns
    BY <1>7, TreeAssumption
  <2>2. column = at
    BY <1>7, <2>1 DEF defaultColumn
  <2>3. at \in In(d) \cup {Root} /\ i \in Nat /\ sel \in KidKind(at)
    BY <1>1, <1>7, HolderFacts
  <2>4. at # Root
    BY <1>5, <1>7, <2>3, TreeAssumption
  <2>5. e = insert(d, clone(d, clip), at, i)
    BY <1>2, <1>7, <2>1
  <2>6. at \in In(d) \cap Columns
    BY <1>4, <2>2, <2>4
  <2> HIDE DEF e, at, i
  <2>7. Good(e) /\ In(d) \subseteq In(e)
    BY <1>5, <1>7, <2>2, <2>3, <2>4, <2>5, <2>6, PutClone DEF at
  <2>8. QED BY <2>7 DEF e
<1>8. CASE clip.root \in Widgets /\ sel \notin In(d) \cap Widgets /\ column # Root
  <2>1. clip.root \notin Sections
    BY <1>8, TreeAssumption
  <2>2. e = insert(d, clone(d, clip), column, end(column))
    BY <1>2, <1>8, <2>1
  <2>3. end(column) \in Nat /\ column \in In(d) \cap Columns
    BY <1>3, <1>4, <1>5, <1>8
  <2> HIDE DEF e, end, column
  <2>4. Good(e) /\ In(d) \subseteq In(e)
    BY <1>5, <1>8, <2>2, <2>3, PutClone DEF column
  <2>5. QED BY <2>4 DEF e
<1>9. CASE clip.root \in Widgets /\ sel \notin In(d) \cap Widgets /\ column = Root
  <2> DEFINE at == Head(wider.kids[Last(wider.kids[Root])])
  <2>1. clip.root \notin Sections
    BY <1>9, TreeAssumption
  <2>2. e = insert(wider, clone(wider, clip), at, 1)
    BY <1>2, <1>9, <2>1
  <2>3. CanCreate(d) /\ CanClone(wider, clip)
    BY <1>9
  <2>4. /\ Good(wider) /\ In(wider) = In(d) \cup {Spare(d, Sections), Spare(d, Columns)}
        /\ at = Spare(d, Columns)
    BY <2>3, AddSectionGood
  <2>5. at \in Columns /\ at \in In(wider)
    BY <2>3, <2>4, CreateSectionGood
  <2> HIDE DEF e, wider, at
  <2>6. Good(e) /\ In(wider) \subseteq In(e)
    BY <1>5, <1>9, <2>2, <2>3, <2>4, <2>5, PutClone DEF wider
  <2>7. QED BY <2>4, <2>6 DEF e
<1>10. QED BY <1>6, <1>7, <1>8, <1>9
=============================================================================
