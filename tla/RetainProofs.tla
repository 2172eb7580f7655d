---------------------------- MODULE RetainProofs ----------------------------
(***************************************************************************)
(* Facts about Retain and Append that the proofs about queues rest on.     *)
(***************************************************************************)
EXTENDS Retain, SequencesExt, SequenceTheorems, WellFoundedInduction, TLAPS

(* A set of naturals that is not empty has a least element. *)
LEMMA Least ==
  ASSUME NEW T, T \subseteq Nat, T # {}
  PROVE  \E x \in T : \A y \in T : x <= y
<1> DEFINE R == OpToRel(<, Nat)
<1>1. IsWellFoundedOn(R, Nat)
  BY NatLessThanWellFounded
<1> HIDE DEF R
<1>2. PICK x \in T : \A y \in T : ~(<<y, x>> \in R)
  BY <1>1, WFMin
<1>3. \A y \in Nat, z \in Nat : y < z => <<y, z>> \in R
  BY DEF R, OpToRel
<1>4. ASSUME NEW y \in T
      PROVE  x <= y
  <2>1. x \in Nat /\ y \in Nat /\ ~(y < x)
    BY <1>2, <1>3
  <2> QED
    BY <2>1
<1> QED
  BY <1>2, <1>4

(* Induction up to n, over a set in place of a predicate. *)
LEMMA InductionUpTo ==
  ASSUME NEW n \in Nat, NEW T, 0 \in T,
         ASSUME NEW i \in 1..n, i - 1 \in T
         PROVE  i \in T
  PROVE  0..n \subseteq T
<1> DEFINE Bad == (0..n) \ T
<1> SUFFICES ASSUME Bad # {}
             PROVE  FALSE
  OBVIOUS
<1>1. Bad \subseteq Nat
  OBVIOUS
<1>2. PICK m \in Bad : \A k \in Bad : m <= k
  <2> HIDE DEF Bad
  <2> QED
    BY <1>1, Least
<1>3. m \in 0..n /\ m \notin T /\ m # 0
  BY <1>2
<1>4. m \in 1..n /\ m - 1 \in 0..n /\ ~(m <= m - 1)
  BY <1>3
<1>5. m - 1 \in T
  BY <1>2, <1>4
<1> QED
  BY <1>3, <1>4, <1>5

(* f holds what is kept of the first i elements. *)
RetainedUpTo(f, seq, keep) ==
  f = [i \in 0..Len(seq) |->
         IF i = 0 THEN <<>>
         ELSE IF seq[i] \in keep THEN Append(f[i - 1], seq[i]) ELSE f[i - 1]]

(* The recursive function behind Retain exists. *)
LEMMA RetainDefined ==
  ASSUME NEW S, NEW seq \in Seq(S), NEW keep
  PROVE  \E f : Retain(seq, keep) = f[Len(seq)] /\ RetainedUpTo(f, seq, keep)
<1> DEFINE Step(f, i) == IF i = 0 THEN <<>>
                         ELSE IF seq[i] \in keep THEN Append(f[i - 1], seq[i]) ELSE f[i - 1]
           Defined(n) == \E f : f = [i \in 0..n |-> Step(f, i)]
           Good == {n \in 0..Len(seq) : Defined(n)}
<1>1. Len(seq) \in Nat
  OBVIOUS
<1>2. 0 \in Good
  <2> DEFINE z == [i \in 0..0 |-> <<>>]
  <2>1. z = [i \in 0..0 |-> Step(z, i)]
    OBVIOUS
  <2>2. Defined(0)
    BY <2>1, Zenon
  <2>3. 0 \in 0..Len(seq)
    BY <1>1
  <2> QED
    BY <2>2, <2>3, Zenon
<1>3. ASSUME NEW n \in 1..Len(seq), n - 1 \in Good
      PROVE  n \in Good
  <2>1. PICK f : f = [i \in 0..(n - 1) |-> Step(f, i)]
    BY <1>3, Zenon
  <2> DEFINE g == [i \in 0..n |-> IF i = n THEN Step(f, n) ELSE f[i]]
  <2>2. ASSUME NEW i \in 0..n
        PROVE  g[i] = Step(g, i)
    <3>1. CASE i = n
      BY <1>1, <3>1
    <3>2. CASE i # n
      <4>1. i \in 0..(n - 1) /\ (i # 0 => i - 1 \in 0..(n - 1) /\ i - 1 # n /\ i - 1 \in 0..n)
        BY <1>1, <3>2
      <4>2. g[i] = f[i] /\ f[i] = Step(f, i) /\ (i # 0 => g[i - 1] = f[i - 1])
        BY <2>1, <4>1, <3>2
      <4> QED
        BY <4>2
    <3> QED
      BY <3>1, <3>2
  <2>3. g = [i \in 0..n |-> Step(g, i)]
    BY <2>2
  <2>4. Defined(n)
    <3> HIDE DEF g, Step
    <3> QED
      BY <2>3, Zenon
  <2>5. n \in 0..Len(seq)
    BY <1>1
  <2> QED
    BY <2>4, <2>5, Zenon
<1>4. Defined(Len(seq))
  <2> HIDE DEF Good
  <2>1. 0..Len(seq) \subseteq Good
    BY <1>1, <1>2, <1>3, InductionUpTo
  <2>2. Len(seq) \in 0..Len(seq)
    BY <1>1
  <2>3. Len(seq) \in Good
    BY <2>1, <2>2
  <2> QED
    BY <2>3, Zenon DEF Good
<1> DEFINE upTo == CHOOSE f : f = [i \in 0..Len(seq) |-> Step(f, i)]
<1>5. upTo = [i \in 0..Len(seq) |-> Step(upTo, i)]
  <2> HIDE DEF Step
  <2> QED
    BY <1>4, Zenon
<1>6. Retain(seq, keep) = upTo[Len(seq)]
  BY Zenon DEF Retain
<1> HIDE DEF upTo
<1>7. RetainedUpTo(upTo, seq, keep)
  BY <1>5, Zenon DEF RetainedUpTo
<1> QED
  BY <1>6, <1>7, Zenon

(* One more element at the end. *)
LEMMA Appended ==
  ASSUME NEW S, NEW seq \in Seq(S), NEW x \in S
  PROVE  /\ Append(seq, x) \in Seq(S) /\ Len(Append(seq, x)) = Len(seq) + 1
         /\ ToSet(Append(seq, x)) = ToSet(seq) \cup {x}
         /\ IsInjective(seq) /\ x \notin ToSet(seq) => IsInjective(Append(seq, x))
<1> DEFINE longer == Append(seq, x)
<1>1. /\ longer \in Seq(S) /\ Len(longer) = Len(seq) + 1 /\ Len(seq) \in Nat
      /\ DOMAIN longer = 1..(Len(seq) + 1) /\ DOMAIN seq = 1..Len(seq)
      /\ longer[Len(seq) + 1] = x
      /\ \A i \in 1..Len(seq) : longer[i] = seq[i]
  OBVIOUS
<1> HIDE DEF longer
<1>2. ToSet(longer) = ToSet(seq) \cup {x}
  BY <1>1 DEF ToSet
<1>3. IsInjective(seq) /\ x \notin ToSet(seq) => IsInjective(longer)
  BY <1>1 DEF ToSet, IsInjective
<1> QED
  BY <1>1, <1>2, <1>3 DEF longer

(* The first element goes. *)
LEMMA Tailed ==
  ASSUME NEW S, NEW seq \in Seq(S), Len(seq) > 0
  PROVE  /\ Tail(seq) \in Seq(S) /\ Len(Tail(seq)) = Len(seq) - 1
         /\ Head(seq) \in S
         /\ ToSet(seq) = ToSet(Tail(seq)) \cup {Head(seq)}
         /\ IsInjective(seq) => IsInjective(Tail(seq))
<1> DEFINE rest == Tail(seq)
<1>1. /\ rest \in Seq(S) /\ Len(rest) = Len(seq) - 1 /\ Len(seq) \in Nat
      /\ DOMAIN rest = 1..(Len(seq) - 1) /\ DOMAIN seq = 1..Len(seq)
      /\ Head(seq) = seq[1]
      /\ \A i \in 1..(Len(seq) - 1) : rest[i] = seq[i + 1]
  OBVIOUS
<1> HIDE DEF rest
<1>2. ToSet(seq) = ToSet(rest) \cup {seq[1]}
  <2>1. ASSUME NEW i \in 1..Len(seq), i # 1
        PROVE  i - 1 \in 1..(Len(seq) - 1) /\ seq[i] = rest[i - 1]
    BY <1>1, <2>1
  <2>2. 1 \in 1..Len(seq) /\ \A i \in 1..(Len(seq) - 1) : i + 1 \in 1..Len(seq)
    BY <1>1
  <2>3. ToSet(rest) = {rest[i] : i \in 1..(Len(seq) - 1)} /\ ToSet(seq) = {seq[i] : i \in 1..Len(seq)}
    BY <1>1 DEF ToSet
  <2>4. ASSUME NEW y \in ToSet(seq)
        PROVE  y \in ToSet(rest) \cup {seq[1]}
    BY <2>1, <2>3
  <2>5. ASSUME NEW y \in ToSet(rest)
        PROVE  y \in ToSet(seq)
    <3>1. PICK i \in 1..(Len(seq) - 1) : y = rest[i]
      BY <2>3
    <3>2. y = seq[i + 1] /\ i + 1 \in 1..Len(seq)
      BY <1>1, <2>2, <3>1
    <3> QED
      BY <2>3, <3>2
  <2> QED
    BY <2>2, <2>3, <2>4, <2>5
<1>3. IsInjective(seq) => IsInjective(rest)
  <2> SUFFICES ASSUME IsInjective(seq), NEW i \in 1..(Len(seq) - 1), NEW j \in 1..(Len(seq) - 1), rest[i] = rest[j]
               PROVE  i = j
    BY <1>1 DEF IsInjective
  <2>1. seq[i + 1] = seq[j + 1] /\ i + 1 \in 1..Len(seq) /\ j + 1 \in 1..Len(seq)
    BY <1>1
  <2>2. i + 1 = j + 1
    BY <1>1, <2>1 DEF IsInjective
  <2> QED
    BY <2>2
<1>4. Head(seq) \in S
  BY <1>1
<1> QED
  BY <1>1, <1>2, <1>3, <1>4 DEF rest

(* What Retain keeps: a sequence that is no longer, with the elements that *)
(* are in keep, and each once if they were there once.                     *)
LEMMA Retained ==
  ASSUME NEW S, NEW seq \in Seq(S), NEW keep
  PROVE  /\ Retain(seq, keep) \in Seq(S) /\ Len(Retain(seq, keep)) <= Len(seq)
         /\ ToSet(Retain(seq, keep)) = ToSet(seq) \cap keep
         /\ IsInjective(seq) => IsInjective(Retain(seq, keep))
<1>1. PICK f : Retain(seq, keep) = f[Len(seq)] /\ RetainedUpTo(f, seq, keep)
  BY RetainDefined
<1>2. Len(seq) \in Nat /\ DOMAIN seq = 1..Len(seq) /\ \A i \in 1..Len(seq) : seq[i] \in S
  OBVIOUS
<1> DEFINE Seen(i) == {seq[j] : j \in 1..i} \cap keep
           Fine(i) == /\ f[i] \in Seq(S) /\ Len(f[i]) <= i
                      /\ ToSet(f[i]) = Seen(i)
                      /\ IsInjective(seq) => IsInjective(f[i])
           Good == {i \in 0..Len(seq) : Fine(i)}
<1>3. f[0] = <<>> /\ \A i \in 1..Len(seq) : f[i] = IF seq[i] \in keep THEN Append(f[i - 1], seq[i]) ELSE f[i - 1]
  <2>1. \A i \in 0..Len(seq) : f[i] = IF i = 0 THEN <<>>
                                      ELSE IF seq[i] \in keep THEN Append(f[i - 1], seq[i]) ELSE f[i - 1]
    BY <1>1, Zenon DEF RetainedUpTo
  <2>2. 0 \in 0..Len(seq) /\ \A i \in 1..Len(seq) : i \in 0..Len(seq) /\ i # 0
    BY <1>2
  <2> QED
    BY <2>1, <2>2, Zenon
<1>4. 0 \in Good
  <2>1. Fine(0)
    BY <1>3 DEF ToSet, IsInjective
  <2> QED
    BY <1>2, <2>1
<1>5. ASSUME NEW i \in 1..Len(seq), i - 1 \in Good
      PROVE  i \in Good
  <2>1. /\ f[i - 1] \in Seq(S) /\ Len(f[i - 1]) <= i - 1 /\ Len(f[i - 1]) \in Nat
        /\ ToSet(f[i - 1]) = Seen(i - 1)
        /\ IsInjective(seq) => IsInjective(f[i - 1])
    BY <1>5
  <2>2. seq[i] \in S /\ i \in Int /\ 1..i = (1..(i - 1)) \cup {i}
    BY <1>2
  <2>3. IF seq[i] \in keep THEN Seen(i) = Seen(i - 1) \cup {seq[i]} ELSE Seen(i) = Seen(i - 1)
    BY <2>2
  <2>4. IsInjective(seq) => seq[i] \notin Seen(i - 1)
    BY <1>2 DEF IsInjective
  <2>5. Fine(i)
    <3> HIDE DEF Seen
    <3>1. CASE seq[i] \in keep
      <4>1. f[i] = Append(f[i - 1], seq[i])
        BY <1>3, <3>1
      <4>2. /\ Append(f[i - 1], seq[i]) \in Seq(S) /\ Len(Append(f[i - 1], seq[i])) = Len(f[i - 1]) + 1
            /\ ToSet(Append(f[i - 1], seq[i])) = ToSet(f[i - 1]) \cup {seq[i]}
            /\ IsInjective(f[i - 1]) /\ seq[i] \notin ToSet(f[i - 1]) => IsInjective(Append(f[i - 1], seq[i]))
        BY <2>1, <2>2, Appended
      <4> QED
        BY <2>1, <2>2, <2>3, <2>4, <3>1, <4>1, <4>2
    <3>2. CASE seq[i] \notin keep
      <4>1. f[i] = f[i - 1]
        BY <1>3, <3>2
      <4> QED
        BY <2>1, <2>2, <2>3, <3>2, <4>1
    <3> QED
      BY <3>1, <3>2
  <2> HIDE DEF Fine
  <2>6. i \in 0..Len(seq)
    BY <1>2
  <2> QED
    BY <2>5, <2>6
<1>6. Fine(Len(seq))
  <2> HIDE DEF Good
  <2>1. 0..Len(seq) \subseteq Good
    BY <1>2, <1>4, <1>5, InductionUpTo
  <2>2. Len(seq) \in Good
    BY <1>2, <2>1
  <2> QED
    BY <2>2 DEF Good
<1>7. Seen(Len(seq)) = ToSet(seq) \cap keep
  BY <1>2 DEF ToSet
<1> HIDE DEF Seen
<1> QED
  BY <1>1, <1>6, <1>7

(* A slice of a sequence. *)
LEMMA Sliced ==
  ASSUME NEW S, NEW seq \in Seq(S), NEW m \in 1..(Len(seq) + 1), NEW n \in (m - 1)..Len(seq)
  PROVE  /\ SubSeq(seq, m, n) \in Seq(S) /\ Len(SubSeq(seq, m, n)) = n - m + 1
         /\ ToSet(SubSeq(seq, m, n)) = {seq[i] : i \in m..n}
         /\ IsInjective(seq) => IsInjective(SubSeq(seq, m, n))
<1> DEFINE part == SubSeq(seq, m, n)
<1>1. Len(seq) \in Nat /\ m \in Int /\ n \in Int /\ DOMAIN seq = 1..Len(seq) /\ n - m + 1 \in Nat
      /\ \A i \in m..n : i \in 1..Len(seq) /\ seq[i] \in S
  OBVIOUS
<1>2. /\ part \in Seq(S) /\ Len(part) = IF m <= n THEN n - m + 1 ELSE 0
      /\ \A i \in 1..(n - m + 1) : part[i] = seq[m + i - 1]
  BY <1>1, SubSeqProperties
<1> HIDE DEF part
<1>3. Len(part) = n - m + 1 /\ DOMAIN part = 1..(n - m + 1)
  BY <1>1, <1>2
<1>4. \A i \in 1..(n - m + 1) : m + i - 1 \in m..n
  BY <1>1
<1>5. \A i \in m..n : i - m + 1 \in 1..(n - m + 1) /\ m + (i - m + 1) - 1 = i
  BY <1>1
<1>6. ToSet(part) = {seq[i] : i \in m..n}
  <2>1. ASSUME NEW y \in ToSet(part)
        PROVE  y \in {seq[i] : i \in m..n}
    BY <1>2, <1>3, <1>4 DEF ToSet
  <2>2. ASSUME NEW i \in m..n
        PROVE  seq[i] \in ToSet(part)
    <3>1. PICK j \in 1..(n - m + 1) : m + j - 1 = i
      BY <1>5
    <3>2. part[j] = seq[i]
      BY <1>2, <3>1
    <3> QED
      BY <1>3, <3>2 DEF ToSet
  <2> QED
    BY <2>1, <2>2
<1>7. IsInjective(seq) => IsInjective(part)
  <2> SUFFICES ASSUME IsInjective(seq), NEW i \in 1..(n - m + 1), NEW j \in 1..(n - m + 1), part[i] = part[j]
               PROVE  i = j
    BY <1>3 DEF IsInjective
  <2>1. seq[m + i - 1] = seq[m + j - 1] /\ m + i - 1 \in 1..Len(seq) /\ m + j - 1 \in 1..Len(seq)
    BY <1>1, <1>2, <1>4
  <2>2. m + i - 1 = m + j - 1
    BY <1>1, <2>1 DEF IsInjective
  <2> QED
    BY <1>1, <2>2
<1> QED
  BY <1>2, <1>3, <1>6, <1>7 DEF part

(* Two sequences one after the other. *)
LEMMA Joined ==
  ASSUME NEW S, NEW one \in Seq(S), NEW two \in Seq(S)
  PROVE  /\ one \o two \in Seq(S) /\ ToSet(one \o two) = ToSet(one) \cup ToSet(two)
         /\ IsInjective(one) /\ IsInjective(two) /\ ToSet(one) \cap ToSet(two) = {} => IsInjective(one \o two)
<1> DEFINE all == one \o two
<1>1. Len(one) \in Nat /\ Len(two) \in Nat /\ DOMAIN one = 1..Len(one) /\ DOMAIN two = 1..Len(two)
  OBVIOUS
<1>2. /\ all \in Seq(S) /\ Len(all) = Len(one) + Len(two)
      /\ \A i \in 1..(Len(one) + Len(two)) : all[i] = IF i <= Len(one) THEN one[i] ELSE two[i - Len(one)]
  BY ConcatProperties
<1> HIDE DEF all
<1>3. DOMAIN all = 1..(Len(one) + Len(two))
  BY <1>1, <1>2
<1>4. \A i \in 1..(Len(one) + Len(two)) : IF i <= Len(one) THEN i \in 1..Len(one) ELSE i - Len(one) \in 1..Len(two)
  BY <1>1
<1>5. ToSet(all) = ToSet(one) \cup ToSet(two)
  <2>1. ASSUME NEW y \in ToSet(all)
        PROVE  y \in ToSet(one) \cup ToSet(two)
    <3>1. PICK i \in 1..(Len(one) + Len(two)) : y = all[i]
      BY <1>3 DEF ToSet
    <3> QED
      BY <1>1, <1>2, <1>4, <3>1 DEF ToSet
  <2>2. ASSUME NEW i \in 1..Len(one)
        PROVE  one[i] \in ToSet(all)
    <3>1. i \in 1..(Len(one) + Len(two)) /\ i <= Len(one)
      BY <1>1
    <3>2. all[i] = one[i]
      BY <1>2, <3>1
    <3> QED
      BY <1>3, <3>1, <3>2 DEF ToSet
  <2>3. ASSUME NEW i \in 1..Len(two)
        PROVE  two[i] \in ToSet(all)
    <3>1. PICK j : j = i + Len(one)
      OBVIOUS
    <3>2. j \in 1..(Len(one) + Len(two)) /\ ~(j <= Len(one)) /\ j - Len(one) = i
      BY <1>1, <3>1
    <3>3. all[j] = two[i]
      BY <1>2, <3>2
    <3> QED
      BY <1>3, <3>2, <3>3 DEF ToSet
  <2> QED
    BY <1>1, <2>1, <2>2, <2>3 DEF ToSet
<1>6. IsInjective(one) /\ IsInjective(two) /\ ToSet(one) \cap ToSet(two) = {} => IsInjective(all)
  <2> SUFFICES ASSUME IsInjective(one), IsInjective(two), ToSet(one) \cap ToSet(two) = {},
                      NEW i \in 1..(Len(one) + Len(two)), NEW j \in 1..(Len(one) + Len(two)), all[i] = all[j]
               PROVE  i = j
    BY <1>3 DEF IsInjective
  <2>1. CASE i <= Len(one) /\ j <= Len(one)
    BY <1>1, <1>2, <1>4, <2>1 DEF IsInjective
  <2>2. CASE ~(i <= Len(one)) /\ ~(j <= Len(one))
    <3>1. i - Len(one) = j - Len(one)
      BY <1>1, <1>2, <1>4, <2>2 DEF IsInjective
    <3> QED
      BY <1>1, <3>1
  <2>3. CASE i <= Len(one) /\ ~(j <= Len(one))
    <3>1. one[i] \in ToSet(one) /\ two[j - Len(one)] \in ToSet(two)
      BY <1>1, <1>4, <2>3 DEF ToSet
    <3> QED
      BY <1>2, <2>3, <3>1
  <2>4. CASE ~(i <= Len(one)) /\ j <= Len(one)
    <3>1. one[j] \in ToSet(one) /\ two[i - Len(one)] \in ToSet(two)
      BY <1>1, <1>4, <2>4 DEF ToSet
    <3> QED
      BY <1>2, <2>4, <3>1
  <2> QED
    BY <2>1, <2>2, <2>3, <2>4
<1> QED
  BY <1>2, <1>5, <1>6 DEF all

(* A sequence is empty when nothing is in it. *)
LEMMA EmptyIs ==
  ASSUME NEW S, NEW seq \in Seq(S)
  PROVE  seq = <<>> <=> ToSet(seq) = {}
<1>1. DOMAIN seq = 1..Len(seq) /\ Len(seq) \in Nat
  OBVIOUS
<1>2. CASE seq = <<>>
  BY <1>2 DEF ToSet
<1>3. CASE seq # <<>>
  <2>1. 1 \in DOMAIN seq
    BY <1>1, <1>3
  <2> QED
    BY <1>3, <2>1 DEF ToSet
<1> QED
  BY <1>2, <1>3

(* A set of naturals up to n that is not empty has a greatest element. *)
LEMMA Greatest ==
  ASSUME NEW n \in Nat, NEW T, T \subseteq 0..n, T # {}
  PROVE  \E x \in T : \A y \in T : x >= y
<1> DEFINE below == {n - x : x \in T}
<1>1. below \subseteq Nat /\ below # {}
  <2>1. \A x \in T : n - x \in Nat
    OBVIOUS
  <2>2. PICK x \in T : TRUE
    OBVIOUS
  <2>3. n - x \in below
    BY <2>2
  <2> QED
    BY <2>1, <2>3
<1>2. PICK d \in below : \A e \in below : d <= e
  <2> HIDE DEF below
  <2> QED
    BY <1>1, Least
<1>3. PICK x \in T : d = n - x
  BY <1>2
<1>4. ASSUME NEW y \in T
      PROVE  x >= y
  <2>1. n - y \in below /\ x \in 0..n /\ y \in 0..n
    BY <1>3
  <2>2. n - x <= n - y
    BY <1>2, <1>3, <2>1
  <2> QED
    BY <2>1, <2>2
<1> QED
  BY <1>4

(* Without the element at i, and with the others in their order. *)
LEMMA RemovedAt ==
  ASSUME NEW S, NEW seq \in Seq(S), NEW i \in 1..Len(seq)
  PROVE  /\ RemoveAt(seq, i) \in Seq(S) /\ Len(RemoveAt(seq, i)) = Len(seq) - 1
         /\ ToSet(RemoveAt(seq, i)) = {seq[j] : j \in (1..Len(seq)) \ {i}}
         /\ IsInjective(seq) => IsInjective(RemoveAt(seq, i))
<1> DEFINE before == SubSeq(seq, 1, i - 1)
           after  == SubSeq(seq, i + 1, Len(seq))
<1>1. Len(seq) \in Nat /\ i \in 1..(Len(seq) + 1) /\ i \in Int /\ DOMAIN seq = 1..Len(seq)
  OBVIOUS
<1>2. 1 \in 1..(Len(seq) + 1) /\ i - 1 \in (1 - 1)..Len(seq)
  BY <1>1
<1>3. i + 1 \in 1..(Len(seq) + 1) /\ Len(seq) \in ((i + 1) - 1)..Len(seq)
  BY <1>1
<1>4. /\ before \in Seq(S) /\ Len(before) = i - 1 - 1 + 1
      /\ ToSet(before) = {seq[j] : j \in 1..(i - 1)}
      /\ IsInjective(seq) => IsInjective(before)
  BY <1>2, Sliced
<1>5. /\ after \in Seq(S) /\ Len(after) = Len(seq) - (i + 1) + 1
      /\ ToSet(after) = {seq[j] : j \in (i + 1)..Len(seq)}
      /\ IsInjective(seq) => IsInjective(after)
  BY <1>3, Sliced
<1>6. RemoveAt(seq, i) = before \o after
  BY DEF RemoveAt
<1> HIDE DEF before, after
<1>7. /\ before \o after \in Seq(S) /\ ToSet(before \o after) = ToSet(before) \cup ToSet(after)
      /\ IsInjective(before) /\ IsInjective(after) /\ ToSet(before) \cap ToSet(after) = {} => IsInjective(before \o after)
  BY <1>4, <1>5, Joined
<1>8. Len(before \o after) = Len(seq) - 1
  <2>1. before \in Seq(S) /\ after \in Seq(S)
    BY <1>4, <1>5
  <2>2. Len(before \o after) = Len(before) + Len(after)
    BY <2>1
  <2>3. Len(before) = i - 1 /\ Len(after) = Len(seq) - i
    BY <1>1, <1>4, <1>5
  <2> QED
    BY <1>1, <2>2, <2>3
<1>9. ToSet(before) \cup ToSet(after) = {seq[j] : j \in (1..Len(seq)) \ {i}}
  <2>1. (1..Len(seq)) \ {i} = (1..(i - 1)) \cup ((i + 1)..Len(seq))
    BY <1>1
  <2> QED
    BY <1>4, <1>5, <2>1
<1>10. IsInjective(seq) => ToSet(before) \cap ToSet(after) = {}
  <2> SUFFICES ASSUME IsInjective(seq), NEW x \in ToSet(before), x \in ToSet(after)
               PROVE  FALSE
    OBVIOUS
  <2>1. PICK j \in 1..(i - 1) : x = seq[j]
    BY <1>4
  <2>2. PICK k \in (i + 1)..Len(seq) : x = seq[k]
    BY <1>5
  <2>3. j \in DOMAIN seq /\ k \in DOMAIN seq /\ j # k
    BY <1>1, <2>1, <2>2
  <2> QED
    BY <2>1, <2>2, <2>3 DEF IsInjective
<1> QED
  BY <1>4, <1>5, <1>6, <1>7, <1>8, <1>9, <1>10

(* Where Retain leaves what it keeps: in order, no further back than it    *)
(* was, and closer by one if anything ahead of it goes.                    *)
LEMMA RetainedPlaces ==
  ASSUME NEW S, NEW seq \in Seq(S), NEW keep
  PROVE  \E rank :
           /\ \A i \in 1..Len(seq) : rank[i] \in 0..i
           /\ \A i \in 1..Len(seq) : seq[i] \in keep =>
                /\ rank[i] \in 1..Len(Retain(seq, keep))
                /\ Retain(seq, keep)[rank[i]] = seq[i]
           /\ \A k, i \in 1..Len(seq) : k < i =>
                /\ seq[i] \in keep => rank[k] < rank[i]
                /\ seq[k] \notin keep => rank[i] <= i - 1
<1>1. PICK f : Retain(seq, keep) = f[Len(seq)] /\ RetainedUpTo(f, seq, keep)
  BY RetainDefined
<1>2. Len(seq) \in Nat /\ DOMAIN seq = 1..Len(seq) /\ \A i \in 1..Len(seq) : seq[i] \in S
  OBVIOUS
<1>3. f[0] = <<>> /\ \A i \in 1..Len(seq) : f[i] = IF seq[i] \in keep THEN Append(f[i - 1], seq[i]) ELSE f[i - 1]
  <2>1. \A i \in 0..Len(seq) : f[i] = IF i = 0 THEN <<>>
                                      ELSE IF seq[i] \in keep THEN Append(f[i - 1], seq[i]) ELSE f[i - 1]
    BY <1>1, Zenon DEF RetainedUpTo
  <2>2. 0 \in 0..Len(seq) /\ \A i \in 1..Len(seq) : i \in 0..Len(seq) /\ i # 0
    BY <1>2
  <2> QED
    BY <2>1, <2>2, Zenon
<1> DEFINE Sized(i)  == f[i] \in Seq(S) /\ Len(f[i]) \in 0..i
           There(i)  == \A k \in 1..i : seq[k] \in keep =>
                          Len(f[k]) \in 1..Len(f[i]) /\ f[i][Len(f[k])] = seq[k]
           Grows(i)  == \A k \in 0..i : Len(f[k]) <= Len(f[i])
           Closer(i) == \A k \in 1..i : seq[k] \notin keep => Len(f[i]) <= i - 1
           Ahead(i)  == \A k \in 0..(i - 1) : i > 0 /\ seq[i] \in keep => Len(f[k]) < Len(f[i])
           Good == {i \in 0..Len(seq) : Sized(i) /\ There(i) /\ Grows(i) /\ Closer(i) /\ Ahead(i)}
<1>4. 0 \in Good
  <2>1. f[0] \in Seq(S) /\ Len(f[0]) = 0
    BY <1>3
  <2>2. Sized(0) /\ Grows(0)
    BY <2>1
  <2>3. There(0) /\ Closer(0) /\ Ahead(0)
    OBVIOUS
  <2>4. 0 \in 0..Len(seq)
    BY <1>2
  <2> HIDE DEF Sized, Grows, There, Closer, Ahead
  <2> QED
    BY <2>2, <2>3, <2>4
<1>5. ASSUME NEW i \in 1..Len(seq), i - 1 \in Good
      PROVE  i \in Good
  <2>1. Sized(i - 1) /\ There(i - 1) /\ Grows(i - 1) /\ Closer(i - 1) /\ i \in Int /\ i \in 0..Len(seq)
    BY <1>2, <1>5
  <2>2. /\ 1..i = (1..(i - 1)) \cup {i} /\ 0..i = (0..(i - 1)) \cup {i} /\ i - 1 \in 0..(i - 1)
        /\ seq[i] \in S
    BY <1>2
  <2>3. CASE seq[i] \in keep
    <3>1. f[i] = Append(f[i - 1], seq[i])
      BY <1>3, <2>3
    <3>2. /\ f[i] \in Seq(S) /\ Len(f[i]) = Len(f[i - 1]) + 1 /\ f[i][Len(f[i - 1]) + 1] = seq[i]
          /\ \A j \in 1..Len(f[i - 1]) : f[i][j] = f[i - 1][j]
      BY <2>1, <2>2, <3>1
    <3>3. Sized(i)
      BY <2>1, <3>2
    <3>4. There(i)
      <4>1. ASSUME NEW k \in 1..(i - 1), seq[k] \in keep
            PROVE  Len(f[k]) \in 1..Len(f[i]) /\ f[i][Len(f[k])] = seq[k]
        <5>1. Len(f[k]) \in 1..Len(f[i - 1]) /\ f[i - 1][Len(f[k])] = seq[k]
          BY <2>1, <4>1
        <5> QED
          BY <2>1, <3>2, <5>1
      <4>2. Len(f[i]) \in 1..Len(f[i]) /\ f[i][Len(f[i])] = seq[i]
        BY <2>1, <3>2
      <4> QED
        BY <2>2, <4>1, <4>2
    <3>5. Grows(i)
      BY <2>1, <2>2, <3>2
    <3>6. Closer(i)
      BY <2>1, <2>2, <2>3, <3>2
    <3>7. Ahead(i)
      BY <2>1, <3>2
    <3> QED
      BY <2>1, <3>3, <3>4, <3>5, <3>6, <3>7
  <2>4. CASE seq[i] \notin keep
    <3>1. f[i] = f[i - 1]
      BY <1>3, <2>4
    <3>2. Sized(i)
      BY <2>1, <3>1
    <3>3. There(i)
      BY <2>1, <2>2, <2>4, <3>1
    <3>4. Grows(i)
      BY <2>1, <2>2, <3>1
    <3>5. Closer(i)
      BY <2>1, <2>2, <2>4, <3>1
    <3>6. Ahead(i)
      BY <2>4
    <3> QED
      BY <2>1, <3>2, <3>3, <3>4, <3>5, <3>6
  <2> QED
    BY <2>3, <2>4
<1>6. 0..Len(seq) \subseteq Good
  <2> HIDE DEF Good
  <2> QED
    BY <1>2, <1>4, <1>5, InductionUpTo
<1>7. PICK rank : rank = [i \in 1..Len(seq) |-> Len(f[i])]
  OBVIOUS
<1>8. PICK kept : kept = Retain(seq, keep)
  OBVIOUS
<1>9. ASSUME NEW i \in 1..Len(seq)
      PROVE  Sized(i) /\ Closer(i) /\ Ahead(i) /\ rank[i] = Len(f[i])
  <2>0. i \in 0..Len(seq)
    BY <1>2
  <2> HIDE DEF Sized, Grows, There, Closer, Ahead
  <2>1. i \in Good
    <3> HIDE DEF Good
    <3> QED
      BY <1>6, <2>0
  <2>2. rank[i] = Len(f[i])
    BY <1>7
  <2> QED
    BY <2>1, <2>2
<1>10. ASSUME NEW i \in 1..Len(seq), seq[i] \in keep
       PROVE  rank[i] \in 1..Len(kept) /\ kept[rank[i]] = seq[i]
  <2>1. There(Len(seq))
    BY <1>2, <1>6
  <2> QED
    BY <1>1, <1>8, <1>9, <1>10, <2>1
<1>11. ASSUME NEW k \in 1..Len(seq), NEW i \in 1..Len(seq), k < i
       PROVE  /\ seq[i] \in keep => rank[k] < rank[i]
              /\ seq[k] \notin keep => rank[i] <= i - 1
  <2>1. k \in 0..(i - 1) /\ k \in 1..i /\ i > 0
    BY <1>2, <1>11
  <2>2. seq[i] \in keep => Len(f[k]) < Len(f[i])
    BY <1>9, <2>1
  <2>3. seq[k] \notin keep => Len(f[i]) <= i - 1
    BY <1>9, <2>1
  <2> QED
    BY <1>9, <2>2, <2>3
<1>12. \A i \in 1..Len(seq) : rank[i] \in 0..i
  BY <1>9
<1> QED
  BY <1>8, <1>10, <1>11, <1>12

=============================================================================
