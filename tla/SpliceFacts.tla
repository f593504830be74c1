----------------------------- MODULE SpliceFacts -----------------------------
(***************************************************************************)
(* What splicing an element into or out of a sequence does to it, and      *)
(* what sifting one out of it leaves.                                      *)
(***************************************************************************)
EXTENDS Integers, SequencesExt, Sift, SequenceTheorems, FiniteSetTheorems,
        WellFoundedInduction, TLAPS

\* InsertAt keeps what is before the slot and moves the rest up by one.
LEMMA InsertAtProperties ==
    ASSUME NEW S, NEW s \in Seq(S), NEW at \in 1 .. Len(s) + 1, NEW e \in S
    PROVE  /\ InsertAt(s, at, e) \in Seq(S)
           /\ Len(InsertAt(s, at, e)) = Len(s) + 1
           /\ \A i \in 1 .. Len(s) + 1 :
                InsertAt(s, at, e)[i] = IF i < at THEN s[i]
                                        ELSE IF i = at THEN e ELSE s[i - 1]
<1> DEFINE front == SubSeq(s, 1, at - 1)
           back == SubSeq(s, at, Len(s))
           mid == front \o <<e>>
<1>1. /\ front \in Seq(S) /\ Len(front) = at - 1
      /\ \A i \in 1 .. at - 1 : front[i] = s[i]
  OBVIOUS
<1>2. /\ back \in Seq(S) /\ Len(back) = Len(s) + 1 - at
      /\ \A i \in 1 .. Len(s) + 1 - at : back[i] = s[at + i - 1]
  OBVIOUS
<1>3. /\ <<e>> \in Seq(S) /\ Len(<<e>>) = 1 /\ <<e>>[1] = e
  OBVIOUS
<1>4. InsertAt(s, at, e) = mid \o back
  BY DEF InsertAt
<1> HIDE DEF front, back
<1>5. /\ mid \in Seq(S)
      /\ Len(mid) = Len(front) + 1
      /\ \A i \in 1 .. Len(front) + 1 :
           mid[i] = IF i <= Len(front) THEN front[i] ELSE <<e>>[i - Len(front)]
  BY <1>1, <1>3, ConcatProperties
<1>6. /\ Len(mid) = at
      /\ \A i \in 1 .. at : mid[i] = IF i < at THEN s[i] ELSE e
  BY <1>1, <1>3, <1>5
<1> HIDE DEF mid
<1>7. /\ mid \o back \in Seq(S)
      /\ Len(mid \o back) = Len(mid) + Len(back)
      /\ \A i \in 1 .. Len(mid) + Len(back) :
           (mid \o back)[i] = IF i <= Len(mid) THEN mid[i] ELSE back[i - Len(mid)]
  BY <1>2, <1>5, ConcatProperties
<1>8. ASSUME NEW i \in 1 .. Len(s) + 1
      PROVE  (mid \o back)[i] = IF i < at THEN s[i] ELSE IF i = at THEN e ELSE s[i - 1]
  BY <1>2, <1>6, <1>7
<1>9. Len(mid \o back) = Len(s) + 1
  BY <1>2, <1>6, <1>7
<1> QED  BY <1>4, <1>7, <1>8, <1>9

\* RemoveAt keeps what is before the slot and moves the rest down by one.
LEMMA RemoveAtProperties ==
    ASSUME NEW S, NEW s \in Seq(S), NEW at \in 1 .. Len(s)
    PROVE  /\ RemoveAt(s, at) \in Seq(S)
           /\ Len(RemoveAt(s, at)) = Len(s) - 1
           /\ \A i \in 1 .. Len(s) - 1 :
                RemoveAt(s, at)[i] = IF i < at THEN s[i] ELSE s[i + 1]
<1> DEFINE front == SubSeq(s, 1, at - 1)
           back == SubSeq(s, at + 1, Len(s))
<1>1. /\ front \in Seq(S) /\ Len(front) = at - 1
      /\ \A i \in 1 .. at - 1 : front[i] = s[i]
  OBVIOUS
<1>2. /\ back \in Seq(S) /\ Len(back) = Len(s) - at
      /\ \A i \in 1 .. Len(s) - at : back[i] = s[at + i]
  OBVIOUS
<1>3. RemoveAt(s, at) = front \o back
  BY DEF RemoveAt
<1> HIDE DEF front, back
<1>4. /\ front \o back \in Seq(S)
      /\ Len(front \o back) = Len(front) + Len(back)
      /\ \A i \in 1 .. Len(front) + Len(back) :
           (front \o back)[i] = IF i <= Len(front) THEN front[i] ELSE back[i - Len(front)]
  BY <1>1, <1>2, ConcatProperties
<1> QED  BY <1>1, <1>2, <1>3, <1>4


\* Appending is inserting behind the last element.
LEMMA AppendIsInsertAt ==
    ASSUME NEW S, NEW s \in Seq(S), NEW e \in S
    PROVE  Append(s, e) = InsertAt(s, Len(s) + 1, e)
<1>1. Append(s, e) \in Seq(S) /\ Len(Append(s, e)) = Len(s) + 1
  OBVIOUS
<1>2. \A i \in 1 .. Len(s) + 1 : Append(s, e)[i] = IF i < Len(s) + 1 THEN s[i] ELSE e
  OBVIOUS
<1>3. Len(s) + 1 \in 1 .. Len(s) + 1
  OBVIOUS
<1>4. ASSUME NEW at \in 1 .. Len(s) + 1, at = Len(s) + 1
      PROVE  Append(s, e) = InsertAt(s, at, e)
  <2>1. /\ InsertAt(s, at, e) \in Seq(S)
        /\ Len(InsertAt(s, at, e)) = Len(s) + 1
        /\ \A i \in 1 .. Len(s) + 1 :
             InsertAt(s, at, e)[i] = IF i < at THEN s[i]
                                     ELSE IF i = at THEN e ELSE s[i - 1]
    BY InsertAtProperties
  <2>2. \A i \in 1 .. Len(s) + 1 : Append(s, e)[i] = InsertAt(s, at, e)[i]
    BY <1>2, <1>4, <2>1
  <2> QED  BY <1>1, <2>1, <2>2, SeqEqual
<1> QED  BY <1>3, <1>4

-----------------------------------------------------------------------------
(* Sifting *)

\* Counting from the first position on, every number up to the last is met.
LEMMA NthProperties ==
    ASSUME NEW n \in Nat, NEW K \in SUBSET (1 .. n), NEW j \in 1 .. Cardinality(K)
    PROVE  Nth(K, j) \in K
<1> DEFINE Upto(k) == {l \in K : l <= k}
           c(k) == Cardinality(Upto(k))
           D == {k \in 0 .. n : j <= c(k)}
<1>0. \A l \in K : l \in Int /\ 1 <= l /\ l <= n
  OBVIOUS
<1>1. \A k \in 0 .. n : IsFiniteSet(Upto(k)) /\ c(k) \in Nat
  <2>1. IsFiniteSet(1 .. n)
    BY FS_Interval
  <2> QED  BY <2>1, FS_Subset, FS_CardinalityType
<1>a. Upto(n) = K /\ Upto(0) = {}
  <2>1. \A l \in K : l <= n /\ ~(l <= 0)
    BY <1>0
  <2> HIDE DEF c, D
  <2>2. Upto(n) = K
    BY <2>1, Zenon
  <2>3. Upto(0) = {}
    BY <2>1, Zenon
  <2> QED  BY <2>2, <2>3
<1>b. ASSUME NEW k \in 1 .. n
      PROVE  Upto(k) = IF k \in K THEN Upto(k - 1) \cup {k} ELSE Upto(k - 1)
  <2>1. \A l \in K : l <= k <=> l <= k - 1 \/ l = k
    BY <1>0
  <2> QED  BY <2>1
<1>c. \A k \in 1 .. n : k \notin Upto(k - 1)
  BY <1>0
<1> HIDE DEF Upto
<1>2. n \in D
  BY <1>1, <1>a
<1>3. PICK k \in D : \A l \in D : k <= l
  <2>1. D \in SUBSET Nat /\ n \in D /\ \A l \in D : l \in Int
    BY <1>2
  <2> HIDE DEF D
  <2>2. PICK k \in D : \A l \in D : ~(<<l, k>> \in OpToRel(<, Nat))
    BY <2>1, NatLessThanWellFounded, WFMin
  <2>3. ASSUME NEW l \in D PROVE k <= l
    <3>1. SUFFICES ASSUME l < k PROVE FALSE
      BY <2>1
    <3>2. <<l, k>> \in OpToRel(<, Nat)
      BY <2>1, <3>1 DEF OpToRel
    <3> QED  BY <2>2, <3>2
  <2> QED  BY <2>3
<1>4. k # 0
  <2>1. c(0) = 0
    BY <1>a, FS_EmptySet
  <2> QED  BY <1>3, <2>1
<1>5. k \in 1 .. n /\ k - 1 \in 0 .. n /\ c(k - 1) < j
  <2>1. k \in 1 .. n /\ k - 1 \in 0 .. n /\ ~(k <= k - 1)
    BY <1>3, <1>4
  <2>2. k - 1 \notin D
    BY <1>3, <2>1
  <2>3. c(k - 1) \in Nat
    BY <1>1, <2>1
  <2>4. j \in Int
    OBVIOUS
  <2> QED  BY <2>1, <2>2, <2>3, <2>4
<1>6. c(k) \in Nat /\ c(k - 1) \in Nat /\ j <= c(k) /\ j \in Int
  BY <1>1, <1>3, <1>5
<1>7. k \in K
  BY <1>5, <1>6, <1>b
<1>8. c(k) = c(k - 1) + 1
  BY <1>1, <1>5, <1>7, <1>b, <1>c, FS_AddElement
<1>9. c(k) = j
  BY <1>5, <1>6, <1>8
<1>10. Cardinality({l \in K : l <= k}) = j
  BY <1>9 DEF Upto
<1> HIDE DEF D
<1> QED  BY <1>7, <1>10 DEF Nth

\* What is left is a sequence of what was there, and no longer.
LEMMA SiftedProperties ==
    ASSUME NEW S, NEW s \in Seq(S), NEW e
    PROVE  /\ Sifted(s, e) \in Seq(S \ {e})
           /\ Len(Sifted(s, e)) <= Len(s)
<1> DEFINE kept == {k \in DOMAIN s : s[k] # e}
<1>1. Len(s) \in Nat /\ DOMAIN s = 1 .. Len(s) /\ kept \in SUBSET (1 .. Len(s))
  OBVIOUS
<1>2. Cardinality(kept) \in Nat /\ Cardinality(kept) <= Len(s)
  <2>1. IsFiniteSet(1 .. Len(s)) /\ Cardinality(1 .. Len(s)) = Len(s)
    <3>1. 1 \in Int /\ Len(s) \in Int /\ (1 > Len(s) => Len(s) = 0)
      BY <1>1
    <3> HIDE DEF kept
    <3> QED  BY <3>1, FS_Interval
  <2> QED  BY <1>1, <2>1, FS_Subset, FS_CardinalityType
<1>3. \A j \in 1 .. Cardinality(kept) : Nth(kept, j) \in kept
  BY <1>1, NthProperties
<1>4. Sifted(s, e) = [j \in 1 .. Cardinality(kept) |-> s[Nth(kept, j)]]
  BY DEF Sifted
<1>5. \A k \in kept : s[k] \in S \ {e}
  BY <1>1, ElementOfSeq
<1> HIDE DEF kept
<1>6. Sifted(s, e) \in [1 .. Cardinality(kept) -> S \ {e}]
  BY <1>3, <1>4, <1>5
<1> QED  BY <1>2, <1>6

\* The same positions are left of s without e as of t without f.
LeftAlike(s, e, t, f) ==
    \E n \in Nat : \E p \in [1 .. n -> 1 .. Len(s)] :
      /\ Len(Sifted(s, e)) = n /\ Len(Sifted(t, f)) = n
      /\ \A j \in 1 .. n :
           s[p[j]] # e /\ Sifted(s, e)[j] = s[p[j]] /\ Sifted(t, f)[j] = t[p[j]]

\* So it is when the excluded entries are at the same positions.
LEMMA SiftedTogether ==
    ASSUME NEW S, NEW T, NEW s \in Seq(S), NEW t \in Seq(T), Len(s) = Len(t), NEW e, NEW f,
           \A k \in 1 .. Len(s) : s[k] = e <=> t[k] = f
    PROVE  LeftAlike(s, e, t, f)
<1> DEFINE kept == {k \in DOMAIN s : s[k] # e}
<1>1. /\ Len(s) \in Nat /\ DOMAIN s = 1 .. Len(s) /\ kept \in SUBSET (1 .. Len(s))
      /\ kept = {k \in DOMAIN t : t[k] # f}
  OBVIOUS
<1>2. Cardinality(kept) \in Nat
  <2>1. IsFiniteSet(1 .. Len(s))
    BY <1>1, FS_Interval
  <2> QED  BY <1>1, <2>1, FS_Subset, FS_CardinalityType
<1>3. \A j \in 1 .. Cardinality(kept) : Nth(kept, j) \in kept
  BY <1>1, NthProperties
<1>4. /\ Sifted(s, e) = [j \in 1 .. Cardinality(kept) |-> s[Nth(kept, j)]]
      /\ Sifted(t, f) = [j \in 1 .. Cardinality(kept) |-> t[Nth(kept, j)]]
  BY <1>1 DEF Sifted
<1>5. \A k \in kept : k \in 1 .. Len(s) /\ s[k] # e
  BY <1>1
<1> HIDE DEF kept
<1>6. Len(Sifted(s, e)) = Cardinality(kept) /\ Len(Sifted(t, f)) = Cardinality(kept)
  BY <1>2, <1>4
<1>7. [j \in 1 .. Cardinality(kept) |-> Nth(kept, j)] \in [1 .. Cardinality(kept) -> 1 .. Len(s)]
  BY <1>3, <1>5
<1> USE DEF LeftAlike
<1>8. WITNESS Cardinality(kept) \in Nat
<1>9. WITNESS [j \in 1 .. Cardinality(kept) |-> Nth(kept, j)]
              \in [1 .. Cardinality(kept) -> 1 .. Len(s)]
<1> QED  BY <1>3, <1>4, <1>5, <1>6

=============================================================================
