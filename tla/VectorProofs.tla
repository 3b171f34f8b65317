---------------------------- MODULE VectorProofs ----------------------------
(***************************************************************************)
(* Facts about Vector that the proofs about the registry of Timers and the *)
(* render layers rest on: what push_back() and std::erase_if leave in a    *)
(* vector of any length.                                                   *)
(***************************************************************************)
EXTENDS Vector, FiniteSetTheorems, SequenceTheorems, TLAPS

\* No entry is there twice.
NoTwice(r) == \A i, j \in 1 .. r.size : r.block[i] = r.block[j] => i = j

-----------------------------------------------------------------------------
(* Positions *)

\* Each number up to that of the positions is the rank of one: the ranks are
\* as many as the positions, so that none is left out.
LEMMA NthPosition ==
  ASSUME NEW m \in Nat, NEW P \in SUBSET (1 .. m)
  PROVE  /\ Cardinality(P) \in 0 .. m
         /\ \A n \in 1 .. Cardinality(P) :
              /\ Nth(P, n) \in P
              /\ Cardinality({j \in P : j <= Nth(P, n)}) = n
         /\ \A i \in P : \E n \in 1 .. Cardinality(P) : Nth(P, n) = i
<1> DEFINE Upto(i) == {j \in P : j <= i}
           Rank(i) == Cardinality(Upto(i))
           rank == [i \in P |-> Rank(i)]
           c == Cardinality(P)
<1>1. IsFiniteSet(P) /\ c \in 0 .. m
  <2>1. IsFiniteSet(1 .. m) /\ Cardinality(1 .. m) = m
    BY FS_Interval
  <2>2. IsFiniteSet(P) /\ c <= m
    BY <2>1, FS_Subset
  <2>3. c \in Nat
    BY <2>2, FS_CardinalityType
  <2> QED
    BY <2>2, <2>3
<1>2. ASSUME NEW i \in P PROVE IsFiniteSet(Upto(i)) /\ Rank(i) \in 1 .. c
  <2>1. IsFiniteSet(Upto(i)) /\ Rank(i) <= c
    BY <1>1, FS_Subset
  <2>2. Rank(i) \in Nat
    BY <2>1, FS_CardinalityType
  <2>3. Rank(i) # 0
    <3>1. i \in Upto(i)
      OBVIOUS
    <3> QED
      BY <3>1, <2>1, FS_EmptySet
  <2> QED
    BY <2>1, <2>2, <2>3, <1>1
<1>3. ASSUME NEW i \in P, NEW k \in P, Rank(i) = Rank(k) PROVE i = k
  <2>1. ASSUME NEW a \in P, NEW b \in P, a < b PROVE Rank(a) # Rank(b)
    <3>0. P \subseteq Nat /\ a \in Nat /\ b \in Nat
      OBVIOUS
    <3>1. Upto(a) \in SUBSET Upto(b) /\ b \in Upto(b) /\ b \notin Upto(a)
      <4>1. ASSUME NEW j \in P, j <= a PROVE j <= b
        BY <3>0, <2>1, <4>1
      <4>2. ~(b <= a) /\ b <= b
        BY <3>0, <2>1
      <4> QED
        BY <4>1, <4>2
    <3>2. Upto(a) # Upto(b) /\ IsFiniteSet(Upto(b))
      BY <3>1, <1>2
    <3> QED
      BY <3>1, <3>2, FS_Subset
  <2>2. i \in Nat /\ k \in Nat
    OBVIOUS
  <2> QED
    BY <2>1, <2>2, <1>3
<1>4. rank \in Surjection(P, 1 .. c)
  <2>1. rank \in Injection(P, 1 .. c)
    BY <1>2, <1>3 DEF Injection, IsInjective
  <2>2. IsFiniteSet(1 .. c) /\ Cardinality(1 .. c) = c
    BY <1>1, FS_Interval
  <2> QED
    BY <2>1, <2>2, FS_Injection
<1>5. ASSUME NEW n \in 1 .. c PROVE Nth(P, n) \in P /\ Rank(Nth(P, n)) = n
  <2>1. \E i \in P : Rank(i) = n
    BY <1>4 DEF Surjection
  <2> QED
    BY <2>1 DEF Nth
<1>6. ASSUME NEW i \in P PROVE \E n \in 1 .. c : Nth(P, n) = i
  BY <1>2, <1>3, <1>5
<1> QED
  BY <1>1, <1>5, <1>6

-----------------------------------------------------------------------------

\* The vector that was just made is one, and lists nothing.
LEMMA EmptyVector ==
  ASSUME NEW S
  PROVE  Empty \in Vectors(S) /\ Entries(Empty) = {} /\ NoTwice(Empty)
<1>1. <<>> \in Seq(S) /\ Len(<<>>) = 0
  BY EmptySeq
<1>2. Empty.block = <<>> /\ Empty.size = 0
  BY DEF Empty
<1>3. Empty \in Vectors(S)
  BY <1>1 DEF Empty, Vectors
<1> QED
  BY <1>2, <1>3 DEF Entries, NoTwice

-----------------------------------------------------------------------------
(* push_back() *)

\* A pushed vector holds what it held and the new entry, in the old block or
\* in a longer one.
LEMMA PushedSlots ==
  ASSUME NEW S, None \in S, NEW r \in Vectors(S), NEW e \in S
  PROVE  LET v == Push(r, e)
         IN /\ v \in Vectors(S)
            /\ v.size = r.size + 1
            /\ \A i \in 1 .. r.size : v.block[i] = r.block[i]
            /\ v.block[v.size] = e
            /\ Len(v.block) = Len(r.block) => ~Full(r)
<1> DEFINE v == Push(r, e)
           fresh == [i \in 1 .. r.size - 1 |-> None]
<1>1. /\ r.block \in Seq(S) /\ r.size \in Nat /\ r.size <= Len(r.block)
      /\ Len(r.block) \in Nat
  BY DEF Vectors
<1>2. CASE Full(r)
  <2>1. fresh \in Seq(S) /\ Len(fresh) \in Nat
    <3>1. CASE r.size = 0
      <4>1. fresh = <<>>
        BY <3>1
      <4> QED
        BY <4>1, EmptySeq
    <3>2. CASE r.size # 0
      <4>1. PICK n \in Nat : n = r.size - 1
        BY <3>2, <1>1
      <4>2. fresh = [i \in 1 .. n |-> None]
        BY <4>1
      <4>3. fresh \in [1 .. n -> S]
        BY <4>2
      <4> QED
        BY <4>1, <4>3, SeqDef, LenProperties
    <3> QED
      BY <3>1, <3>2
  <2>2. /\ Append(r.block, e) \in Seq(S)
        /\ Len(Append(r.block, e)) = Len(r.block) + 1
        /\ \A i \in 1 .. Len(r.block) : Append(r.block, e)[i] = r.block[i]
        /\ Append(r.block, e)[Len(r.block) + 1] = e
    BY <1>1, AppendProperties
  <2>3. v.block = Append(r.block, e) \o fresh /\ v.size = r.size + 1
    BY <1>2 DEF Push
  <2> DEFINE longer == Append(r.block, e)
  <2>4. /\ v.block \in Seq(S)
        /\ Len(v.block) = Len(longer) + Len(fresh)
        /\ \A i \in 1 .. Len(longer) : v.block[i] = longer[i]
    <3> HIDE DEF v, longer, fresh
    <3>1. longer \in Seq(S)
      BY <2>2 DEF longer
    <3>2. Len(longer) \in Nat
      BY <3>1, LenProperties
    <3>3. \A i \in 1 .. Len(longer) : i \in 1 .. Len(longer) + Len(fresh)
      BY <2>1, <3>2
    <3>4. /\ longer \o fresh \in Seq(S)
          /\ Len(longer \o fresh) = Len(longer) + Len(fresh)
          /\ \A i \in 1 .. Len(longer) + Len(fresh) :
               (longer \o fresh)[i] =
                 IF i <= Len(longer) THEN longer[i] ELSE fresh[i - Len(longer)]
      BY <2>1, <3>1, ConcatProperties
    <3> QED
      BY <2>3, <3>2, <3>3, <3>4 DEF longer
  <2>5. r.size = Len(r.block)
    BY <1>2 DEF Full
  <2> HIDE DEF v, fresh, longer
  <2>6. v \in [block : Seq(S), size : Nat]
    BY <1>1, <2>3, <2>4 DEF v, Push
  <2>7. Len(v.block) = r.size + 1 + Len(fresh)
    BY <2>2, <2>4, <2>5 DEF longer
  <2>8. /\ \A i \in 1 .. r.size : v.block[i] = r.block[i]
        /\ v.block[v.size] = e
    BY <1>1, <2>2, <2>3, <2>4, <2>5 DEF longer
  <2>9. v \in Vectors(S) /\ Len(v.block) # Len(r.block)
    BY <1>1, <2>1, <2>3, <2>5, <2>6, <2>7 DEF Vectors
  <2> QED
    BY <2>3, <2>8, <2>9 DEF v
<1>3. CASE ~Full(r)
  <2>1. r.size + 1 \in 1 .. Len(r.block)
    BY <1>1, <1>3 DEF Full
  <2>2. v.block = [r.block EXCEPT ![r.size + 1] = e] /\ v.size = r.size + 1
    BY <1>3 DEF Push
  <2>3. /\ v.block \in Seq(S) /\ Len(v.block) = Len(r.block)
        /\ \A i \in 1 .. Len(r.block) :
             v.block[i] = IF i = r.size + 1 THEN e ELSE r.block[i]
    BY <1>1, <2>1, <2>2, ExceptSeq
  <2>4. v \in Vectors(S)
    BY <1>1, <2>1, <2>2, <2>3 DEF Vectors, Push
  <2> QED
    BY <1>1, <1>3, <2>1, <2>2, <2>3, <2>4
<1> QED
  BY <1>2, <1>3

\* So it lists the new entry too, and once if it did not before.
LEMMA Pushed ==
  ASSUME NEW S, None \in S, NEW r \in Vectors(S), NEW e \in S
  PROVE  LET v == Push(r, e)
         IN /\ v \in Vectors(S)
            /\ v.size = r.size + 1
            /\ Entries(v) = Entries(r) \cup {e}
            /\ NoTwice(r) /\ e \notin Entries(r) => NoTwice(v)
            /\ Len(v.block) = Len(r.block) => ~Full(r)
<1> DEFINE v == Push(r, e)
<1>1. /\ v \in Vectors(S)
      /\ v.size = r.size + 1
      /\ \A i \in 1 .. r.size : v.block[i] = r.block[i]
      /\ v.block[v.size] = e
      /\ Len(v.block) = Len(r.block) => ~Full(r)
  BY PushedSlots
<1>2. r.size \in Nat
  BY DEF Vectors
<1> HIDE DEF v
<1>3. 1 .. v.size = (1 .. r.size) \cup {v.size} /\ v.size \notin 1 .. r.size
  BY <1>1, <1>2
<1>4. Entries(v) = Entries(r) \cup {e}
  BY <1>1, <1>3 DEF Entries
<1>5. ASSUME NoTwice(r), e \notin Entries(r)
      PROVE  NoTwice(v)
  BY <1>1, <1>3, <1>5 DEF NoTwice, Entries
<1> QED
  BY <1>1, <1>4, <1>5 DEF v

-----------------------------------------------------------------------------
(* std::erase_if *)

\* What a vector keeps when e is erased: every other entry, in the same block,
\* and nothing else.
LEMMA Erased ==
  ASSUME NEW S, NEW r \in Vectors(S), NEW e
  PROVE  LET v == Erase(r, e)
         IN /\ v \in Vectors(S)
            /\ v.size <= r.size
            /\ Len(v.block) = Len(r.block)
            /\ Entries(v) = Entries(r) \ {e}
            /\ NoTwice(r) => NoTwice(v)
<1> DEFINE v == Erase(r, e)
           kept == {i \in 1 .. r.size : r.block[i] # e}
<1>1. /\ r.block \in Seq(S) /\ r.size \in Nat /\ r.size <= Len(r.block)
      /\ Len(r.block) \in Nat /\ r.block \in [1 .. Len(r.block) -> S]
      /\ DOMAIN r.block = 1 .. Len(r.block)
  BY LenProperties DEF Vectors
<1>2. /\ v.size = Cardinality(kept)
      /\ v.block = [n \in DOMAIN r.block |->
                      IF n <= Cardinality(kept) THEN r.block[Nth(kept, n)] ELSE r.block[n]]
      /\ v \in [block : {v.block}, size : {v.size}]
  BY DEF Erase, Compact
<1>3. /\ v.size \in 0 .. r.size
      /\ \A n \in 1 .. v.size : /\ Nth(kept, n) \in kept
                                /\ Cardinality({j \in kept : j <= Nth(kept, n)}) = n
      /\ \A i \in kept : \E n \in 1 .. v.size : Nth(kept, n) = i
  <2>1. kept \in SUBSET (1 .. r.size)
    OBVIOUS
  <2> HIDE DEF kept
  <2>2. /\ Cardinality(kept) \in 0 .. r.size
        /\ \A n \in 1 .. Cardinality(kept) :
             /\ Nth(kept, n) \in kept
             /\ Cardinality({j \in kept : j <= Nth(kept, n)}) = n
        /\ \A i \in kept : \E n \in 1 .. Cardinality(kept) : Nth(kept, n) = i
    BY <1>1, <2>1, NthPosition
  <2> HIDE DEF v
  <2> QED
    BY <1>2, <2>2
<1> HIDE DEF v
<1>4. ASSUME NEW n \in 1 .. v.size
      PROVE  Nth(kept, n) \in kept /\ v.block[n] = r.block[Nth(kept, n)]
  <2>1. n \in DOMAIN r.block /\ n <= Cardinality(kept)
    BY <1>1, <1>2, <1>3
  <2> QED
    BY <2>1, <1>2, <1>3
<1>5. v.block \in [1 .. Len(r.block) -> S]
  <2>1. ASSUME NEW n \in 1 .. Len(r.block) PROVE v.block[n] \in S
    <3>1. CASE n \in 1 .. v.size
      <4>1. Nth(kept, n) \in 1 .. r.size
        BY <1>4, <3>1
      <4>2. Nth(kept, n) \in 1 .. Len(r.block)
        BY <1>1, <4>1
      <4> QED
        BY <1>1, <1>4, <3>1, <4>2
    <3>2. CASE n \notin 1 .. v.size
      <4>1. ~(n <= Cardinality(kept))
        BY <1>2, <1>3, <3>2
      <4> QED
        BY <1>1, <1>2, <4>1
    <3> QED
      BY <3>1, <3>2
  <2> QED
    BY <1>1, <1>2, <2>1
<1>6. v.block \in Seq(S) /\ Len(v.block) = Len(r.block)
  BY <1>1, <1>5, SeqDef, LenProperties
<1>7. v \in Vectors(S) /\ v.size <= r.size
  <2>1. v.size \in Nat /\ v.size <= r.size /\ v.size <= Len(v.block)
    BY <1>1, <1>3, <1>6
  <2>2. v \in [block : Seq(S), size : Nat]
    BY <1>2, <1>6, <2>1
  <2> QED
    BY <2>1, <2>2 DEF Vectors
<1>8. Entries(v) = Entries(r) \ {e}
  <2>1. ASSUME NEW n \in 1 .. v.size PROVE v.block[n] \in Entries(r) \ {e}
    <3>1. Nth(kept, n) \in 1 .. r.size /\ r.block[Nth(kept, n)] # e
      BY <1>4
    <3> QED
      BY <1>4, <3>1 DEF Entries
  <2>2. ASSUME NEW i \in 1 .. r.size, r.block[i] # e PROVE r.block[i] \in Entries(v)
    <3>1. PICK n \in 1 .. v.size : Nth(kept, n) = i
      BY <1>3, <2>2
    <3> QED
      BY <1>4, <3>1 DEF Entries
  <2>3. Entries(v) \subseteq Entries(r) \ {e}
    BY <2>1 DEF Entries
  <2>4. Entries(r) \ {e} \subseteq Entries(v)
    BY <2>2 DEF Entries
  <2> QED
    BY <2>3, <2>4
<1>9. ASSUME NoTwice(r), NEW m \in 1 .. v.size, NEW n \in 1 .. v.size,
             v.block[m] = v.block[n]
      PROVE  m = n
  <2>1. Nth(kept, m) = Nth(kept, n)
    BY <1>4, <1>9 DEF NoTwice
  <2> QED
    BY <1>3, <2>1
<1> QED
  BY <1>6, <1>7, <1>8, <1>9 DEF NoTwice, v
=============================================================================
