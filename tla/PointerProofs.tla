--------------------------- MODULE PointerProofs ---------------------------
(***************************************************************************)
(* Proofs about Pointer, for any addresses and any finite set of strong    *)
(* pointers.                                                               *)
(***************************************************************************)
EXTENDS Pointer, FiniteSetTheorems, TLAPS

\* A stale pointer still has its address.
StaleRefers == \A p \in stale : ref[p] # None

\* What a pointer that is not stale refers to is there, and if it is a strong one,
\* pointers have to delete it.
HeapOK ==
  /\ owned \subseteq allocated
  /\ \A p \in Pointers \ stale : ref[p] # None => ref[p] \in allocated
  /\ \A p \in Strong \ stale : ref[p] # None => ref[p] \in owned

\* As long as no stale address was copied: what the table counts is an object that
\* pointers have to delete, and what it lists is there, or the program has deleted
\* it itself.
KnownIsAlive ==
  ~misused =>
    \A a \in Addresses : /\ count[a] > 0 => a \in owned
                         /\ exists[a] => a \in allocated \cup unheard

\* As long as no address was bound anew either, a stale pointer refers to no
\* object that pointers have to delete, nor to what one that is not stale refers
\* to, and the table does not list it unless the program has deleted it itself.
StaleIsDead ==
  ~misused /\ ~reused =>
    \A p \in stale :
      /\ ref[p] \notin owned
      /\ \A q \in Pointers \ stale : ref[q] # ref[p]
      /\ exists[ref[p]] => ref[p] \in unheard

\* The count is only exact as long as the table, the owners and the stale
\* pointers agree, address by address.
IInv ==
  /\ StaleRefers
  /\ HeapOK
  /\ KnownIsAlive
  /\ NoDoubleDelete
  /\ StaleIsDead
  /\ CountsExact
  /\ NothingLeaks

-----------------------------------------------------------------------------
(* Counting *)

\* An address has finitely many holders, and none if they count 0.
LEMMA HoldersFinite ==
  ASSUME NEW a
  PROVE  /\ IsFiniteSet(Holders(a))
         /\ Cardinality(Holders(a)) \in Nat
         /\ Cardinality(Holders(a)) = 0 <=> Holders(a) = {}
<1>1. Holders(a) \subseteq Strong
  BY DEF Holders
<1>2. IsFiniteSet(Holders(a))
  BY <1>1, KindsAssumption, FS_Subset
<1> QED
  BY <1>2, FS_CardinalityType, FS_EmptySet

\* One holder more counts one more.
LEMMA OneMore ==
  ASSUME NEW a, NEW p, p \notin Holders(a), Holders(a)' = Holders(a) \cup {p}
  PROVE  Cardinality(Holders(a)') = Cardinality(Holders(a)) + 1
  BY HoldersFinite, FS_AddElement

\* One holder less counts one less.
LEMMA OneLess ==
  ASSUME NEW a, NEW p \in Holders(a), Holders(a)' = Holders(a) \ {p}
  PROVE  Cardinality(Holders(a)') = Cardinality(Holders(a)) - 1
  BY HoldersFinite, FS_RemoveElement

-----------------------------------------------------------------------------

\* In an empty table every variable has its type.
LEMMA InitTypes == Init => TypeOK
<1> SUFFICES ASSUME Init PROVE TypeOK
  OBVIOUS
<1>1. ref \in [Pointers -> Addresses \cup {None}] /\ exists \in [Addresses -> BOOLEAN]
  BY DEF Init
<1>2. count \in [Addresses -> Nat]
  BY DEF Init
<1> QED
  BY <1>1, <1>2 DEF Init, TypeOK

\* Every step keeps the types.
LEMMA NextTypes == TypeOK /\ [Next]_vars => TypeOK'
<1> SUFFICES ASSUME TypeOK, [Next]_vars
             PROVE  TypeOK'
  OBVIOUS
<1> USE DEF TypeOK, Pointers, Referring, Exists, heap, table
<1>1. ASSUME NEW p \in Pointers, LetGo(p)
      PROVE  /\ exists' \in [Addresses -> BOOLEAN]
             /\ count' \in [Addresses -> Nat]
             /\ allocated' \subseteq Addresses /\ owned' \subseteq Addresses
             /\ stale' \subseteq Pointers
             /\ corrupted' \in BOOLEAN
  <2>1. CASE ~Exists(p)
    BY <1>1, <2>1 DEF LetGo
  <2>2. CASE Exists(p) /\ IsLast(p)
    <3>1. ForgetEntry(ref[p]) /\ Delete(p, ref[p])
      BY <1>1, <2>2 DEF LetGo
    <3>2. corrupted' \in BOOLEAN
      BY <3>1, Zenon DEF Delete
    <3>3. allocated' \subseteq Addresses /\ owned' \subseteq Addresses /\ stale' \subseteq Pointers
      BY <3>1 DEF Delete
    <3> QED
      BY <3>1, <3>2, <3>3 DEF ForgetEntry
  <2>3. CASE Exists(p) /\ ~IsLast(p)
    BY <1>1, <2>3 DEF LetGo, IsLast
  <2> QED
    BY <2>1, <2>2, <2>3
<1>2. ASSUME NEW p \in Pointers, Unbind(p) PROVE TypeOK'
  <2>1. ref' \in [Pointers -> Addresses \cup {None}]
    BY <1>2 DEF Unbind
  <2> QED
    BY <1>1, <1>2, <2>1 DEF Unbind
<1>3. ASSUME NEW p \in Pointers, Drop(p) PROVE TypeOK'
  <2>1. ref' \in [Pointers -> Addresses \cup {None}]
    BY <1>3 DEF Drop
  <2>2. CASE Exists(p)
    BY <1>1, <1>3, <2>1, <2>2 DEF Drop
  <2>3. CASE ~Exists(p)
    BY <1>3, <2>1, <2>3 DEF Drop
  <2> QED
    BY <2>2, <2>3
<1>4. ASSUME NEW p \in Pointers, Destroy(p) \/ Release(p) PROVE TypeOK'
  <2>1. corrupted' \in BOOLEAN /\ misused' \in BOOLEAN /\ reused' \in BOOLEAN
    BY <1>4, Zenon DEF Destroy, Release, Delete
  <2>2. ForgetEntry(ref[p])
    BY <1>4 DEF Destroy, Release
  <2>3. exists' \in [Addresses -> BOOLEAN] /\ count' \in [Addresses -> Nat]
    BY <2>2 DEF ForgetEntry
  <2>4. ref' \in [Pointers -> Addresses \cup {None}]
    BY <1>4 DEF Destroy, Release
  <2> QED
    BY <1>4, <2>1, <2>3, <2>4 DEF Destroy, Release, Delete
<1>5. ASSUME NEW p \in Pointers, NEW q \in Pointers, Copy(p, q) PROVE TypeOK'
  BY <1>5 DEF Copy, BindFresh
<1>6. ASSUME NEW p \in Pointers, NEW a \in Addresses, BindRaw(p, a) PROVE TypeOK'
  <2>1. corrupted' \in BOOLEAN /\ misused' \in BOOLEAN /\ reused' \in BOOLEAN
    BY <1>6, Zenon DEF BindRaw
  <2>2. ref' \in [Pointers -> Addresses \cup {None}]
    BY <1>6 DEF BindRaw, BindFresh
  <2>3. exists' \in [Addresses -> BOOLEAN] /\ count' \in [Addresses -> Nat]
    <3>1. CASE BindFresh(p, a)
      BY <3>1 DEF BindFresh
    <3>2. CASE UNCHANGED table
      BY <3>2
    <3> QED
      BY <1>6, <3>1, <3>2 DEF BindRaw
  <2> QED
    BY <1>6, <2>1, <2>2, <2>3 DEF BindRaw
<1>7. ASSUME NEW a \in Addresses, DeleteReleased(a) PROVE TypeOK'
  BY <1>7 DEF DeleteReleased
<1>8. CASE UNCHANGED vars
  BY <1>8 DEF vars
<1> QED
  BY <1>2, <1>3, <1>4, <1>5, <1>6, <1>7, <1>8 DEF Next

-----------------------------------------------------------------------------
(* Steps *)

\* The object at a is gone, or nobody's, and p was the one that knew: unbind()
\* of the last strong pointer, destroy() and release().
LEMMA ForgetKeeps ==
  ASSUME TypeOK, IInv, NEW p \in Strong, Exists(p),
         ForgetEntry(ref[p]),
         owned' = owned \ {ref[p]},
         allocated' \in {allocated, allocated \ {ref[p]}},
         stale' = (stale \cup Referring(ref[p])) \ {p},
         ref' = [ref EXCEPT ![p] = None],
         \/ UNCHANGED corrupted
         \/ corrupted' = (corrupted \/ ref[p] \notin allocated),
         UNCHANGED <<misused, reused, unheard>>
  PROVE  IInv'
<1> DEFINE a == ref[p]
<1> USE NoneAssumption DEF TypeOK, Pointers, Exists, Referring
<1>1. a \in Addresses
  OBVIOUS
<1>2. StaleRefers'
  BY DEF StaleRefers, IInv
<1>3. HeapOK' /\ KnownIsAlive'
  BY DEF HeapOK, KnownIsAlive, IInv, ForgetEntry
<1>4. NoDoubleDelete'
  BY DEF NoDoubleDelete, HeapOK, KnownIsAlive, IInv
<1>5. StaleIsDead'
  BY DEF StaleIsDead, StaleRefers, IInv, ForgetEntry
<1>6. \A b \in Addresses : Holders(b)' = IF b = a THEN {} ELSE Holders(b)
  BY DEF Holders
<1>7. CountsExact'
  <2> SUFFICES ASSUME ~misused, ~reused, NEW b \in Addresses
               PROVE  count'[b] = Cardinality(Holders(b)')
    BY DEF CountsExact
  <2>1. CASE b = a
    BY <2>1, <1>6, FS_EmptySet DEF ForgetEntry
  <2>2. CASE b # a
    BY <2>2, <1>6 DEF ForgetEntry, CountsExact, IInv
  <2> QED
    BY <2>1, <2>2
<1>8. NothingLeaks'
  BY <1>6 DEF NothingLeaks, IInv
<1> QED
  BY <1>2, <1>3, <1>4, <1>5, <1>7, <1>8 DEF IInv

\* A pointer lets go of an object that others hold, or that it only watched.
LEMMA LeaveKeeps ==
  ASSUME TypeOK, IInv, NEW p \in Pointers, Exists(p), ~IsLast(p), LetGo(p),
         ref' = [ref EXCEPT ![p] = None],
         UNCHANGED <<misused, reused, unheard>>
  PROVE  IInv'
<1> DEFINE a == ref[p]
<1> USE NoneAssumption, KindsAssumption DEF TypeOK, Pointers, Exists
<1>1. /\ a \in Addresses
      /\ count' = IF p \in Strong THEN [count EXCEPT ![a] = @ - 1] ELSE count
      /\ stale' = stale \ {p}
      /\ UNCHANGED <<exists, allocated, owned, corrupted>>
  BY DEF LetGo, heap
<1>2. p \in Strong => count[a] > 1
  BY DEF IsLast
<1>3. StaleRefers'
  BY <1>1 DEF StaleRefers, IInv
<1>4. HeapOK' /\ KnownIsAlive'
  BY <1>1, <1>2 DEF HeapOK, KnownIsAlive, IInv
<1>5. NoDoubleDelete'
  BY <1>1 DEF NoDoubleDelete, IInv
<1>6. StaleIsDead'
  BY <1>1 DEF StaleIsDead, StaleRefers, IInv
<1>7. ASSUME ~misused, ~reused, NEW b \in Addresses
      PROVE  /\ count'[b] = Cardinality(Holders(b)')
             /\ b \in owned => Holders(b)' # {}
  <2>1. CASE p \in Strong /\ b = a
    <3>1. p \in Holders(b)
      BY <1>1, <1>2, <1>7, <2>1 DEF Holders, KnownIsAlive, StaleIsDead, IInv
    <3>2. Holders(b)' = Holders(b) \ {p}
      BY <1>1, <2>1 DEF Holders
    <3>3. Cardinality(Holders(b)') = Cardinality(Holders(b)) - 1
      BY <3>1, <3>2, OneLess
    <3>4. count[b] = Cardinality(Holders(b)) /\ count'[b] = count[b] - 1 /\ count[b] > 1
      BY <1>1, <1>2, <1>7, <2>1 DEF CountsExact, IInv
    <3>5. Cardinality(Holders(b)') # 0
      BY <3>3, <3>4
    <3> QED
      BY <3>3, <3>4, <3>5, FS_EmptySet
  <2>2. CASE p \notin Strong \/ b # a
    <3>1. Holders(b)' = Holders(b)
      BY <1>1, <2>2 DEF Holders
    <3> QED
      BY <1>1, <1>7, <2>2, <3>1 DEF CountsExact, NothingLeaks, IInv
  <2> QED
    BY <2>1, <2>2
<1> QED
  BY <1>1, <1>3, <1>4, <1>5, <1>6, <1>7 DEF IInv, CountsExact, NothingLeaks

\* A variable whose object is gone goes itself.
LEMMA DropStaleKeeps ==
  ASSUME TypeOK, IInv, NEW p \in Pointers, ref[p] # None, ~Exists(p), Drop(p)
  PROVE  IInv'
<1> USE NoneAssumption, KindsAssumption DEF TypeOK, Pointers, Exists
<1>1. /\ stale' = stale \ {p}
      /\ ref' = [ref EXCEPT ![p] = None]
      /\ UNCHANGED <<exists, count, allocated, owned, corrupted, misused, reused, unheard>>
  BY DEF Drop, table, heap
<1>2. StaleRefers' /\ HeapOK' /\ KnownIsAlive' /\ NoDoubleDelete' /\ StaleIsDead'
  BY <1>1 DEF StaleRefers, HeapOK, KnownIsAlive, NoDoubleDelete, StaleIsDead, IInv
<1>3. ASSUME ~misused, ~reused, NEW b \in Addresses
      PROVE  Holders(b)' = Holders(b)
  <2>1. ASSUME p \in Holders(b) PROVE FALSE
    <3>1. count[b] = 0
      BY <2>1 DEF Holders
    <3>2. Holders(b) = {}
      BY <3>1, <1>3, HoldersFinite DEF CountsExact, IInv
    <3> QED
      BY <2>1, <3>2
  <2> QED
    BY <1>1, <2>1 DEF Holders
<1> QED
  BY <1>1, <1>2, <1>3 DEF IInv, CountsExact, NothingLeaks

\* An object gets one pointer more.
LEMMA CopyKeeps ==
  ASSUME TypeOK, IInv, NEW p \in Pointers, NEW q \in Pointers, Copy(p, q)
  PROVE  IInv'
<1> DEFINE a == ref[q]
<1> USE NoneAssumption, KindsAssumption DEF TypeOK, Pointers
<1>1. /\ a \in Addresses /\ ref[p] = None /\ p # q
      /\ ref' = [ref EXCEPT ![p] = a]
      /\ exists' = [exists EXCEPT ![a] = TRUE]
      /\ count' = IF p \in Strong THEN [count EXCEPT ![a] = @ + 1] ELSE count
      /\ misused' = (misused \/ q \in stale)
      /\ stale' = IF q \in stale THEN stale \cup {p} ELSE stale
      /\ owned' = IF p \in Strong /\ q \notin stale THEN owned \cup {a} ELSE owned
      /\ UNCHANGED <<allocated, reused, unheard, corrupted>>
  BY DEF Copy, BindFresh
<1>2. StaleRefers' /\ NoDoubleDelete'
  BY <1>1 DEF StaleRefers, NoDoubleDelete, IInv
<1>3. HeapOK' /\ KnownIsAlive'
  BY <1>1 DEF HeapOK, KnownIsAlive, IInv
<1>4. StaleIsDead'
  BY <1>1 DEF StaleIsDead, StaleRefers, HeapOK, IInv
<1>5. ASSUME ~misused, ~reused, q \notin stale, NEW b \in Addresses
      PROVE  /\ count'[b] = Cardinality(Holders(b)')
             /\ b \in owned' => Holders(b)' # {}
  <2>1. count[b] = Cardinality(Holders(b)) /\ (b \in owned => Holders(b) # {})
    BY <1>5 DEF CountsExact, NothingLeaks, IInv
  <2>2. CASE p \in Strong /\ b = a
    <3>1. p \notin Holders(a) /\ Holders(a)' = Holders(a) \cup {p}
      BY <1>1, <1>5, <2>2 DEF Holders, StaleRefers, IInv
    <3> QED
      BY <1>1, <2>1, <2>2, <3>1, OneMore
  <2>3. CASE p \notin Strong \/ b # a
    <3>1. Holders(b)' = Holders(b)
      BY <1>1, <1>5, <2>3 DEF Holders
    <3> QED
      BY <1>1, <2>1, <2>3, <3>1
  <2> QED
    BY <2>2, <2>3
<1> QED
  BY <1>1, <1>2, <1>3, <1>4, <1>5 DEF IInv, CountsExact, NothingLeaks

\* An object of the program's, or a new one, gets a pointer.
LEMMA BindRawKeeps ==
  ASSUME TypeOK, IInv, NEW p \in Pointers, NEW a \in Addresses, BindRaw(p, a)
  PROVE  IInv'
<1> USE NoneAssumption, KindsAssumption DEF TypeOK, Pointers
<1>1. /\ a \notin owned
      /\ allocated' = allocated \cup {a}
      /\ owned' = IF p \in Strong THEN owned \cup {a} ELSE owned
      /\ reused' = (reused \/ Referring(a) \cap stale # {})
      /\ unheard' = unheard \ {a}
      /\ UNCHANGED <<stale, misused, corrupted>>
  BY DEF BindRaw
<1>2. \/ /\ ref[p] = None
         /\ ref' = [ref EXCEPT ![p] = a]
         /\ exists' = [exists EXCEPT ![a] = TRUE]
         /\ count' = IF p \in Strong THEN [count EXCEPT ![a] = @ + 1] ELSE count
      \/ ref[p] = a /\ UNCHANGED <<ref, exists, count>>
  BY DEF BindRaw, BindFresh, table
<1>3. StaleRefers' /\ NoDoubleDelete'
  BY <1>1, <1>2 DEF StaleRefers, NoDoubleDelete, IInv
<1>4. HeapOK'
  BY <1>1, <1>2 DEF HeapOK, IInv
<1>5. KnownIsAlive'
  BY <1>1, <1>2 DEF KnownIsAlive, IInv
<1>6. ASSUME ~misused, ~reused, Referring(a) \cap stale = {}
      PROVE  StaleIsDead' /\ CountsExact' /\ NothingLeaks'
  <2>1. Holders(a) = {}
    BY <1>1 DEF Holders, HeapOK, IInv
  <2>2. StaleIsDead'
    BY <1>1, <1>2, <1>6 DEF StaleIsDead, StaleRefers, Referring, IInv
  <2>3. CASE p \in Strong
    <3>1. /\ ref[p] = None /\ p \notin stale
          /\ ref' = [ref EXCEPT ![p] = a]
          /\ count' = [count EXCEPT ![a] = @ + 1]
      BY <1>1, <1>2, <1>6, <2>1, <2>3 DEF Referring, Holders, StaleRefers, IInv
    <3>2. \A b \in Addresses : Holders(b)' = IF b = a THEN {p} ELSE Holders(b)
      BY <1>1, <2>1, <2>3, <3>1 DEF Holders
    <3>3. p \notin Holders(a) /\ Holders(a)' = Holders(a) \cup {p}
      BY <2>1, <3>2
    <3>4. \A b \in Addresses : count[b] = Cardinality(Holders(b))
      BY <1>6 DEF CountsExact, IInv
    <3>5. Cardinality(Holders(a)') = Cardinality(Holders(a)) + 1
      BY <3>3, OneMore
    <3>6. CountsExact'
      BY <3>1, <3>2, <3>4, <3>5 DEF CountsExact
    <3>7. NothingLeaks'
      BY <1>1, <1>6, <3>2 DEF NothingLeaks, IInv
    <3> QED
      BY <2>2, <3>6, <3>7
  <2>4. CASE p \notin Strong
    <3>1. \A b \in Addresses : Holders(b)' = Holders(b)
      BY <1>1, <1>2, <2>4 DEF Holders
    <3>2. UNCHANGED <<count, owned>>
      BY <1>1, <1>2, <2>4
    <3> QED
      BY <1>6, <2>2, <3>1, <3>2 DEF CountsExact, NothingLeaks, IInv
  <2> QED
    BY <2>3, <2>4
<1> QED
  BY <1>1, <1>3, <1>4, <1>5, <1>6 DEF IInv, StaleIsDead, CountsExact, NothingLeaks

\* The program deletes what is its own: no strong pointer knew it.
LEMMA DeleteReleasedKeeps ==
  ASSUME TypeOK, IInv, NEW a \in Addresses, DeleteReleased(a)
  PROVE  IInv'
<1> USE NoneAssumption, KindsAssumption DEF TypeOK, Pointers
<1>1. /\ a \notin owned
      /\ allocated' = allocated \ {a}
      /\ stale' = stale \cup Referring(a)
      /\ unheard' = IF exists[a] THEN unheard \cup {a} ELSE unheard
      /\ UNCHANGED <<ref, exists, count, owned, misused, reused, corrupted>>
  BY DEF DeleteReleased, table
<1>2. StaleRefers' /\ NoDoubleDelete'
  BY <1>1 DEF StaleRefers, NoDoubleDelete, Referring, IInv
<1>3. HeapOK' /\ KnownIsAlive'
  BY <1>1 DEF HeapOK, KnownIsAlive, Referring, IInv
<1>4. StaleIsDead'
  BY <1>1 DEF StaleIsDead, Referring, IInv
<1>5. \A b \in Addresses : Holders(b)' = Holders(b)
  BY <1>1 DEF Holders, HeapOK, Referring, IInv
<1> QED
  BY <1>1, <1>2, <1>3, <1>4, <1>5 DEF IInv, CountsExact, NothingLeaks

-----------------------------------------------------------------------------

\* In an empty table nothing is counted and nothing is stale.
LEMMA InitInvariant == Init => IInv
<1> SUFFICES ASSUME Init PROVE IInv
  OBVIOUS
<1>1. \A a \in Addresses : Holders(a) = {}
  BY NoneAssumption, KindsAssumption DEF Init, Holders, Pointers
<1> QED
  BY <1>1, FS_EmptySet
     DEF Init, IInv, StaleRefers, HeapOK, KnownIsAlive, NoDoubleDelete, StaleIsDead, CountsExact,
         NothingLeaks, Pointers

\* Every step of a pointer, and of the program's delete, keeps the invariant.
LEMMA NextInvariant == TypeOK /\ IInv /\ [Next]_vars => IInv'
<1> SUFFICES ASSUME TypeOK, IInv, [Next]_vars
             PROVE  IInv'
  OBVIOUS
<1> USE DEF StaleRefers, HeapOK, KnownIsAlive, NoDoubleDelete, StaleIsDead, CountsExact,
            NothingLeaks, Holders
<1>1. ASSUME NEW p \in Pointers, Exists(p), LetGo(p), ref' = [ref EXCEPT ![p] = None],
             UNCHANGED <<misused, reused, unheard>>
      PROVE  IInv'
  <2>1. CASE IsLast(p)
    BY <1>1, <2>1, ForgetKeeps DEF LetGo, IsLast, Delete
  <2>2. CASE ~IsLast(p)
    BY <1>1, <2>2, LeaveKeeps
  <2> QED
    BY <2>1, <2>2
<1>2. ASSUME NEW p \in Pointers, Unbind(p) PROVE IInv'
  <2>1. CASE Exists(p)
    BY <1>1, <1>2, <2>1 DEF Unbind
  <2>2. CASE ~Exists(p)
    <3>1. UNCHANGED vars
      BY <1>2, <2>2 DEF Unbind, LetGo, vars, heap, TypeOK
    <3> QED
      BY <3>1 DEF vars, IInv
  <2> QED
    BY <2>1, <2>2
<1>3. ASSUME NEW p \in Pointers, Drop(p) PROVE IInv'
  <2>1. CASE Exists(p)
    BY <1>1, <1>3, <2>1 DEF Drop
  <2>2. CASE ~Exists(p)
    BY <1>3, <2>2, DropStaleKeeps DEF Drop
  <2> QED
    BY <2>1, <2>2
<1>4. ASSUME NEW p \in Pointers, Destroy(p) \/ Release(p) PROVE IInv'
  BY <1>4, ForgetKeeps DEF Destroy, Release, Delete
<1>5. ASSUME NEW p \in Pointers, NEW q \in Pointers, Copy(p, q) PROVE IInv'
  BY <1>5, CopyKeeps
<1>6. ASSUME NEW p \in Pointers, NEW a \in Addresses, BindRaw(p, a) PROVE IInv'
  BY <1>6, BindRawKeeps
<1>7. ASSUME NEW a \in Addresses, DeleteReleased(a) PROVE IInv'
  BY <1>7, DeleteReleasedKeeps
<1>8. CASE UNCHANGED vars
  BY <1>8 DEF vars, IInv
<1> QED
  BY <1>2, <1>3, <1>4, <1>5, <1>6, <1>7, <1>8 DEF Next

-----------------------------------------------------------------------------

\* Every variable keeps its type, so that no count ever goes below 0.
THEOREM TypeCorrect == Spec => []TypeOK
  BY InitTypes, NextTypes, PTL DEF Spec

\* The inductive invariant of the table holds of every reachable state.
THEOREM Invariance == Spec => []IInv
  BY InitInvariant, NextInvariant, TypeCorrect, PTL DEF Spec

\* The table counts the strong pointers to each object.
THEOREM TableCounts == Spec => []CountsExact
<1>1. IInv => CountsExact
  BY DEF IInv
<1> QED
  BY <1>1, Invariance, PTL

\* No object that pointers have to delete is left behind.
THEOREM NothingEverLeaks == Spec => []NothingLeaks
<1>1. IInv => NothingLeaks
  BY DEF IInv
<1> QED
  BY <1>1, Invariance, PTL

\* exists() of a pointer tells the truth, unless it is a weak one to what the
\* program has deleted itself.
THEOREM ExistingIsAlive == Spec => []ExistsIsAlive
<1>1. TypeOK /\ IInv => ExistsIsAlive
  BY KindsAssumption
     DEF TypeOK, IInv, HeapOK, KnownIsAlive, StaleIsDead, ExistsIsAlive, Exists, Pointers
<1> QED
  BY <1>1, TypeCorrect, Invariance, PTL

\* Only copying a stale pointer can make pointers delete an object twice.
THEOREM NeverDeletedTwice == Spec => []NoDoubleDelete
<1>1. IInv => NoDoubleDelete
  BY DEF IInv
<1> QED
  BY <1>1, Invariance, PTL
=============================================================================
