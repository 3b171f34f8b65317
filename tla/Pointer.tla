------------------------------ MODULE Pointer ------------------------------
(***************************************************************************)
(* SmartPointer::Pointer of ctl/legacy/referential.hpp: Instance (strong)  *)
(* and Handle (weak) pointers over one process-wide table that maps an     *)
(* address to {exists, count}.                                             *)
(*                                                                         *)
(* The table knows addresses, not objects.  A pointer whose object was     *)
(* deleted by somebody else keeps its address, and the allocator hands the *)
(* address out again.  stale is the history of who holds such an address;  *)
(* misused, reused and unheard record the three ways it can matter, and    *)
(* the properties say what holds as long as they did not happen.           *)
(*                                                                         *)
(* An object belongs to the pointers or to the program, which has it from  *)
(* new or from release(), and may hand it to a pointer by its raw address: *)
(* a strong one then has to delete it, a weak one only watches it.         *)
(***************************************************************************)
EXTENDS Integers, FiniteSets

CONSTANTS
  Strong,      \* Pointer<T, false> variables
  Weak,        \* Pointer<T, true> variables
  Addresses,   \* where objects can be allocated
  None         \* nullptr

ASSUME NoneAssumption == None \notin Addresses
ASSUME KindsAssumption == Strong \cap Weak = {} /\ IsFiniteSet(Strong)

VARIABLES
  ref,         \* Pointer::ref
  exists,      \* ReferenceData::exists of the table
  count,       \* ReferenceData::count of the table
  allocated,   \* addresses that hold an object
  owned,       \* history: the objects that pointers have to delete
  stale,       \* history: pointers whose object was deleted or let go by another
  misused,     \* history: an address was copied out of a stale pointer
  reused,      \* history: an address was bound anew while a pointer to it was stale
  unheard,     \* history: objects that the program has deleted itself while the
               \* table had them
  corrupted    \* history: delete was called on an address that holds nothing

vars ==
  <<ref, exists, count, allocated, owned, stale, misused, reused, unheard, corrupted>>

table == <<exists, count>>
heap  == <<allocated, owned>>

Pointers == Strong \cup Weak

TypeOK ==
  /\ ref \in [Pointers -> Addresses \cup {None}]
  /\ exists \in [Addresses -> BOOLEAN]
  /\ count \in [Addresses -> Nat]
  /\ allocated \subseteq Addresses
  /\ owned \subseteq Addresses
  /\ stale \subseteq Pointers
  /\ misused \in BOOLEAN
  /\ reused \in BOOLEAN
  /\ unheard \subseteq Addresses
  /\ corrupted \in BOOLEAN

Init ==
  /\ ref = [p \in Pointers |-> None]
  /\ exists = [a \in Addresses |-> FALSE]
  /\ count = [a \in Addresses |-> 0]
  /\ allocated = {}
  /\ owned = {}
  /\ stale = {}
  /\ misused = FALSE
  /\ reused = FALSE
  /\ unheard = {}
  /\ corrupted = FALSE

\* Pointer::exists().
Exists(p) ==
  /\ ref[p] # None
  /\ IF p \in Strong THEN count[ref[p]] > 0 ELSE exists[ref[p]]

Referring(a) == {p \in Pointers : ref[p] = a}

\* unbind() of p has to delete its object.
IsLast(p) == p \in Strong /\ Exists(p) /\ count[ref[p]] - 1 < 1

\* The table entry of a after destroy() or release().
ForgetEntry(a) ==
  /\ exists' = [exists EXCEPT ![a] = FALSE]
  /\ count' = [count EXCEPT ![a] = 0]

\* delete on the address a, by the pointer p.
Delete(p, a) ==
  /\ allocated' = allocated \ {a}
  /\ owned' = owned \ {a}
  /\ corrupted' = (corrupted \/ a \notin allocated)
  /\ stale' = (stale \cup Referring(a)) \ {p}

\* Mutant of unbind(): the last pointer is the one that finds the count at 0.
MutLetGo(p) ==
  IF ~Exists(p) THEN UNCHANGED <<exists, count, heap, stale, corrupted>>
  ELSE IF p \in Strong /\ count[ref[p]] < 1
    THEN ForgetEntry(ref[p]) /\ Delete(p, ref[p])
  ELSE /\ count' = IF p \in Strong THEN [count EXCEPT ![ref[p]] = @ - 1] ELSE count
       /\ stale' = stale \ {p}
       /\ UNCHANGED <<exists, heap, corrupted>>

\* What unbind() does to the table and to the heap.
LetGo(p) ==
  IF ~Exists(p) THEN UNCHANGED <<exists, count, heap, stale, corrupted>>
  ELSE IF IsLast(p) THEN ForgetEntry(ref[p]) /\ Delete(p, ref[p])
  ELSE /\ count' = IF p \in Strong THEN [count EXCEPT ![ref[p]] = @ - 1] ELSE count
       /\ stale' = stale \ {p}
       /\ UNCHANGED <<exists, heap, corrupted>>

-----------------------------------------------------------------------------

\* unbind(), and the destructor.  A pointer whose object is gone keeps its
\* address when unbind() is called; a new variable in its place has none.
Unbind(p) ==
  /\ ref[p] # None
  /\ LetGo(p)
  /\ ref' = [ref EXCEPT ![p] = IF Exists(p) THEN None ELSE @]
  /\ UNCHANGED <<misused, reused, unheard>>

Drop(p) ==
  /\ ref[p] # None
  /\ IF Exists(p) THEN LetGo(p)
     ELSE stale' = stale \ {p} /\ UNCHANGED <<table, heap, corrupted>>
  /\ ref' = [ref EXCEPT ![p] = None]
  /\ UNCHANGED <<misused, reused, unheard>>

\* Mutant of destroy(): the table entry is left as it was.
MutDestroy(p) ==
  /\ p \in Strong
  /\ Exists(p)
  /\ UNCHANGED table
  /\ Delete(p, ref[p])
  /\ ref' = [ref EXCEPT ![p] = None]
  /\ UNCHANGED <<misused, reused, unheard>>

\* destroy() of a strong pointer; every other pointer to the object goes stale.
Destroy(p) ==
  /\ p \in Strong
  /\ Exists(p)
  /\ ForgetEntry(ref[p])
  /\ Delete(p, ref[p])
  /\ ref' = [ref EXCEPT ![p] = None]
  /\ UNCHANGED <<misused, reused, unheard>>

\* release(): the object lives on, and no pointer has to delete it.
Release(p) ==
  /\ p \in Strong
  /\ Exists(p)
  /\ ForgetEntry(ref[p])
  /\ owned' = owned \ {ref[p]}
  /\ stale' = (stale \cup Referring(ref[p])) \ {p}
  /\ ref' = [ref EXCEPT ![p] = None]
  /\ UNCHANGED <<allocated, misused, reused, unheard, corrupted>>

\* The program deletes an object that is its own; the table never hears of it,
\* and a weak pointer that watched it goes on saying that it exists.
DeleteReleased(a) ==
  /\ a \in allocated \ owned
  /\ allocated' = allocated \ {a}
  /\ stale' = stale \cup Referring(a)
  /\ unheard' = IF exists[a] THEN unheard \cup {a} ELSE unheard
  /\ UNCHANGED <<ref, table, owned, misused, reused, corrupted>>

\* Mutant of bind(): every bound pointer takes the object for its own.
MutBindFresh(p, a) ==
  /\ ref' = [ref EXCEPT ![p] = a]
  /\ exists' = [exists EXCEPT ![a] = TRUE]
  /\ count' = IF p \in Strong THEN [count EXCEPT ![a] = 1] ELSE count

\* bind() of the address a to a pointer that had to let go of nothing.
BindFresh(p, a) ==
  /\ ref' = [ref EXCEPT ![p] = a]
  /\ exists' = [exists EXCEPT ![a] = TRUE]
  /\ count' = IF p \in Strong THEN [count EXCEPT ![a] = @ + 1] ELSE count

\* bind(obj) of the object of q: a copy constructor or an assignment.  A
\* strong pointer is made from a weak one through raw(), which throws when
\* the weak one does not exist, and takes over what that one only watched.
\* When p holds the address already, nothing happens; the case that p lets go
\* of another object first is an Unbind and a Copy.
Copy(p, q) ==
  /\ p # q
  /\ ref[p] = None
  /\ ref[q] # None
  /\ (p \in Strong /\ q \in Weak) => Exists(q)
  /\ BindFresh(p, ref[q])
  /\ misused' = (misused \/ q \in stale)
  /\ stale' = IF q \in stale THEN stale \cup {p} ELSE stale
  /\ owned' = IF p \in Strong /\ q \notin stale THEN owned \cup {ref[q]} ELSE owned
  /\ UNCHANGED <<allocated, reused, unheard, corrupted>>

\* p = new T(), or p = obj with an object of the program's, at the address a.  A
\* stale p that still holds the same address takes the object for its old one:
\* bind() returns at once, and the table never hears of it.
BindRaw(p, a) ==
  /\ a \notin owned
  /\ allocated' = allocated \cup {a}
  /\ owned' = IF p \in Strong THEN owned \cup {a} ELSE owned
  /\ reused' = (reused \/ Referring(a) \cap stale # {})
  /\ unheard' = unheard \ {a}
  /\ \/ ref[p] = None /\ BindFresh(p, a)
     \/ ref[p] = a /\ UNCHANGED <<ref, table>>
  /\ UNCHANGED <<stale, misused, corrupted>>

Next ==
  \/ \E p \in Pointers :
       \/ Unbind(p)
       \/ Drop(p)
       \/ Destroy(p)
       \/ Release(p)
       \/ \E q \in Pointers : Copy(p, q)
       \/ \E a \in Addresses : BindRaw(p, a)
  \/ \E a \in Addresses : DeleteReleased(a)

Spec == Init /\ [][Next]_vars

-----------------------------------------------------------------------------
(* Properties *)

\* The strong pointers that refer to the object at a and know it.
Holders(a) == {p \in Strong : ref[p] = a /\ p \notin stale}

\* As long as no stale address was copied or bound anew, the table counts exactly
\* the strong pointers to the object, so the last of them deletes it and no
\* earlier one does.
CountsExact ==
  ~misused /\ ~reused =>
    \A a \in Addresses : count[a] = Cardinality(Holders(a))

\* Under the same proviso an object that pointers have to delete is still held
\* by one of them: nothing leaks.
NothingLeaks ==
  ~misused /\ ~reused => \A a \in owned : Holders(a) # {}

\* A pointer that says it exists refers to an object that does, and to the one
\* it was bound to, unless it is a weak one to an object that the program has
\* deleted itself: what pointers delete is never dereferenced through another.
ExistsIsAlive ==
  ~misused /\ ~reused =>
    \A p \in Pointers : Exists(p) =>
      \/ ref[p] \in allocated /\ p \notin stale
      \/ ref[p] \in unheard /\ p \in Weak

\* Even when addresses are allocated again under stale pointers, nothing is
\* deleted twice; only copying a stale pointer can lead there.
NoDoubleDelete == corrupted => misused
=============================================================================
