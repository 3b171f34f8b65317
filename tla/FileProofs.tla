----------------------------- MODULE FileProofs -----------------------------
(***************************************************************************)
(* Proofs about File, for any archives, paths and folder.                  *)
(***************************************************************************)
EXTENDS File, FiniteSetTheorems, SequenceTheorems, TLAPS

\* An archive on the disk is one that pack() has finished or begun.
DiskOK ==
  /\ DOMAIN disk = Archives
  /\ \A a \in Archives : disk[a] # None => \/ disk[a] = Unfinished
                                          \/ disk[a] = Whole(disk[a].directory)

\* The two flags that the steps compute and the invariants go by.
FlagsOK == rewritten \in BOOLEAN /\ spoiled \in BOOLEAN /\ failed \in BOOLEAN

\* What is attached has succeeded after every failure: no exception is kept, and
\* the stream can be read unless an entry has failed it since.
OpenIsClean ==
  IsArchiveAttached =>
    /\ attached \in Archives
    /\ ~arcfail
    /\ ~spoiled => ~failed

\* AttachedIsWhole says what attachArchive() leaves; no later step but one of
\* pack() may reach the archive it is about.
IInv ==
  /\ DiskOK
  /\ FlagsOK
  /\ OpenIsClean
  /\ AttachedIsWhole

-----------------------------------------------------------------------------

\* An archive can only be opened when it is finished.
LEMMA OpenKeeps ==
  ASSUME IInv, NEW a \in Archives, NEW b, disk[a] # None, OpenArchive(a, b),
         b = Static => file' = a, b # Static => b = a,
         UNCHANGED packVars
  PROVE  IInv'
<1>1. DiskOK'
  BY DEF IInv, DiskOK, packVars
<1>2. CASE /\ disk[a].whole
           /\ failed' = FALSE
           /\ streamOpen' = TRUE
           /\ fstruct' = disk[a].directory
           /\ state' = "open"
           /\ arcfail' = FALSE
           /\ attached' = a
           /\ rewritten' = FALSE
           /\ spoiled' = FALSE
  <2>1. disk[a] = Whole(disk[a].directory)
    BY <1>2 DEF IInv, DiskOK, Unfinished
  <2>2. Source' = a
    BY DEF Source, OpenArchive
  <2> QED
    BY <1>1, <1>2, <2>1, <2>2
       DEF IInv, FlagsOK, OpenIsClean, AttachedIsWhole, IsArchiveAttached, packVars
<1>3. CASE failed' \in BOOLEAN /\ state' = "loading" /\ UNCHANGED history
  BY <1>1, <1>3
     DEF IInv, FlagsOK, OpenIsClean, AttachedIsWhole, IsArchiveAttached, history
<1> QED
  BY <1>2, <1>3 DEF OpenArchive

\* attachArchive(), by path or by buffer, keeps the invariant, whether it
\* succeeds, fails or returns early.
LEMMA AttachKeeps ==
  ASSUME IInv, NEW a \in Archives, AttachPath(a) \/ AttachBuffer(a)
  PROVE  IInv'
<1> USE DEF IInv, FlagsOK, DiskOK, OpenIsClean, AttachedIsWhole, IsArchiveAttached, Source,
            openVars, history, packVars
<1>1. CASE AttachPath(a)
  <2>1. CASE disk[a] = None
    BY <1>1, <2>1 DEF AttachPath
  <2>2. CASE disk[a] # None /\ state = "loading"
    BY <1>1, <2>2 DEF AttachPath
  <2>3. CASE disk[a] # None /\ state # "loading"
    BY <1>1, <2>3, OpenKeeps DEF AttachPath, Attach
  <2> QED
    BY <2>1, <2>2, <2>3
<1>2. CASE AttachBuffer(a)
  <2>1. CASE state = "loading"
    BY <1>2, <2>1 DEF AttachBuffer
  <2>2. CASE state # "loading"
    BY <1>2, <2>2, OpenKeeps, StaticAssumption DEF AttachBuffer, Attach
  <2> QED
    BY <2>1, <2>2
<1> QED
  BY <1>1, <1>2

\* A read keeps it: it can spoil the stream, which is remembered.
LEMMA ReadKeeps ==
  ASSUME IInv, NEW path, NEW folder, Read(path, folder)
  PROVE  IInv'
  BY DEF Read, IInv, FlagsOK, DiskOK, OpenIsClean, AttachedIsWhole, IsArchiveAttached,
         Source, packVars

\* pack() may write over what is attached, and that is remembered.
LEMMA PackKeeps ==
  ASSUME IInv, PackStep
  PROVE  IInv'
<1> USE DEF PackStep, IInv
<1>1. DiskOK'
  <2> USE DEF DiskOK
  <2>1. ASSUME NEW a \in Archives, PackBegin(a) PROVE DiskOK'
    BY <2>1 DEF PackBegin
  <2>2. ASSUME NEW f \in Files, PackFile(f) PROVE DiskOK'
    BY <2>2 DEF PackFile
  <2>3. CASE PackDirectory
    BY <2>3 DEF PackDirectory, Whole, Unfinished
  <2>4. CASE PackFails
    BY <2>4 DEF PackFails
  <2> QED
    BY <2>1, <2>2, <2>3, <2>4 DEF Pack
<1>2. FlagsOK'
  BY DEF FlagsOK, openVars
<1>3. OpenIsClean'
  BY DEF OpenIsClean, IsArchiveAttached, FlagsOK, openVars
<1>4. AttachedIsWhole'
  BY NoneAssumption
     DEF AttachedIsWhole, OpenIsClean, IsArchiveAttached, Source, FlagsOK, openVars
<1> QED
  BY <1>1, <1>2, <1>3, <1>4

\* It holds while nothing was attached.
LEMMA InitInvariant == Init => IInv
  BY DEF Init, PackInit, IInv, DiskOK, FlagsOK, OpenIsClean, AttachedIsWhole,
         IsArchiveAttached, Whole

\* Every step keeps it.
LEMMA NextInvariant == IInv /\ [Next]_vars => IInv'
<1> SUFFICES ASSUME IInv, [Next]_vars
             PROVE  IInv'
  OBVIOUS
<1>1. ASSUME NEW a \in Archives, AttachPath(a) \/ AttachBuffer(a) PROVE IInv'
  BY <1>1, AttachKeeps
<1>2. CASE Detach
  BY <1>2 DEF Detach, IInv, DiskOK, FlagsOK, OpenIsClean, AttachedIsWhole, IsArchiveAttached,
              history, packVars
<1>3. ASSUME NEW path \in Paths, Get(path) \/ LoadFromArchive(path) PROVE IInv'
  BY <1>3, ReadKeeps DEF Get, LoadFromArchive
<1>4. CASE PackStep
  BY <1>4, PackKeeps
<1>5. CASE UNCHANGED vars
  BY <1>5 DEF vars, fileVars, openVars, history, packVars, IInv, DiskOK, FlagsOK,
              OpenIsClean, AttachedIsWhole, IsArchiveAttached, Source
<1> QED
  BY <1>1, <1>2, <1>3, <1>4, <1>5 DEF Next

-----------------------------------------------------------------------------

\* What a read answers when the folder has the file: neither the archive nor the
\* folder answers only if the attached archive has thrown what is no FileLoadError,
\* for its directory, for the address of the entry or for its bytes.
LEMMA ReadBacks ==
  ASSUME IInv, NEW path, NEW folder, Read(path, folder)
  PROVE  FolderBacks'
<1> DEFINE asks == IsArchiveAttached /\ ~arcfail
           entry == IF asks THEN Located(fstruct.tree, ChildPath(path)) ELSE None
<1>1. PICK kind \in IF entry = None THEN {"corrupt"} ELSE KindsRead(entry) :
        /\ answer' = [from |-> Answer(Outcome(asks, entry, kind), path, folder),
                      path |-> path, entry |-> entry, source |-> Source,
                      backed |-> path \in folder]
        /\ failed' = (failed \/ (kind = "beyond" /\ ~failed))
  BY DEF Read
<1>2. UNCHANGED <<state, fstruct, rewritten>>
  BY DEF Read
<1> SUFFICES ASSUME path \in folder, answer'.from \notin {"archive", "folder"}
             PROVE  /\ IsArchiveAttached
                    /\ \/ ~fstruct.object
                       \/ /\ entry # None
                          /\ \/ fstruct.tree[entry] = "misaddressed"
                             \/ ~failed' /\ (rewritten \/ fstruct.tree[entry] = "unreadable")
  BY <1>1, <1>2 DEF FolderBacks, Answers, IsArchiveAttached
<1>3. Outcome(asks, entry, kind) = "escape"
  BY <1>1 DEF Answer, Outcome
<1>4. CASE asks /\ ~fstruct.object
  BY <1>4
<1>5. CASE kind = "misaddressed"
  <2>1. entry # None /\ kind \in KindsRead(entry)
    BY <1>1, <1>5
  <2>2. fstruct.tree[entry] = "misaddressed"
    BY <1>5, <2>1 DEF KindsRead
  <2> QED
    BY <2>1, <2>2
<1>6. CASE ~(asks /\ ~fstruct.object) /\ kind # "misaddressed"
  <2>1. entry # None /\ ~failed /\ kind = "unreadable"
    BY <1>3, <1>6 DEF Outcome
  <2>2. asks
    BY <2>1
  <2>3. ~rewritten => disk[Source].directory = fstruct
    BY <2>2 DEF IInv, AttachedIsWhole, Whole
  <2>4. ~rewritten => fstruct.tree[entry] = "unreadable"
    BY <1>1, <2>1, <2>3 DEF KindsRead
  <2> QED
    BY <1>1, <2>1, <2>2, <2>4
<1> QED
  BY <1>4, <1>5, <1>6

\* Only a read gives an answer, and each is backed by the folder.
LEMMA NextBacks == IInv /\ FolderBacks /\ [Next]_vars => FolderBacks'
<1> SUFFICES ASSUME IInv, FolderBacks, [Next]_vars
             PROVE  FolderBacks'
  OBVIOUS
<1>1. CASE answer' = NoAnswer
  BY <1>1 DEF FolderBacks, Answers
<1>2. ASSUME NEW path \in Paths, Get(path) \/ LoadFromArchive(path) PROVE FolderBacks'
  BY <1>2, ReadBacks DEF Get, LoadFromArchive
<1>3. CASE UNCHANGED vars
  BY <1>3 DEF vars, fileVars, openVars, history, FolderBacks, Answers, IsArchiveAttached
<1> QED
  BY <1>1, <1>2, <1>3 DEF Next, AttachPath, AttachBuffer, Detach, PackStep

-----------------------------------------------------------------------------
(* Where a path leads *)

\* Every set of numbers that is not empty has a least one: what induction on the
\* names of a path rests on.
LEMMA LeastNumber ==
  ASSUME NEW S \in SUBSET Nat, S # {}
  PROVE  \E n \in S : \A m \in S : n <= m
<1> DEFINE Below(n) == 0 .. n
           T == {Below(n) : n \in S}
<1>1. T \subseteq FiniteSubsetsOf(Nat)
  <2>1. ASSUME NEW n \in S PROVE Below(n) \in SUBSET Nat /\ IsFiniteSet(Below(n))
    BY FS_Interval
  <2> QED
    BY <2>1 DEF FiniteSubsetsOf
<1>2. T # {}
  OBVIOUS
<1>3. PICK x \in T : \A y \in T : <<y, x>> \notin StrictSubsetOrdering(Nat)
  <2> HIDE DEF T
  <2> QED
    BY <1>1, <1>2, FS_StrictSubsetOrderingWellFounded, WFMin
<1>4. PICK n \in S : x = Below(n)
  OBVIOUS
<1>5. ASSUME NEW m \in S, ~(n <= m) PROVE FALSE
  <2>1. Below(m) \subseteq Below(n) /\ Below(m) # Below(n)
    <3>1. n \in Below(n) /\ n \notin Below(m)
      BY <1>5
    <3> QED
      BY <3>1, <1>5
  <2>2. <<Below(m), Below(n)>> \in StrictSubsetOrdering(Nat)
    BY <2>1 DEF StrictSubsetOrdering
  <2> QED
    BY <2>2, <1>3, <1>4
<1> QED
  BY <1>5

\* Induction on the numbers, for a set of them.
LEMMA NumberInduction ==
  ASSUME NEW S, 0 \in S, \A n \in Nat : n \in S => n + 1 \in S
  PROVE  \A n \in Nat : n \in S
<1> SUFFICES ASSUME NEW k \in Nat, k \notin S PROVE FALSE
  OBVIOUS
<1>1. PICK n \in Nat \ S : \A m \in Nat \ S : n <= m
  BY LeastNumber
<1>2. n # 0 /\ n - 1 \in Nat
  BY <1>1
<1>3. n - 1 \in S
  BY <1>1, <1>2
<1> QED
  BY <1>2, <1>3

\* The nodes that a path leads to: the root, and then one name after another.
LEMMA EnteredSteps ==
  ASSUME NEW listing, NEW path, Len(path) \in Nat
  PROVE  /\ Entered(listing, path)[0] = <<>>
         /\ \A n \in 1 .. Len(path) :
              Entered(listing, path)[n] =
                Enter(listing, Entered(listing, path)[n - 1], path[n])
<1> DEFINE Leads(f, m) ==
             f = [n \in 0 .. m |-> IF n = 0 THEN <<>> ELSE Enter(listing, f[n - 1], path[n])]
           With == {m \in Nat : \E f : Leads(f, m)}
<1>1. 0 \in With
  <2>1. Leads([n \in 0 .. 0 |-> <<>>], 0)
    OBVIOUS
  <2> QED
    BY <2>1
<1>2. ASSUME NEW m \in Nat, m \in With PROVE m + 1 \in With
  <2>1. PICK f : Leads(f, m)
    BY <1>2
  <2> DEFINE g == [n \in 0 .. m + 1 |->
                    IF n = m + 1 THEN Enter(listing, f[m], path[m + 1]) ELSE f[n]]
  <2>2. \A n \in 0 .. m : g[n] = f[n]
    OBVIOUS
  <2>3. ASSUME NEW n \in 0 .. m + 1
        PROVE  g[n] = IF n = 0 THEN <<>> ELSE Enter(listing, g[n - 1], path[n])
    <3>1. CASE n = 0
      BY <2>1, <2>2, <3>1
    <3>2. CASE n \in 1 .. m
      <4>1. f[n] = Enter(listing, f[n - 1], path[n])
        BY <2>1, <3>2
      <4>2. g[n] = f[n] /\ g[n - 1] = f[n - 1]
        BY <2>2, <3>2
      <4> HIDE DEF g
      <4> QED
        BY <3>2, <4>1, <4>2
    <3>3. CASE n = m + 1
      <4>1. g[m + 1] = Enter(listing, f[m], path[m + 1]) /\ g[m] = f[m]
        BY <2>2
      <4> HIDE DEF g
      <4> QED
        BY <3>3, <4>1
    <3> QED
      BY <3>1, <3>2, <3>3
  <2>4. g = [n \in 0 .. m + 1 |-> g[n]]
    OBVIOUS
  <2> HIDE DEF g
  <2>5. Leads(g, m + 1)
    BY <2>3, <2>4
  <2> QED
    BY <2>5
<1>3. PICK f : Leads(f, Len(path))
  <2> HIDE DEF With
  <2>1. \A m \in Nat : m \in With
    BY <1>1, <1>2, NumberInduction
  <2> QED
    BY <2>1 DEF With
<1>4. Leads(Entered(listing, path), Len(path))
  BY <1>3 DEF Entered
<1>5. ASSUME NEW n \in 0 .. Len(path)
      PROVE  Entered(listing, path)[n] =
               IF n = 0 THEN <<>> ELSE Enter(listing, Entered(listing, path)[n - 1], path[n])
  BY <1>4
<1> QED
  BY <1>5

\* The same for a tree that has all nodes.
LEMMA NormalSteps ==
  ASSUME NEW path, Len(path) \in Nat
  PROVE  /\ Normal(path)[0] = <<>>
         /\ \A n \in 1 .. Len(path) :
              Normal(path)[n] =
                Climb(Normal(path)[n - 1], path[n])
<1> DEFINE Leads(f, m) ==
             f = [n \in 0 .. m |-> IF n = 0 THEN <<>> ELSE Climb(f[n - 1], path[n])]
           With == {m \in Nat : \E f : Leads(f, m)}
<1>1. 0 \in With
  <2>1. Leads([n \in 0 .. 0 |-> <<>>], 0)
    OBVIOUS
  <2> QED
    BY <2>1
<1>2. ASSUME NEW m \in Nat, m \in With PROVE m + 1 \in With
  <2>1. PICK f : Leads(f, m)
    BY <1>2
  <2> DEFINE g == [n \in 0 .. m + 1 |->
                    IF n = m + 1 THEN Climb(f[m], path[m + 1]) ELSE f[n]]
  <2>2. \A n \in 0 .. m : g[n] = f[n]
    OBVIOUS
  <2>3. ASSUME NEW n \in 0 .. m + 1
        PROVE  g[n] = IF n = 0 THEN <<>> ELSE Climb(g[n - 1], path[n])
    <3>1. CASE n = 0
      BY <2>1, <2>2, <3>1
    <3>2. CASE n \in 1 .. m
      <4>1. f[n] = Climb(f[n - 1], path[n])
        BY <2>1, <3>2
      <4>2. g[n] = f[n] /\ g[n - 1] = f[n - 1]
        BY <2>2, <3>2
      <4> HIDE DEF g
      <4> QED
        BY <3>2, <4>1, <4>2
    <3>3. CASE n = m + 1
      <4>1. g[m + 1] = Climb(f[m], path[m + 1]) /\ g[m] = f[m]
        BY <2>2
      <4> HIDE DEF g
      <4> QED
        BY <3>3, <4>1
    <3> QED
      BY <3>1, <3>2, <3>3
  <2>4. g = [n \in 0 .. m + 1 |-> g[n]]
    OBVIOUS
  <2> HIDE DEF g
  <2>5. Leads(g, m + 1)
    BY <2>3, <2>4
  <2> QED
    BY <2>5
<1>3. PICK f : Leads(f, Len(path))
  <2> HIDE DEF With
  <2>1. \A m \in Nat : m \in With
    BY <1>1, <1>2, NumberInduction
  <2> QED
    BY <2>1 DEF With
<1>4. Leads(Normal(path), Len(path))
  BY <1>3 DEF Normal
<1>5. ASSUME NEW n \in 0 .. Len(path)
      PROVE  Normal(path)[n] =
               IF n = 0 THEN <<>> ELSE Climb(Normal(path)[n - 1], path[n])
  BY <1>4
<1> QED
  BY <1>5

\* No folder of a listing is reached by going up.
LEMMA NodesAreDown ==
  ASSUME NEW listing, IsListing(listing)
  PROVE  /\ DOMAIN listing \subseteq Nodes(listing)
         /\ <<Up>> \notin Nodes(listing)
<1>1. ASSUME NEW e \in DOMAIN listing PROVE e \in Nodes(listing)
  <2>1. e \in Seq(Range(e) \ {Up})
    BY <1>1 DEF IsListing
  <2>2. e = SubSeq(e, 1, Len(e)) /\ Len(e) \in 0 .. Len(e)
    BY <2>1
  <2>3. e \in {SubSeq(e, 1, n) : n \in 0 .. Len(e)}
    BY <2>2
  <2> QED
    BY <2>3 DEF Nodes
<1>2. ASSUME <<Up>> \in Nodes(listing) PROVE FALSE
  <2>1. PICK e \in DOMAIN listing : \E n \in 0 .. Len(e) : <<Up>> = SubSeq(e, 1, n)
    BY <1>2 DEF Nodes
  <2> PICK n \in 0 .. Len(e) : <<Up>> = SubSeq(e, 1, n)
    BY <2>1
  <2>2. e \in Seq(Range(e) \ {Up})
    BY DEF IsListing
  <2>3. Len(SubSeq(e, 1, n)) = n /\ \A i \in 1 .. n : SubSeq(e, 1, n)[i] = e[i]
    BY <2>2
  <2>4. n = 1 /\ e[1] = Up
    BY <2>3
  <2>5. e[1] \in Range(e) \ {Up}
    BY <2>2, <2>4
  <2> QED
    BY <2>4, <2>5
<1> QED
  BY <1>1, <1>2

\* A path through folders that a listing has leads where it says: the step that
\* goes up leads to the folder above, and no step is refused or passed over.
LEMMA NamedIsLocated ==
  ASSUME NEW listing, IsListing(listing), None \notin Nodes(listing),
         NEW path, Len(path) \in Nat,
         NEW e, Names(listing, path, e)
  PROVE  Located(listing, path) = e
<1> DEFINE at == Normal(path)
           node == Entered(listing, path)
           Same == {n \in Nat : n <= Len(path) => node[n] = at[n]}
<1>1. at[Len(path)] = e /\ e \in DOMAIN listing
  BY DEF Names
<1>2. \A n \in 0 .. Len(path) - 1 : at[n] \in Nodes(listing) \ DOMAIN listing
  BY DEF Names
<1>3. \A n \in 0 .. Len(path) : at[n] \in Nodes(listing)
  <2> HIDE DEF at
  <2> QED
    BY <1>1, <1>2, NodesAreDown
<1>4. 0 \in Same
  BY EnteredSteps, NormalSteps
<1>5. ASSUME NEW n \in Nat, n \in Same PROVE n + 1 \in Same
  <2> SUFFICES ASSUME n + 1 <= Len(path) PROVE node[n + 1] = at[n + 1]
    OBVIOUS
  <2>1. node[n] = at[n]
    BY <1>5
  <2>2. at[n] \in Nodes(listing) \ DOMAIN listing /\ at[n + 1] \in Nodes(listing)
    BY <1>2, <1>3
  <2>3. at[n + 1] = Climb(at[n], path[n + 1])
    BY NormalSteps
  <2>4. node[n + 1] = Enter(listing, node[n], path[n + 1])
    BY EnteredSteps
  <2> HIDE DEF at, node
  <2>5. ~(path[n + 1] = Up /\ at[n] = <<>>)
    BY <2>2, <2>3, NodesAreDown DEF Climb
  <2> QED
    BY <2>1, <2>2, <2>3, <2>4, <2>5 DEF Enter, Climb
<1>6. node[Len(path)] = at[Len(path)]
  <2> HIDE DEF Same
  <2>1. \A n \in Nat : n \in Same
    BY <1>4, <1>5, NumberInduction
  <2> QED
    BY <2>1 DEF Same
<1> QED
  BY <1>1, <1>6 DEF Located

-----------------------------------------------------------------------------
(* What a read serves *)

\* A directory whose tree can be walked: it lists no "no file", and nothing at
\* all if it is no object.
Readable(directory) == IsDirectory(directory) /\ None \notin Nodes(directory.tree)

\* Every directory that an archive has, or that was read of one, can be walked.
ListingsOK ==
  /\ Readable(fstruct)
  /\ \A a \in Archives : disk[a] # None => Readable(disk[a].directory)

\* What pack() writes can be walked.
LEMMA NothingIsReadable == Readable(Directory(Nothing))
  BY DEF Readable, IsDirectory, Directory, Nothing, IsListing, Nodes

\* So can what is there at the start.
LEMMA InitListings == Init => ListingsOK
  BY NothingIsReadable, EarlierAssumption
     DEF Init, PackInit, ListingsOK, Whole, Readable

\* The tree of a directory that can be walked is a listing.
LEMMA ReadableTree ==
  ASSUME NEW directory, Readable(directory)
  PROVE  IsListing(directory.tree) /\ None \notin Nodes(directory.tree)
  BY NothingIsReadable DEF Readable, IsDirectory, NoObject, Directory, Nothing, IsListing

\* One that is no object lists nothing.
LEMMA NoObjectListsNothing ==
  ASSUME NEW directory, Readable(directory), ~directory.object
  PROVE  DOMAIN directory.tree = {}
  BY DEF Readable, IsDirectory, NoObject, Directory, Nothing

\* What pack() writes lists nothing, and an attachment reads a directory that is on
\* the disk.
LEMMA NextListings == DiskOK /\ ListingsOK /\ [Next]_vars => ListingsOK'
<1> SUFFICES ASSUME DiskOK, ListingsOK, [Next]_vars
             PROVE  ListingsOK'
  OBVIOUS
<1>1. CASE UNCHANGED <<disk, fstruct>>
  BY <1>1 DEF ListingsOK, Readable, IsDirectory, IsListing, Nodes
<1>2. ASSUME NEW a \in Archives, NEW b, disk[a] # None, OpenArchive(a, b), UNCHANGED disk
      PROVE  ListingsOK'
  <2>1. fstruct' = disk[a].directory \/ fstruct' = fstruct
    BY <1>2 DEF OpenArchive
  <2>2. Readable(disk[a].directory) /\ Readable(fstruct)
    BY <1>2 DEF ListingsOK
  <2>3. Readable(fstruct')
    BY <2>1, <2>2
  <2>4. disk' = disk
    BY <1>2
  <2> QED
    BY <2>3, <2>4 DEF ListingsOK
<1>3. ASSUME NEW a \in Archives, AttachPath(a) \/ AttachBuffer(a) PROVE ListingsOK'
  <2>1. CASE UNCHANGED fstruct
    BY <1>1, <1>3, <2>1 DEF AttachPath, AttachBuffer, packVars
  <2>2. CASE fstruct' # fstruct
    BY <1>2, <1>3, <2>2 DEF AttachPath, AttachBuffer, Attach, packVars, openVars
  <2> QED
    BY <2>1, <2>2
<1>4. CASE Detach
  BY <1>1, <1>4 DEF Detach, packVars
<1>5. ASSUME NEW path \in Paths, Get(path) \/ LoadFromArchive(path) PROVE ListingsOK'
  BY <1>1, <1>5 DEF Get, LoadFromArchive, Read, packVars
<1>6. CASE PackStep
  <2>1. \A a \in Archives : disk'[a] \in {disk[a], Unfinished, Whole(Directory(Nothing))}
    BY <1>6 DEF PackStep, Pack, PackBegin, PackFile, PackDirectory, PackFails, DiskOK
  <2>2. fstruct' = fstruct
    BY <1>6 DEF PackStep, openVars
  <2>3. Readable(fstruct')
    BY <2>2 DEF ListingsOK
  <2>4. ASSUME NEW a \in Archives, disk'[a] # None PROVE Readable(disk'[a].directory)
    <3>1. CASE disk'[a] = disk[a]
      BY <2>4, <3>1 DEF ListingsOK
    <3>2. CASE disk'[a] \in {Unfinished, Whole(Directory(Nothing))}
      BY <3>2, NothingIsReadable DEF Unfinished, Whole
    <3> QED
      BY <2>1, <3>1, <3>2
  <2> QED
    BY <2>3, <2>4 DEF ListingsOK
<1>7. CASE UNCHANGED vars
  BY <1>1, <1>7 DEF vars, fileVars, packVars, openVars
<1> QED
  BY <1>3, <1>4, <1>5, <1>6, <1>7 DEF Next

\* A path without its first folder still has a length.
LEMMA ChildPathIsFinite ==
  ASSUME NEW path \in Paths
  PROVE  Len(ChildPath(path)) \in Nat
  BY PathsAssumption DEF ChildPath

\* A read of the attached archive takes the file that the path names, and its
\* bytes are those that the archive was packed with.
LEMMA ReadServes ==
  ASSUME IInv, ListingsOK, NEW path \in Paths, NEW folder, Read(path, folder)
  PROVE  ServesAskedFile' /\ ArchiveServes'
<1> DEFINE asks == IsArchiveAttached /\ ~arcfail
           entry == IF asks THEN Located(fstruct.tree, ChildPath(path)) ELSE None
<1>1. PICK kind \in IF entry = None THEN {"corrupt"} ELSE KindsRead(entry) :
        /\ answer' = [from |-> Answer(Outcome(asks, entry, kind), path, folder),
                      path |-> path, entry |-> entry, source |-> Source,
                      backed |-> path \in folder]
        /\ spoiled' = (spoiled \/ (kind = "beyond" /\ ~failed))
  BY DEF Read
<1>2. UNCHANGED <<state, fstruct, attached, rewritten>>
  BY DEF Read
<1>3. ASSUME IsArchiveAttached, ~arcfail, NEW e, Names(fstruct.tree, ChildPath(path), e)
      PROVE  entry = e
  <2>1. Located(fstruct.tree, ChildPath(path)) = e
    BY <1>3, NamedIsLocated, ChildPathIsFinite, ReadableTree DEF ListingsOK
  <2> QED
    BY <1>3, <2>1
<1> HIDE DEF entry
<1>4. ServesAskedFile'
  <2> SUFFICES ASSUME answer'.from = "archive", ~rewritten
               PROVE  /\ answer'.source = attached
                      /\ \A e \in DOMAIN fstruct.tree :
                           Names(fstruct.tree, ChildPath(answer'.path), e) => answer'.entry = e
    BY <1>2 DEF ServesAskedFile, Names, Nodes
  <2>1. entry # None
    BY <1>1 DEF Answer, Outcome
  <2>2. IsArchiveAttached /\ ~arcfail
    BY <2>1 DEF entry
  <2>3. Source = attached
    BY <2>2 DEF IInv, AttachedIsWhole
  <2> QED
    BY <1>1, <1>3, <2>2, <2>3
<1>5. ArchiveServes'
  <2> SUFFICES ASSUME IsArchiveAttached, ~rewritten, ~spoiled',
                      NEW e \in DOMAIN fstruct.tree,
                      Names(fstruct.tree, ChildPath(answer'.path), e), fstruct.tree[e] = "good"
               PROVE  answer'.from = "archive"
    BY <1>2 DEF ArchiveServes, Names, Nodes, IsArchiveAttached
  <2>1. ~arcfail /\ ~failed
    BY <1>1 DEF IInv, OpenIsClean, FlagsOK
  <2>2. entry = e
    BY <1>1, <1>3, <2>1
  <2>3. e # None /\ fstruct.object
    BY NodesAreDown, ReadableTree, NoObjectListsNothing DEF ListingsOK
  <2>4. kind = "good"
    BY <1>1, <2>2, <2>3 DEF KindsRead, IInv, AttachedIsWhole, Whole
  <2> QED
    BY <1>1, <2>1, <2>2, <2>3, <2>4 DEF Outcome, Answer
<1> QED
  BY <1>4, <1>5

\* Only a read gives an answer, and each serves what was asked for.
LEMMA NextServes ==
  IInv /\ ListingsOK /\ ServesAskedFile /\ ArchiveServes /\ [Next]_vars
    => ServesAskedFile' /\ ArchiveServes'
<1> SUFFICES ASSUME IInv, ListingsOK, ServesAskedFile, ArchiveServes, [Next]_vars
             PROVE  ServesAskedFile' /\ ArchiveServes'
  OBVIOUS
<1>1. CASE answer' = NoAnswer
  BY <1>1 DEF ServesAskedFile, ArchiveServes, Answers
<1>2. ASSUME NEW path \in Paths, Get(path) \/ LoadFromArchive(path)
      PROVE  ServesAskedFile' /\ ArchiveServes'
  BY <1>2, ReadServes DEF Get, LoadFromArchive
<1>3. CASE UNCHANGED vars
  BY <1>3 DEF vars, fileVars, openVars, history, ServesAskedFile, ArchiveServes, Answers,
              IsArchiveAttached, Names, Nodes
<1> QED
  BY <1>1, <1>2, <1>3 DEF Next, AttachPath, AttachBuffer, Detach, PackStep

-----------------------------------------------------------------------------

\* The inductive invariant of the attached archive holds of every reachable state.
THEOREM Invariance == Spec => []IInv
  BY InitInvariant, NextInvariant, PTL DEF Spec

\* An attached archive was finished when it was opened, and the directory and the
\* stream are its own.
THEOREM AttachedAreWhole == Spec => []AttachedIsWhole
<1>1. IInv => AttachedIsWhole
  BY DEF IInv
<1> QED
  BY <1>1, Invariance, PTL

\* No failure of an earlier attachment outlives the next one that succeeds.
THEOREM OpenIsAlwaysClean == Spec => []OpenIsClean
<1>1. IInv => OpenIsClean
  BY DEF IInv
<1> QED
  BY <1>1, Invariance, PTL

\* get...() finds what lies in the folder, whatever has become of the archive,
\* unless the archive throws what is no FileLoadError, and it does so only for a
\* directory that is no object, an address that is not base64, or bytes that
\* cannot be read.
THEOREM FolderAlwaysBacks == Spec => []FolderBacks
<1>1. Init => FolderBacks
  BY DEF Init, FolderBacks, Answers
<1> QED
  BY <1>1, NextBacks, Invariance, PTL DEF Spec

\* Every directory that can be read can be walked: no file of it is named by going
\* up, and none of it is "no file".
THEOREM ListingsAreReadable == Spec => []ListingsOK
<1>1. IInv => DiskOK
  BY DEF IInv
<1> QED
  BY <1>1, InitListings, NextListings, Invariance, PTL DEF Spec

\* What the archive answers is the file that was asked for, of the archive that
\* was attached last, as long as nobody writes over it.
THEOREM AskedFileIsServed == Spec => []ServesAskedFile
<1>1. Init => ServesAskedFile /\ ArchiveServes
  BY DEF Init, ServesAskedFile, ArchiveServes, Answers
<1> QED
  BY <1>1, NextServes, Invariance, ListingsAreReadable, PTL DEF Spec

\* An attached archive serves every good entry, whatever failed before.
THEOREM GoodEntryIsServed == Spec => []ArchiveServes
<1>1. Init => ServesAskedFile /\ ArchiveServes
  BY DEF Init, ServesAskedFile, ArchiveServes, Answers
<1> QED
  BY <1>1, NextServes, Invariance, ListingsAreReadable, PTL DEF Spec
=============================================================================
