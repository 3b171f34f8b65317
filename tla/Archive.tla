------------------------------ MODULE Archive ------------------------------
(***************************************************************************)
(* Archives, of tool/archive/archive.cpp: the files they are on the disk,  *)
(* pack() writing one in another process, and how FileArchive finds an     *)
(* entry by its path.                                                      *)
(*                                                                         *)
(* An archive lists its files by path; a path is a sequence of names, and  *)
(* the names are what Helper::toLower leaves of them, none of them an      *)
(* address.  What an entry does to a reader is all that is kept of it:     *)
(*   "good"          its bytes give the file's contents                    *)
(*   "corrupt"       they cannot be decrypted, or have the wrong size      *)
(*   "beyond"        reading them leaves the archive, which fails the      *)
(*                   stream                                                *)
(*   "unreadable"    the size they claim cannot be allocated, or the       *)
(*                   archive names an encryption that there is not: what   *)
(*                   is thrown is no FileLoadError                         *)
(*   "misaddressed"  its address is not base64, and decoded() throws what  *)
(*                   is no FileLoadError either, before anything is read   *)
(* whole says that the header names a directory: it is written once as a   *)
(* place-holder, and again when everything else is in the file.  object    *)
(* says that the directory, which is JSON, is an object and not an array,  *)
(* a string or a number.                                                   *)
(***************************************************************************)
EXTENDS Naturals, Sequences, SequencesExt

CONSTANTS
  Archives,    \* paths of archives
  None,        \* no archive, no file
  Up,          \* the name ".."
  Files,       \* the files of the folder that pack() packs
  Earlier      \* what archives may be on the disk at first

EntryKinds == {"good", "corrupt", "beyond", "unreadable", "misaddressed"}

\* The tree of a directory: its files, each with its kind of entry.  The
\* paths are those that a walk over a folder gave, so that none goes up.
IsListing(l) ==
  /\ l = [e \in DOMAIN l |-> l[e]]
  /\ \A e \in DOMAIN l : l[e] \in EntryKinds /\ e \in Seq(Range(e) \ {Up})

\* The files and folders of a listing, the root <<>> among them.
Nodes(listing) == UNION {{SubSeq(e, 1, n) : n \in 0 .. Len(e)} : e \in DOMAIN listing}

Nothing == [e \in {} |-> "good"]

\* The directory with a tree, and one that is no JSON object.
Directory(listing) == [object |-> TRUE, tree |-> listing]
NoObject == [object |-> FALSE, tree |-> Nothing]

IsDirectory(d) == d = NoObject \/ (d = Directory(d.tree) /\ IsListing(d.tree))

ASSUME NoneAssumption == None \notin Archives
ASSUME EarlierAssumption ==
  \A earlier \in Earlier :
    /\ DOMAIN earlier \subseteq Archives
    /\ \A a \in DOMAIN earlier :
         IsDirectory(earlier[a]) /\ None \notin Nodes(earlier[a].tree)

VARIABLES
  disk,        \* the archives: [whole, directory]; None if not there
  packing      \* pack() under way: [to, tree]; None if there is none

packVars == <<disk, packing>>

Whole(directory) == [whole |-> TRUE, directory |-> directory]
Unfinished == [whole |-> FALSE, directory |-> Directory(Nothing)]

PackInit ==
  /\ \E earlier \in Earlier :
       disk = [a \in Archives |->
         IF a \in DOMAIN earlier THEN Whole(earlier[a]) ELSE None]
  /\ packing = None

-----------------------------------------------------------------------------
(* pack() *)

\* The folder is walked, the archive truncated and the first header written.
PackBegin(a) ==
  /\ packing = None
  /\ disk' = [disk EXCEPT ![a] = Unfinished]
  /\ packing' = [to |-> a, tree |-> Nothing]

\* The next file is read and written, and its location goes into the tree.
PackFile(f) ==
  /\ packing # None
  /\ f \in Files \ DOMAIN packing.tree
  /\ packing' = [packing EXCEPT !.tree =
       [e \in DOMAIN @ \cup {f} |-> "good"]]
  /\ UNCHANGED disk

\* The directory and then the header.  The tree is a copy of dir["tree"], and
\* the directory that is written is dir, which lists nothing.
PackDirectory ==
  /\ packing # None
  /\ DOMAIN packing.tree = Files
  /\ disk' = [disk EXCEPT ![packing.to] = Whole(Directory(Nothing))]
  /\ packing' = None

\* A file cannot be read, or the process ends: what was written stays.
PackFails ==
  /\ packing # None
  /\ packing' = None
  /\ UNCHANGED disk

Pack ==
  \/ \E a \in Archives : PackBegin(a)
  \/ \E f \in Files : PackFile(f)
  \/ PackDirectory
  \/ PackFails

-----------------------------------------------------------------------------
(* getFileEntryLocation() *)

\* Mutant of a step: ".." is a name that no folder has.
MutEnter(listing, node, name) ==
  IF node = None \/ node \in DOMAIN listing THEN None
  ELSE IF Append(node, name) \in Nodes(listing) THEN Append(node, name)
  ELSE node

\* One name of the path: from a node of the tree to the next, or to None for
\* an error.  The stack of the code holds the nodes above.  A name that the
\* folder does not have is passed over.
Enter(listing, node, name) ==
  IF node = None THEN None
  ELSE IF name = Up THEN IF node = <<>> THEN None ELSE Front(node)
  ELSE IF node \in DOMAIN listing THEN None
  ELSE IF Append(node, name) \in Nodes(listing) THEN Append(node, name)
  ELSE node

\* Where the first n names of a path lead.
Entered(listing, path) ==
  LET node[n \in 0 .. Len(path)] ==
        IF n = 0 THEN <<>> ELSE Enter(listing, node[n - 1], path[n])
  IN node

\* The file that a path leads to, None for an error.
Located(listing, path) ==
  LET node == Entered(listing, path)[Len(path)]
  IN IF node \in DOMAIN listing THEN node ELSE None

\* FileSystem::getChildPath: what the program calls data/x is x to an archive.
ChildPath(path) == IF Len(path) > 1 THEN Tail(path) ELSE path

-----------------------------------------------------------------------------
(* What FILEFORMAT_V1.txt says of an archive *)

\* "The "tree" object contains the directory tree structure, where the folders
\* are JSON objects, and the files contain base64-encoded adresses": an archive
\* that pack() has finished lists the files it was made of.
PackedIsListed ==
  [][PackDirectory => DOMAIN disk'[packing.to].directory.tree = Files]_packVars
=============================================================================
