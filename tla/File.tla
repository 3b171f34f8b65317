-------------------------------- MODULE File --------------------------------
(***************************************************************************)
(* The attached archive of file/get.cpp, with FileArchive::open(), close() *)
(* and the reading of entries (tool/archive/archive.cpp), while pack() of  *)
(* another process may write the same archives.                            *)
(*                                                                         *)
(* get...() asks the archive first and the folder next.  The text, binary  *)
(* and CSV versions do the same to the state and are one action here.      *)
(***************************************************************************)
EXTENDS Archive

CONSTANTS
  Folder,      \* paths of the files that lie in the folder
  Paths,       \* paths the program asks for
  Static       \* the FileBuffer of attachArchive(path)

ASSUME PathsAssumption == \A p \in Paths : p \in Seq(Range(p))
ASSUME StaticAssumption == Static \notin Archives \cup {None}

VARIABLES
  state,       \* ArchiveState: "closed", "loading" or "open"
  arcfail,     \* an exception is kept
  file,        \* the archive that the static FileBuffer has open
  stream,      \* where FileArchive::archive reads: Static, or the program's
               \* own buffer on an archive
  failed,      \* the failbit of that stream, which throws from then on
  streamOpen,
  fstruct,     \* the directory that was read when it was opened
  attached,    \* history: the archive of the last attachment that succeeded
  rewritten,   \* history: pack() has begun to overwrite it since
  spoiled,     \* history: since then an entry has failed the stream
  answer       \* what the last call answered, if it was one that reads

openVars == <<stream, failed, streamOpen, fstruct>>
history  == <<attached, rewritten, spoiled>>
fileVars == <<state, arcfail, file, openVars, history, answer>>
vars     == <<packVars, fileVars>>

NoAnswer == [from |-> "nowhere"]

\* The archive the stream reads.
Source == IF stream = Static THEN file ELSE stream

IsArchiveAttached == state = "open"

TypeOK ==
  /\ state \in {"closed", "loading", "open"}
  /\ arcfail \in BOOLEAN
  /\ file \in Archives \cup {None}
  /\ stream \in Archives \cup {None, Static}
  /\ failed \in BOOLEAN
  /\ streamOpen \in BOOLEAN
  /\ IsDirectory(fstruct)
  /\ attached \in Archives \cup {None}
  /\ rewritten \in BOOLEAN
  /\ spoiled \in BOOLEAN

Init ==
  /\ PackInit
  /\ state = "closed"
  /\ arcfail = FALSE
  /\ file = None
  /\ stream = None
  /\ failed = FALSE
  /\ streamOpen = FALSE
  /\ fstruct = Directory(Nothing)
  /\ attached = None
  /\ rewritten = FALSE
  /\ spoiled = FALSE
  /\ answer = NoAnswer

-----------------------------------------------------------------------------
(* attachArchive() and detachArchive() *)

\* Mutant of the opening: the exception of an earlier attachment stays.
MutOpenArchive(a, b) ==
  /\ stream' = b
  /\ \/ /\ disk[a].whole
        /\ failed' = FALSE
        /\ streamOpen' = TRUE
        /\ fstruct' = disk[a].directory
        /\ state' = "open"
        /\ attached' = a
        /\ rewritten' = FALSE
        /\ spoiled' = FALSE
        /\ UNCHANGED arcfail
     \/ /\ failed' \in BOOLEAN
        /\ streamOpen' = FALSE
        /\ state' = "loading"
        /\ arcfail' = TRUE
        /\ UNCHANGED <<fstruct, history>>

\* FileArchive::open() of the archive a by the buffer b.  A header without a
\* directory is refused.  rdbuf() clears the failbit; a refusal may come from
\* a read that fails, or from what was read.
OpenArchive(a, b) ==
  /\ stream' = b
  /\ \/ /\ disk[a].whole
        /\ failed' = FALSE
        /\ streamOpen' = TRUE
        /\ fstruct' = disk[a].directory
        /\ state' = "open"
        /\ arcfail' = FALSE
        /\ attached' = a
        /\ rewritten' = FALSE
        /\ spoiled' = FALSE
     \/ /\ failed' \in BOOLEAN
        /\ streamOpen' = FALSE
        /\ state' = "loading"
        /\ arcfail' = TRUE
        /\ UNCHANGED <<fstruct, history>>

\* Mutant of the attachment: the archive is not closed first, and open()
\* returns at once if it is open.
MutAttach(a, b) ==
  IF streamOpen THEN state' = "open" /\ attached' = a /\ UNCHANGED <<arcfail, openVars, rewritten, spoiled>>
  ELSE OpenArchive(a, b)

\* attachArchive(buffer), when no other attachment failed before it.
Attach(a, b) == OpenArchive(a, b)

\* attachArchive(path).  The static buffer is opened anew before anybody looks
\* at the state.
AttachPath(a) ==
  /\ IF disk[a] = None THEN UNCHANGED <<state, arcfail, file, openVars, history>>
     ELSE /\ file' = a
          /\ IF state = "loading" THEN UNCHANGED <<state, arcfail, openVars, history>>
             ELSE Attach(a, Static)
  /\ answer' = NoAnswer
  /\ UNCHANGED packVars

\* attachArchive(buffer), with a buffer of the program's own, at its beginning.
AttachBuffer(a) ==
  /\ disk[a] # None
  /\ IF state = "loading" THEN UNCHANGED <<state, arcfail, openVars, history>>
     ELSE Attach(a, a)
  /\ answer' = NoAnswer
  /\ UNCHANGED <<packVars, file>>

\* detachArchive(): the exception stays.
Detach ==
  /\ streamOpen' = FALSE
  /\ state' = "closed"
  /\ answer' = NoAnswer
  /\ UNCHANGED <<packVars, arcfail, file, stream, failed, fstruct, history>>

-----------------------------------------------------------------------------
(* Reading *)

\* What the entry e does to its reader.  Its address is in the directory that
\* was read; its bytes do anything once another archive is written over them.
KindsRead(e) ==
  IF fstruct.tree[e] = "misaddressed" \/ disk[Source].directory = fstruct
    THEN {fstruct.tree[e]}
  ELSE EntryKinds \ {"misaddressed"}

\* getTextFile() and getBinaryFile() of the archive, if it is asked: the entry
\* found by its path is read as kind.  "error" is a FileLoadError; "escape" is
\* what the handlers of getFileEntry() and of get...() let pass: the errors of
\* the JSON and base64 libraries, of an allocation and of an encryption method.
Outcome(asks, entry, kind) ==
  IF (asks /\ ~fstruct.object) \/ kind = "misaddressed" THEN "escape"
  ELSE IF entry = None \/ failed \/ kind \in {"corrupt", "beyond"} THEN "error"
  ELSE IF kind = "unreadable" THEN "escape"
  ELSE "archive"

\* Mutant of get...(): the folder is asked only for what is in no archive.
MutAnswer(outcome, path, folder) ==
  IF outcome = "error" /\ path \in folder /\ ~IsArchiveAttached THEN "folder" ELSE outcome

\* Where an answer comes from: after an error the folder is asked, if at all.
Answer(outcome, path, folder) ==
  IF outcome = "error" /\ path \in folder THEN "folder" ELSE outcome

\* The archive is asked, and after an error the folder.  A kept exception
\* comes before the archive.
Read(path, folder) ==
  LET asks  == IsArchiveAttached /\ ~arcfail
      entry == IF asks THEN Located(fstruct.tree, ChildPath(path)) ELSE None
  IN /\ \E kind \in IF entry = None THEN {"corrupt"} ELSE KindsRead(entry) :
          LET fails == kind = "beyond" /\ ~failed
          IN /\ failed' = (failed \/ fails)
             /\ spoiled' = (spoiled \/ fails)
             /\ answer' = [from |-> Answer(Outcome(asks, entry, kind), path, folder),
                           path |-> path, entry |-> entry, source |-> Source,
                           backed |-> path \in folder]
     /\ UNCHANGED <<packVars, state, arcfail, file, stream, streamOpen, fstruct,
                    attached, rewritten>>

\* getText(), getBinary() and getCSV(); loadTextFromArchive() and its like.
Get(path) == Read(path, Folder)
LoadFromArchive(path) == Read(path, {})

PackStep ==
  /\ Pack
  /\ rewritten' = (rewritten \/ (attached # None /\ disk'[attached] # disk[attached]))
  /\ answer' = NoAnswer
  /\ UNCHANGED <<state, arcfail, file, openVars, attached, spoiled>>

Next ==
  \/ \E a \in Archives : AttachPath(a) \/ AttachBuffer(a)
  \/ Detach
  \/ \E path \in Paths : Get(path) \/ LoadFromArchive(path)
  \/ PackStep

Spec == Init /\ [][Next]_vars

-----------------------------------------------------------------------------
(* Properties *)

\* While an archive is attached, and nobody has begun to write over it, the
\* stream reads that archive, it was finished when it was opened, and the
\* directory is its own: never the one of an archive attached before
\* (get.cpp, attachArchive; archive.cpp, open).
AttachedIsWhole ==
  IsArchiveAttached /\ ~rewritten =>
    streamOpen /\ Source = attached /\ disk[attached] = Whole(fstruct)

Answers == answer # NoAnswer

\* One name of a path, on a tree that has all of them.
Climb(node, name) ==
  IF name # Up THEN Append(node, name)
  ELSE IF node = <<>> THEN <<Up>>
  ELSE Front(node)

\* Where the first n names of a path lead, on that tree.
Normal(path) ==
  LET at[n \in 0 .. Len(path)] ==
        IF n = 0 THEN <<>> ELSE Climb(at[n - 1], path[n])
  IN at

\* The path names the file e of the listing, through folders that it has.
Names(listing, path, e) ==
  LET at == Normal(path)
  IN /\ at[Len(path)] = e
     /\ e \in DOMAIN listing
     /\ \A n \in 0 .. Len(path) - 1 : at[n] \in Nodes(listing) \ DOMAIN listing

\* A path whose folders exist is answered with the file it names, of the
\* archive attached last: ".." leads back to where the path came from (archive.cpp,
\* getFileEntryLocation).
ServesAskedFile ==
  Answers /\ answer.from = "archive" /\ ~rewritten =>
    /\ answer.source = attached
    /\ \A e \in DOMAIN fstruct.tree :
         Names(fstruct.tree, ChildPath(answer.path), e) => answer.entry = e

\* A file in the folder is found by get...(), whatever has become of the
\* archive, except where the open archive throws what is no FileLoadError
\* (get.cpp, getText): its directory is no JSON object; or the entry that the
\* path leads to has a bad address, or, on a stream that has not failed, bytes
\* that cannot be read, which those written over them may always be.
FolderBacks ==
  Answers /\ answer.backed /\ answer.from \notin {"archive", "folder"} =>
    /\ IsArchiveAttached
    /\ \/ ~fstruct.object
       \/ /\ answer.entry # None
          /\ \/ fstruct.tree[answer.entry] = "misaddressed"
             \/ ~failed /\ (rewritten \/ fstruct.tree[answer.entry] = "unreadable")

\* An attached archive serves each good entry, however many attachments failed
\* before: no kept exception and no failbit of an earlier stream is in the way,
\* unless an entry of its own has failed the stream since it was attached.
ArchiveServes ==
  Answers /\ IsArchiveAttached /\ ~rewritten /\ ~spoiled =>
    \A e \in DOMAIN fstruct.tree :
      (Names(fstruct.tree, ChildPath(answer.path), e) /\ fstruct.tree[e] = "good")
        => answer.from = "archive"
=============================================================================
