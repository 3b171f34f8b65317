----------------------------- MODULE Playable -----------------------------
(***************************************************************************)
(* Makai::Audio::Playable, the base of Sound and Music: which objects      *)
(* exist (each has its callback in the static updateQueue for as long as   *)
(* it lives) and which of them hold a loaded source (the flag created).    *)
(***************************************************************************)
EXTENDS SdlMixer

VARIABLES
  updateQueue,   \* objects that live: ctor pushes &yield, dtor erases it
  created        \* objects whose create() succeeded and destroy() did not run

playableVars == <<updateQueue, created>>

Playables == Sounds \cup Musics

PlayableTypeOK ==
  /\ updateQueue \subseteq Playables
  /\ created \subseteq updateQueue

PlayableInit ==
  /\ updateQueue = {}
  /\ created = {}

Exists(p) == p \in created

\* Playable::Playable().
Construct(p) ==
  /\ p \notin updateQueue
  /\ updateQueue' = updateQueue \cup {p}
  /\ UNCHANGED created

\* Playable::~Playable().  The destructor of a loaded object calls the pure
\* virtual onDestroy() of an object that is no longer a Sound or a Music,
\* and the process aborts: that program takes no further step.
Destruct(p) ==
  /\ p \in updateQueue
  /\ ~Exists(p)
  /\ updateQueue' = updateQueue \ {p}
  /\ UNCHANGED created

\* Playable::create().  onCreate() of both classes throws when the device is
\* closed, and then the object stays unloaded.
Create(p) ==
  /\ p \in updateQueue
  /\ ~Exists(p)
  /\ audioOpen
  /\ created' = created \cup {p}
  /\ UNCHANGED updateQueue

\* Playable::destroy(), after the class's own onDestroy().
Unload(p) ==
  /\ Exists(p)
  /\ created' = created \ {p}
  /\ UNCHANGED updateQueue
=============================================================================
