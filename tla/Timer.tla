------------------------------- MODULE Timer -------------------------------
(***************************************************************************)
(* Event::Timer and the registry of its base class PeriodicEvent, of       *)
(* ctl/legacy/event.hpp.                                                   *)
(*                                                                         *)
(* process() walks over the registry, a vector of pointers, once in every  *)
(* cycle of the main loop, and yields each automatic Timer.  A Timer that  *)
(* is due calls its signal in the middle of the walk, and the signal is    *)
(* the program's own code: it may start and stop Timers, destroy them, or  *)
(* make new ones, which shifts or reallocates the vector under the walk.   *)
(***************************************************************************)
EXTENDS Integers, Vector

CONSTANTS
  Timers,      \* places in memory where a Timer can live
  Delays,      \* the values of delay
  Loops,       \* the values of loopCount; a negative one loops for ever
  MaxCalls     \* bound on the program's calls

ASSUME DelaysAssumption == Delays \subseteq Nat
ASSUME LoopsAssumption == Loops \subseteq Nat \cup {-1}
ASSUME MaxCallsAssumption == MaxCalls \in Nat

VARIABLES
  timer,       \* the Timer at each place, None if there is none
  events,      \* PeriodicEvent::events: its block and the size in use
  walk,        \* process(): its position, its end, and the block it walks
               \* over if the vector has left it for a larger one
  firing,      \* the Timer whose onSignal() is running
  crashed,     \* the program came to harm on memory that holds no Timer
  calls,       \* how many calls the program made
  meddled,     \* history: a signal changed what it was called from, since
               \* the last walk began
  visits,      \* history: how often the walk yielded each Timer
  stayed,      \* history: Timers registered since before the walk
  owed         \* history: the firings that the program asked of each Timer
               \* that does not loop for ever, less those it has had

vars == <<timer, events, walk, firing, crashed, calls, meddled, visits,
          stayed, owed>>

NoWalk == [pos |-> 0, end |-> 0, freed |-> <<>>]

TimerObject ==
  [manual : BOOLEAN, paused : BOOLEAN, repeat : BOOLEAN, isFinished : BOOLEAN,
   delay : Nat, loopCount : Nat \cup {-1}, counter : Nat]

ASSUME NoneAssumption == None \notin Timers \cup TimerObject

Lives(t) == timer[t] # None

Automatic == {t \in Timers : Lives(t) /\ ~timer[t].manual}

Running(t) == Lives(t) /\ ~timer[t].isFinished /\ ~timer[t].paused

Due(t) == Running(t) /\ timer[t].counter >= timer[t].delay

Walking == walk # NoWalk

\* The slots that process() reads.
Walked == IF walk.freed = <<>> THEN events.block ELSE walk.freed

TypeOK ==
  /\ timer \in [Timers -> TimerObject \cup {None}]
  /\ events \in Vectors(Timers \cup {None})
  /\ walk \in [pos : Nat, end : Nat, freed : Seq(Timers \cup {None})]
  /\ walk.end <= Len(Walked)
  /\ firing \in Timers \cup {None}
  /\ crashed \in BOOLEAN
  /\ calls \in 0 .. MaxCalls
  /\ meddled \in BOOLEAN
  /\ visits \in [Timers -> Nat]
  /\ stayed \subseteq Timers
  /\ owed \in [Timers -> Int]

Init ==
  /\ timer = [t \in Timers |-> None]
  /\ events = Empty
  /\ walk = NoWalk
  /\ firing = None
  /\ crashed = FALSE
  /\ calls = 0
  /\ meddled = FALSE
  /\ visits = [t \in Timers |-> 0]
  /\ stayed = {}
  /\ owed = [t \in Timers |-> 0]

-----------------------------------------------------------------------------
(* The registry *)

\* The registry becomes r.  A walk over a block that was left goes on there.
Registry(r) ==
  /\ events' = r
  /\ walk' = IF Walking /\ walk.freed = <<>> /\ Len(r.block) # Len(events.block)
               THEN [walk EXCEPT !.freed = events.block] ELSE walk
  /\ meddled' = (meddled \/ Walking)

SameRegistry == UNCHANGED <<events, walk, meddled, stayed>>

-----------------------------------------------------------------------------
(* The program's calls, outside of process() and inside a signal *)

ProgramCalls ==
  /\ ~crashed
  /\ Walking => firing # None
  /\ calls < MaxCalls
  /\ calls' = calls + 1

Forever(o) == o.repeat /\ o.loopCount < 0

\* How often the Timer o is still asked to fire, unless that is for ever.
Asked(o) ==
  (IF o.repeat /\ ~Forever(o) THEN o.loopCount ELSE 0)
    + (IF o.isFinished THEN 0 ELSE 1)

\* A Timer is constructed at t and its loopCount assigned.
Construct(t, d, r, l, manual) ==
  /\ ProgramCalls
  /\ ~Lives(t)
  /\ timer' = [timer EXCEPT ![t] =
       [manual |-> manual, paused |-> FALSE, repeat |-> r, isFinished |-> FALSE,
        delay |-> d, loopCount |-> l, counter |-> 0]]
  /\ IF manual THEN SameRegistry
     ELSE Registry(Push(events, t)) /\ UNCHANGED stayed
  /\ owed' = [owed EXCEPT ![t] = Asked(timer'[t])]
  /\ UNCHANGED <<firing, crashed, visits>>

\* Mutant of the copy constructor: the source becomes manual and stays in the registry.
MutCopy(t, s) ==
  /\ ProgramCalls
  /\ ~Lives(t) /\ Lives(s)
  /\ timer' = [timer EXCEPT ![t] = timer[s], ![s].manual = TRUE]
  /\ IF timer[s].manual THEN SameRegistry
     ELSE Registry(Push(events, t)) /\ UNCHANGED stayed
  /\ owed' = [owed EXCEPT ![t] = Asked(timer[s])]
  /\ UNCHANGED <<firing, crashed, visits>>

\* The copy constructor: t takes over from s, which becomes manual.
Copy(t, s) ==
  /\ ProgramCalls
  /\ ~Lives(t) /\ Lives(s)
  /\ timer' = [timer EXCEPT ![t] = timer[s], ![s].manual = TRUE]
  /\ IF timer[s].manual THEN SameRegistry
     ELSE /\ Registry(Erase(Push(events, t), s))
          /\ stayed' = stayed \ {s}
  /\ owed' = [owed EXCEPT ![t] = Asked(timer[s])]
  /\ UNCHANGED <<firing, crashed, visits>>

\* t's destructor; a signal may destroy the Timer that called it.
Destroy(t) ==
  /\ ProgramCalls
  /\ Lives(t)
  /\ timer' = [timer EXCEPT ![t] = None]
  /\ events' = IF timer[t].manual THEN events ELSE Erase(events, t)
  /\ stayed' = stayed \ {t}
  /\ meddled' = (meddled \/ firing = t \/ (Walking /\ ~timer[t].manual))
  /\ UNCHANGED <<walk, firing, crashed, visits, owed>>

\* setManual() and setAutomatic().
SetManual(t) ==
  /\ ProgramCalls
  /\ t \in Automatic
  /\ timer' = [timer EXCEPT ![t].manual = TRUE]
  /\ Registry(Erase(events, t))
  /\ stayed' = stayed \ {t}
  /\ UNCHANGED <<firing, crashed, visits, owed>>

SetAutomatic(t) ==
  /\ ProgramCalls
  /\ Lives(t) /\ timer[t].manual
  /\ timer' = [timer EXCEPT ![t].manual = FALSE]
  /\ Registry(Push(events, t))
  /\ UNCHANGED <<firing, crashed, visits, stayed, owed>>

\* start() and start(time).
Start(t, d) ==
  /\ ProgramCalls
  /\ Lives(t)
  /\ timer' = [timer EXCEPT ![t].counter = 0, ![t].delay = d, ![t].isFinished = FALSE]
  /\ owed' = [owed EXCEPT ![t] = IF timer[t].isFinished THEN @ + 1 ELSE @]
  /\ SameRegistry
  /\ UNCHANGED <<firing, crashed, visits>>

\* A member function that assigns one field.
Assign(t, field, value) ==
  /\ ProgramCalls
  /\ Lives(t)
  /\ timer' = [timer EXCEPT ![t][field] = value]
  /\ SameRegistry
  /\ UNCHANGED <<firing, crashed, visits, owed>>

Reset(t) == Assign(t, "counter", 0)
Stop(t) == Assign(t, "isFinished", TRUE)

\* play() pauses, and pause() lets it play.
Play(t) == Assign(t, "paused", TRUE)
Pause(t) == Assign(t, "paused", FALSE)

-----------------------------------------------------------------------------
(* yield() and process() *)

\* Mutant of yield(): the loops that are left do not matter.
MutFires(t) ==
  /\ timer' = [timer EXCEPT ![t] =
       IF @.repeat THEN [@ EXCEPT !.counter = 0]
       ELSE [@ EXCEPT !.isFinished = TRUE]]
  /\ firing' = t
  /\ owed' = [owed EXCEPT ![t] = IF Forever(timer[t]) THEN @ ELSE @ - 1]

\* yield() of a Timer that is due, up to onSignal().
Fires(t) ==
  /\ timer' = [timer EXCEPT ![t] =
       IF @.repeat /\ @.loopCount # 0 THEN [@ EXCEPT !.counter = 0]
       ELSE [@ EXCEPT !.isFinished = TRUE]]
  /\ firing' = t
  /\ owed' = [owed EXCEPT ![t] = IF Forever(timer[t]) THEN @ ELSE @ - 1]

\* Mutant of yield(): a paused Timer goes on counting, others do not.
MutCounts(t) ==
  /\ timer' = [timer EXCEPT ![t].counter = IF timer[t].paused THEN @ + 1 ELSE @]
  /\ UNCHANGED <<firing, owed>>

\* yield() of any other.
Counts(t) ==
  /\ timer' = [timer EXCEPT ![t].counter = IF Running(t) THEN @ + 1 ELSE @]
  /\ UNCHANGED <<firing, owed>>

\* The program yields a Timer itself.
Yield(t) ==
  /\ ProgramCalls
  /\ firing = None
  /\ Lives(t)
  /\ IF Due(t) THEN Fires(t) ELSE Counts(t)
  /\ SameRegistry
  /\ UNCHANGED <<crashed, visits>>

\* The rest of yield() once onSignal() returned.  The Timer may be gone, and
\* then the memory is written all the same.
SignalReturns ==
  /\ firing # None
  /\ ~crashed
  /\ IF Lives(firing)
       THEN /\ timer' = [timer EXCEPT
                 ![firing].loopCount = IF @ > 0 THEN @ - 1 ELSE @,
                 ![firing].counter = @ + 1]
            /\ UNCHANGED crashed
       ELSE crashed' \in BOOLEAN /\ UNCHANGED timer
  /\ firing' = None
  /\ walk' = IF Walking THEN [walk EXCEPT !.pos = @ + 1] ELSE walk
  /\ UNCHANGED <<events, calls, meddled, visits, stayed, owed>>

\* process() with something to yield: begin() and end() are taken once.
StartWalk ==
  /\ ~Walking
  /\ firing = None
  /\ ~crashed
  /\ events.size > 0
  /\ walk' = [pos |-> 1, end |-> events.size, freed |-> <<>>]
  /\ meddled' = FALSE
  /\ stayed' = Automatic
  /\ UNCHANGED <<timer, events, firing, crashed, calls, visits, owed>>

\* One turn of the loop.  A slot of a freed block, and a slot whose Timer was
\* destroyed, give what they held or end the program.
Turn ==
  /\ Walking
  /\ firing = None
  /\ ~crashed
  /\ walk.pos <= walk.end
  /\ LET t == Walked[walk.pos]
     IN /\ IF ~Lives(t) THEN UNCHANGED <<timer, firing, owed>>
           ELSE IF Due(t) THEN Fires(t)
           ELSE Counts(t)
        /\ IF Lives(t) /\ walk.freed = <<>> THEN UNCHANGED crashed
           ELSE crashed' \in BOOLEAN
        /\ visits' = [visits EXCEPT ![t] = @ + 1]
  /\ walk' = IF firing' = None THEN [walk EXCEPT !.pos = @ + 1] ELSE walk
  /\ UNCHANGED <<events, calls, meddled, stayed>>

EndWalk ==
  /\ Walking
  /\ firing = None
  /\ ~crashed
  /\ walk.pos > walk.end
  /\ walk' = NoWalk
  /\ meddled' = FALSE
  /\ visits' = [t \in Timers |-> 0]
  /\ stayed' = {}
  /\ UNCHANGED <<timer, events, firing, crashed, calls, owed>>

-----------------------------------------------------------------------------

Process ==
  \/ StartWalk
  \/ Turn
  \/ SignalReturns
  \/ EndWalk

Program ==
  \E t \in Timers :
    \/ \E d \in Delays : \/ \E r, m \in BOOLEAN, l \in Loops : Construct(t, d, r, l, m)
                         \/ Start(t, d)
    \/ \E s \in Timers : Copy(t, s)
    \/ Destroy(t)
    \/ SetManual(t)
    \/ SetAutomatic(t)
    \/ Reset(t)
    \/ Stop(t)
    \/ Play(t)
    \/ Pause(t)
    \/ Yield(t)

Next == Process \/ Program

Spec == Init /\ [][Next]_vars

\* The main loop keeps calling process(), and signals return.
FairSpec == Spec /\ WF_vars(Process)

-----------------------------------------------------------------------------
(* Properties *)

\* The registry holds each automatic Timer exactly once and nothing else, in
\* whatever order Timers are made, copied, switched and destroyed: so it never
\* points to a Timer that is gone.
RegisteredOnce ==
  \A t \in Timers :
    Cardinality({i \in 1 .. events.size : events.block[i] = t})
      = IF t \in Automatic THEN 1 ELSE 0

\* A walk whose signals left the registry alone yields every automatic Timer
\* once and no other.
QuietWalkYieldsAll ==
  (Walking /\ walk.pos > walk.end /\ ~meddled) =>
    \A t \in Timers : visits[t] = IF t \in Automatic THEN 1 ELSE 0

\* The program can only come to harm in a walk, or a yield(), whose signal
\* changed the registry or destroyed its own Timer.
HarmOnlyByMeddling == crashed => meddled

\* A Timer fires no more often than the program asked: once, or its loopCount
\* and once more, and again for each start() of a finished Timer, whatever
\* its signal does to it.
FiresAsAsked ==
  \A t \in Timers : Lives(t) /\ ~Forever(timer[t]) => owed[t] >= 0

\* A Timer that is running and automatic fires, unless the program stops,
\* pauses or removes it, once the program's calls come to an end.
RunningFires ==
  \A t \in Timers :
    (t \in Automatic /\ Running(t))
      ~> (firing = t \/ t \notin Automatic \/ ~Running(t) \/ crashed)

-----------------------------------------------------------------------------
(* Statements of the documentation that the code does not keep *)

\* event.hpp on process(): "Yields all available non-manual periodic events."
YieldsAll ==
  (Walking /\ walk.pos > walk.end) => \A t \in stayed : visits[t] > 0

\* event.hpp on play(): "Unpauses the timer."
PlayUnpauses == [][\A t \in Timers : Play(t) => ~timer'[t].paused]_vars
=============================================================================
