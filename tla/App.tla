-------------------------------- MODULE App --------------------------------
(***************************************************************************)
(* Makai::App (core/app.cpp): the life of an application from its          *)
(* constructor to its destructor, the main loop of run(), and the process- *)
(* wide things an App owns while it lives: the pointer mainApp, SDL, the   *)
(* audio device and its own frame buffers.                                 *)
(*                                                                         *)
(* Everything happens on the main thread.  What makes it hard is that the  *)
(* program's own code runs in the middle of it, in the virtual callbacks:  *)
(* place says which part of run() the thread is in, and at every callback  *)
(* the program may close the App, ask for the close button, throw, or      *)
(* return.  SDL events arrive between any two steps.                       *)
(***************************************************************************)
EXTENDS Naturals, Sequences

CONSTANTS
  Apps,        \* App objects, one after the other
  NoApp,       \* the null pointer
  MaxEvents    \* bound on the events that wait to be polled

ASSUME NoAppAssumption == NoApp \notin Apps
ASSUME MaxEventsAssumption == MaxEvents \in Nat

VARIABLES
  state,      \* App::state, "absent" while there is no object
  mainApp,    \* App* mainApp
  sdlOpen,    \* SDL is initialised
  audioOpen,  \* audioOpen of audio/core.cpp
  buffers,    \* Apps whose framebuffer and layerbuffer exist
  runner,     \* the App whose run() is on the stack
  place,      \* where run() is
  due,        \* the branches of the loop body whose time has come
  events,     \* SDL's event queue
  pressed,    \* history: the user pressed the close button
  told,       \* the last answer of closeButtonPressed()
  finalized   \* history: Apps that finalize() has shut down

vars == <<state, mainApp, sdlOpen, audioOpen, buffers, runner, place, due,
          events, pressed, told, finalized>>

lifeVars == <<mainApp, sdlOpen, audioOpen, buffers>>
userVars == <<events, pressed, told>>

AppStates == {"absent", "closed", "opening", "running", "closing"}
Callbacks == {"onOpen", "logic", "render", "onClose"}
Places == {"outside", "loop", "poll", "cycle", "frame", "shutdown"} \cup Callbacks
Branches == {"cycle", "frame"}
Events == {"quit", "other"}

TypeOK ==
  /\ state \in [Apps -> AppStates]
  /\ mainApp \in Apps \cup {NoApp}
  /\ sdlOpen \in BOOLEAN
  /\ audioOpen \in BOOLEAN
  /\ buffers \subseteq Apps
  /\ runner \in Apps \cup {NoApp}
  /\ place \in Places
  /\ (runner = NoApp) <=> (place = "outside")
  /\ due \subseteq Branches
  /\ events \in Seq(Events)
  /\ pressed \in BOOLEAN
  /\ told \in BOOLEAN
  /\ finalized \subseteq Apps

Init ==
  /\ state = [a \in Apps |-> "absent"]
  /\ mainApp = NoApp
  /\ sdlOpen = FALSE
  /\ audioOpen = FALSE
  /\ buffers = {}
  /\ runner = NoApp
  /\ place = "outside"
  /\ due = {}
  /\ events = <<>>
  /\ pressed = FALSE
  /\ told = FALSE
  /\ finalized = {}

SetState(a, s) == state' = [state EXCEPT ![a] = s]

Go(from, to) == place = from /\ place' = to

\* isAppClosing(); nothing ever assigns AS_INVALID.
IsAppClosing(a) == state[a] = "closing"

-----------------------------------------------------------------------------
(* Construction and destruction, called by the program outside of run() *)

\* Mutant of App::App(): no test for another App.
MutConstruct(a) ==
  /\ place = "outside"
  /\ state[a] = "absent"
  /\ mainApp' = a
  /\ SetState(a, "closed")
  /\ sdlOpen' = TRUE
  /\ audioOpen' = TRUE
  /\ buffers' = buffers \cup {a}
  /\ finalized' = finalized \ {a}
  /\ UNCHANGED <<runner, place, due, userVars>>

\* App::App() that succeeds.  Audio::open() does nothing to an open device.
Construct(a) ==
  /\ place = "outside"
  /\ state[a] = "absent"
  /\ mainApp = NoApp
  /\ mainApp' = a
  /\ SetState(a, "closed")
  /\ sdlOpen' = TRUE
  /\ audioOpen' = TRUE
  /\ buffers' = buffers \cup {a}
  /\ finalized' = finalized \ {a}
  /\ UNCHANGED <<runner, place, due, userVars>>

\* App::App() that throws after it has made itself mainApp: from SDL_Init,
\* from Audio::open(), or from the window or the graphics, and then with the
\* audio device open.  No destructor runs.
ConstructThrows(a) ==
  /\ place = "outside"
  /\ state[a] = "absent"
  /\ mainApp = NoApp
  /\ mainApp' = a
  /\ \/ UNCHANGED <<sdlOpen, audioOpen>>
     \/ sdlOpen' = TRUE /\ UNCHANGED audioOpen
     \/ sdlOpen' = TRUE /\ audioOpen' = TRUE
  /\ UNCHANGED <<state, buffers, runner, place, due, userVars, finalized>>

\* What finalize() shuts down once onClose() has returned.
ShutDown(a) ==
  /\ audioOpen' = FALSE
  /\ sdlOpen' = FALSE
  /\ buffers' = buffers \ {a}

\* App::~App(): finalize(), which acts on a closing App only (its onClose()
\* is App's own by now and does nothing), and the members' destructors.
Destruct(a) ==
  /\ place = "outside"
  /\ state[a] # "absent"
  /\ IF IsAppClosing(a)
       THEN ShutDown(a)
       ELSE /\ buffers' = buffers \ {a}
            /\ UNCHANGED <<sdlOpen, audioOpen>>
  /\ mainApp' = IF mainApp = a THEN NoApp ELSE mainApp
  /\ SetState(a, "absent")
  /\ UNCHANGED <<runner, place, due, userVars, finalized>>

-----------------------------------------------------------------------------
(* What the program may call between run()s and inside callbacks *)

\* The program's own code runs.
UserCode == place \in Callbacks \cup {"outside"}

\* App::close().
Close(a) ==
  /\ UserCode
  /\ state[a] # "absent"
  /\ SetState(a, "closing")
  /\ UNCHANGED <<lifeVars, runner, place, due, userVars, finalized>>

\* App::closeButtonPressed() polls one event and forgets it.  On an empty
\* queue it reads an event that was never written.
CloseButtonPressed ==
  /\ UserCode
  /\ IF events = <<>>
       THEN told' \in BOOLEAN /\ UNCHANGED events
       ELSE told' = (Head(events) = "quit") /\ events' = Tail(events)
  /\ UNCHANGED <<state, lifeVars, runner, place, due, pressed, finalized>>

\* A callback throws, and the exception leaves run().
Throw ==
  /\ place \in Callbacks
  /\ place' = "outside"
  /\ runner' = NoApp
  /\ UNCHANGED <<state, lifeVars, due, userVars, finalized>>

-----------------------------------------------------------------------------
(* run() *)

\* run() up to onOpen(), or up to the onClose() of finalize().  The loop's
\* clocks start in the future and their unsigned differences wrap, so both
\* branches are due at once.
Run(a) ==
  /\ place = "outside"
  /\ state[a] # "absent"
  /\ runner' = a
  /\ IF IsAppClosing(a)
       THEN place' = "shutdown" /\ UNCHANGED state
       ELSE place' = "onOpen" /\ SetState(a, "opening")
  /\ due' = Branches
  /\ UNCHANGED <<lifeVars, userVars, finalized>>

\* Mutant of run(): the state is not looked at again after onOpen().
MutOpened ==
  /\ Go("onOpen", "loop")
  /\ SetState(runner, "running")
  /\ UNCHANGED <<lifeVars, runner, due, userVars, finalized>>

\* onOpen() returns.
Opened ==
  /\ place = "onOpen"
  /\ IF IsAppClosing(runner)
       THEN place' = "shutdown" /\ UNCHANGED state
       ELSE place' = "loop" /\ SetState(runner, "running")
  /\ UNCHANGED <<lifeVars, runner, due, userVars, finalized>>

\* Mutant of the main loop: it runs until the App is closed.
MutLoop ==
  /\ place = "loop"
  /\ place' = IF state[runner] # "closed" THEN "poll" ELSE "shutdown"
  /\ UNCHANGED <<state, lifeVars, runner, due, userVars, finalized>>

\* The condition of the main loop.
Loop ==
  /\ place = "loop"
  /\ place' = IF state[runner] = "running" THEN "poll" ELSE "shutdown"
  /\ UNCHANGED <<state, lifeVars, runner, due, userVars, finalized>>

\* Mutant of the polling loop: one event is taken, and QUIT is passed over
\* when another event came first.
MutPoll ==
  /\ Go("poll", "cycle")
  /\ events' = <<>>
  /\ IF events # <<>> /\ Head(events) = "quit"
       THEN SetState(runner, "closing")
       ELSE UNCHANGED state
  /\ UNCHANGED <<lifeVars, runner, due, pressed, told, finalized>>

\* Every waiting event is polled.
Poll ==
  /\ Go("poll", "cycle")
  /\ events' = <<>>
  /\ IF \E i \in DOMAIN events : events[i] = "quit"
       THEN SetState(runner, "closing")
       ELSE UNCHANGED state
  /\ UNCHANGED <<lifeVars, runner, due, pressed, told, finalized>>

\* The cycle branch, with the audio, the input, the timers and onLogicFrame(),
\* and the frame branch, with render().
Branch(from, callback, to) ==
  /\ Go(from, IF from \in due THEN callback ELSE to)
  /\ due' = due \ {from}
  /\ UNCHANGED <<state, lifeVars, runner, userVars, finalized>>

Cycle == Branch("cycle", "logic", "frame")

Frame == Branch("frame", "render", "loop")

Return ==
  /\ Go("logic", "frame") \/ Go("render", "loop")
  /\ UNCHANGED <<state, lifeVars, runner, due, userVars, finalized>>

\* Mutant of finalize(): the shutdown comes before onClose().
MutFinalize ==
  /\ Go("shutdown", "onClose")
  /\ IsAppClosing(runner)
  /\ ShutDown(runner)
  /\ UNCHANGED <<state, mainApp, runner, due, userVars, finalized>>

\* finalize() up to onClose().
Finalize ==
  /\ Go("shutdown", "onClose")
  /\ IsAppClosing(runner)
  /\ UNCHANGED <<state, lifeVars, runner, due, userVars, finalized>>

\* onClose() returns, finalize() shuts down, and run() returns.
Closed ==
  /\ Go("onClose", "outside")
  /\ ShutDown(runner)
  /\ SetState(runner, "closed")
  /\ runner' = NoApp
  /\ finalized' = finalized \cup {runner}
  /\ UNCHANGED <<mainApp, due, userVars>>

-----------------------------------------------------------------------------
(* The world outside the main thread *)

\* An event arrives; while SDL is closed none does.
EventArrives(e) ==
  /\ sdlOpen
  /\ Len(events) < MaxEvents
  /\ events' = Append(events, e)
  /\ pressed' = (pressed \/ e = "quit")
  /\ UNCHANGED <<state, lifeVars, runner, place, due, told, finalized>>

\* Time passes, and a branch of the loop is due again.
Tick(b) ==
  /\ b \notin due
  /\ due' = due \cup {b}
  /\ UNCHANGED <<state, lifeVars, runner, place, userVars, finalized>>

-----------------------------------------------------------------------------

RunStep ==
  \/ Opened
  \/ Loop
  \/ Poll
  \/ Cycle
  \/ Frame
  \/ Return
  \/ Finalize
  \/ Closed

ProgramStep ==
  \/ \E a \in Apps : \/ Construct(a)
                     \/ ConstructThrows(a)
                     \/ Destruct(a)
                     \/ Close(a)
                     \/ Run(a)
  \/ CloseButtonPressed
  \/ Throw

Next ==
  \/ RunStep
  \/ ProgramStep
  \/ \E e \in Events : EventArrives(e)
  \/ \E b \in Branches : Tick(b)

\* The main thread keeps running, callbacks return, and time passes.
Fairness ==
  /\ WF_vars(RunStep)
  /\ \A b \in Branches : WF_vars(Tick(b))

Spec == Init /\ [][Next]_vars

FairSpec == Spec /\ Fairness

-----------------------------------------------------------------------------
(* Properties *)

\* Where the program's objects meet the process-wide state: an App that lives
\* is mainApp, so two of them never do (app.cpp, constructor).
MainAppLives == \A a \in Apps : state[a] # "absent" => mainApp = a

\* Every callback of run() and every step of its loop has SDL, the audio
\* device and the App's buffers to work with, onClose() included, which
\* "happens before Window is terminated" (app.hpp).  The exception is an App
\* that is run again after it was shut down: nothing opens them again.
InService ==
  runner # NoApp =>
    (sdlOpen /\ audioOpen /\ runner \in buffers) \/ runner \in finalized

\* A close request is never lost: whatever run() was about to do, a closing
\* App stays closing until it is closed or gone.
ClosingSticks ==
  [][\A a \in Apps :
       IsAppClosing(a) => state'[a] \in {"closing", "closed", "absent"}]_vars

\* run() returns after a close request, wherever in the loop it came.
CloseEndsRun == \A a \in Apps : (runner = a /\ IsAppClosing(a)) ~> (runner # a)

\* The close button of a running App closes it, unless the program took the
\* event from the queue itself and was told so.
QuitIsHeard ==
  (runner # NoApp /\ \E i \in DOMAIN events : events[i] = "quit")
    ~> (runner = NoApp \/ IsAppClosing(runner) \/ told)

-----------------------------------------------------------------------------
(* Statements of the documentation that the code does not keep *)

\* app.hpp: current() "returns null if no app is open".
NullWhenNoApp == (\A a \in Apps : state[a] = "absent") => mainApp = NoApp

\* app.hpp: running() "returns whether the application is currently running".
RunningIsRunning ==
  \A a \in Apps : state[a] \notin {"absent", "closed"} => runner = a

\* app.hpp: closeButtonPressed() "returns whether the user pressed the close
\* button".
ToldIsPressed == told => pressed
=============================================================================
