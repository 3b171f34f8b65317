------------------------------- MODULE Tween -------------------------------
(***************************************************************************)
(* Tweening::Tween of ctl/legacy/tween.hpp: a value that is moved from     *)
(* from to to in stop steps, one in each cycle of the main loop.           *)
(*                                                                         *)
(* Values matter only by where they lie on the way, so place stands for    *)
(* *target, and flat for from = to.  The easing is the default, linear     *)
(* one, which keeps what is beyond the end beyond it.                      *)
(***************************************************************************)
EXTENDS Tweening

VARIABLES
  flat,        \* from = to
  place,       \* where *target lies
  stop,
  replayed,    \* history: play() was called since the last interpolation
  owed         \* history: how often onCompleted may still fire, once for
               \* each start that was not ended by the program

vars == <<flat, place, step, stop, paused, isFinished, calls, replayed, owed>>

Places == {"from", "between", "to", "beyond", "elsewhere"}

TypeOK ==
  /\ flat \in BOOLEAN
  /\ place \in Places
  /\ step \in Nat
  /\ stop \in Nat
  /\ paused \in BOOLEAN
  /\ isFinished \in BOOLEAN
  /\ calls \in 0 .. MaxCalls
  /\ replayed \in BOOLEAN
  /\ owed \in Int

\* from, which is to as well when the way is flat.
Start(f) == IF f THEN "to" ELSE "from"

\* A constructor, by way of setInterpolation().
Init ==
  /\ flat \in BOOLEAN
  /\ place = Start(flat)
  /\ step = 0
  /\ stop \in StepCounts
  /\ paused = FALSE
  /\ isFinished = FALSE
  /\ calls = 0
  /\ replayed = FALSE
  /\ owed = 1

\* Where lerp puts the target at step n > 0; n / 0 is infinite.
LerpPlace(n) ==
  IF flat \/ n = stop THEN "to" ELSE IF n < stop THEN "between" ELSE "beyond"

Clamped(n) == IF n > stop THEN stop ELSE n

-----------------------------------------------------------------------------
(* yield() *)

\* Mutant of yield(): done when the step has passed the last.
MutAdvance(n) ==
  /\ isFinished' = (n > stop)
  /\ place' = LerpPlace(n + 1)
  /\ step' = Clamped(n + 1)
  /\ owed' = IF n > stop THEN owed - 1 ELSE owed

\* What yield() does with step at n.  onCompleted() comes last.
Advance(n) ==
  /\ isFinished' = (n >= stop)
  /\ place' = LerpPlace(n + 1)
  /\ step' = Clamped(n + 1)
  /\ owed' = IF n >= stop THEN owed - 1 ELSE owed

\* yield(), from PeriodicEvent::process() or from the program.
Yield ==
  /\ Active
  /\ Advance(step)
  /\ UNCHANGED <<flat, stop, paused, calls, replayed>>

-----------------------------------------------------------------------------
(* The program's calls *)

\* setInterpolation(), which keeps a paused Tween paused.
SetInterpolation(n) ==
  /\ ProgramCalls
  /\ flat' \in BOOLEAN
  /\ place' = Start(flat')
  /\ step' = 0
  /\ stop' = n
  /\ isFinished' = FALSE
  /\ replayed' = FALSE
  /\ owed' = IF isFinished THEN owed + 1 ELSE owed
  /\ UNCHANGED paused

\* reinterpolate() and reinterpolateTo().  Without a step count they take the
\* step that the Tween has reached for one.
Reinterpolate(n) ==
  /\ ProgramCalls
  /\ flat' \in BOOLEAN
  /\ place' = Start(flat')
  /\ step' = 0
  /\ stop' = n
  /\ isFinished' = FALSE
  /\ paused' = FALSE
  /\ replayed' = FALSE
  /\ owed' = IF isFinished THEN owed + 1 ELSE owed

\* setStep() yields as well.
SetStep(n) ==
  /\ ProgramCalls
  /\ IF Active THEN Advance(Clamped(n))
     ELSE step' = Clamped(n) /\ UNCHANGED <<place, isFinished, owed>>
  /\ UNCHANGED <<flat, stop, paused, replayed>>

SetStepCount(n) ==
  /\ ProgramCalls
  /\ stop' = n
  /\ UNCHANGED <<flat, place, step, paused, isFinished, replayed, owed>>

\* setTarget() to another variable; clearTarget() keeps the value.
SetTarget ==
  /\ ProgramCalls
  /\ place' = "elsewhere"
  /\ UNCHANGED <<flat, step, stop, paused, isFinished, replayed, owed>>

Conclude ==
  /\ ProgramCalls
  /\ place' = "to"
  /\ step' = stop
  /\ isFinished' = TRUE
  /\ owed' = IF isFinished THEN owed ELSE owed - 1
  /\ UNCHANGED <<flat, stop, paused, replayed>>

Play ==
  /\ ProgramCalls
  /\ paused' = FALSE
  /\ isFinished' = FALSE
  /\ replayed' = TRUE
  /\ owed' = IF isFinished THEN owed + 1 ELSE owed
  /\ UNCHANGED <<flat, place, step, stop>>

Pause ==
  /\ ProgramCalls
  /\ paused' = TRUE
  /\ UNCHANGED <<flat, place, step, stop, isFinished, replayed, owed>>

Halt ==
  /\ ProgramCalls
  /\ isFinished' = TRUE
  /\ owed' = IF isFinished THEN owed ELSE owed - 1
  /\ UNCHANGED <<flat, place, step, stop, paused, replayed>>

\* The copy constructor: the copy takes over, with the step that was reached
\* for its step count.  It starts at from when it has no target of the
\* program's to share.
Copy ==
  /\ ProgramCalls
  /\ step' = 0
  /\ stop' = step
  /\ place' \in {place, Start(flat)}
  /\ UNCHANGED <<flat, paused, isFinished, replayed, owed>>

-----------------------------------------------------------------------------

Next ==
  \/ Yield
  \/ \E n \in StepCounts \cup {step} : SetInterpolation(n) \/ Reinterpolate(n)
  \/ \E n \in StepCounts : SetStep(n) \/ SetStepCount(n)
  \/ SetTarget
  \/ Conclude
  \/ Play
  \/ Pause
  \/ Halt
  \/ Copy

Spec == Init /\ [][Next]_vars

-----------------------------------------------------------------------------
(* Properties *)

\* However the step, the step count and the way are changed under way, the
\* target is never moved beyond the end before the Tween is done; play() of a
\* finished Tween apart, which does not take it back.
NeverBeyondUnderWay == place = "beyond" => isFinished \/ replayed

\* onCompleted fires at most once for each start: never again after it did,
\* nor after conclude() or halt().
CompletesOnce == owed >= 0

-----------------------------------------------------------------------------
(* Statements of the documentation that the code does not keep *)

\* tween.hpp on to: "The tween's target value."  A Tween that completes ends
\* there.
CompletesAtTarget ==
  [][(Yield \/ \E n \in StepCounts : SetStep(n)) /\ ~isFinished /\ isFinished'
       => place' = "to"]_vars

\* tween.hpp on setStep(): "Sets the current tween step."
SetStepSets == [][\A n \in StepCounts : SetStep(n) /\ n < stop => step' = n]_vars
=============================================================================
