----------------------------- MODULE Tweening -----------------------------
(***************************************************************************)
(* What Tween and TweenChain of ctl/legacy/tween.hpp have in common: the   *)
(* step of a Stepable, the flags of a Playable, and the program that calls *)
(* them.                                                                   *)
(***************************************************************************)
EXTENDS Integers

CONSTANTS
  StepCounts,  \* the steps and step counts that the program asks for
  MaxCalls     \* bound on the program's calls

ASSUME StepCountsAssumption == StepCounts \subseteq Nat
ASSUME MaxCallsAssumption == MaxCalls \in Nat

VARIABLES
  step,
  paused,
  isFinished,
  calls        \* how many calls the program made

\* Mutant of yield(): what is finished goes on.
MutActive == ~paused

\* yield() does nothing else but when this holds.
Active == ~paused /\ ~isFinished

ProgramCalls == calls < MaxCalls /\ calls' = calls + 1
=============================================================================
