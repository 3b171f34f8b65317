----------------------------- MODULE TweenChain -----------------------------
(***************************************************************************)
(* Tweening::TweenChain of ctl/legacy/tween.hpp: stages that run one after *)
(* the other, each with its own step count and its own onCompleted.        *)
(*                                                                         *)
(* A stage's onCompleted is called in the middle of yield(), before it is  *)
(* decided what comes next: inSignal marks that the program's code runs    *)
(* there.  The chain's own onCompleted is the last thing that yield()      *)
(* does, and what the program calls from it comes after the yield.         *)
(***************************************************************************)
EXTENDS Tweening, Sequences

CONSTANTS
  StageLists,  \* lists of stages, each a sequence of step counts
  UsizeMod     \* 2 to the width of usize

ASSUME StageListsAssumption ==
  \A l \in StageLists : l \in Seq(0 .. UsizeMod - 1) /\ l # <<>>
ASSUME UsizesAssumption == StepCounts \subseteq 0 .. UsizeMod - 1
ASSUME UsizeModAssumption == UsizeMod \in Nat \ {0}

VARIABLES
  stages,
  stage,       \* the index after the current stage's, counted from 0
  current,     \* the stage that current is a copy of, counted from 1
  value,       \* *target: the stage that moved it last, and whether to its end
  inSignal,    \* current.onCompleted() is running
  fires,       \* history: the stages whose onCompleted fired since start()
  completed,   \* history: the chain's onCompleted fired since start()
  steered      \* history: since start(), setStage() or play() after completion,
               \* or a start() from a stage's onCompleted

chainVars == <<stages, stage, current, step, paused, isFinished, value,
               inSignal, calls, fires, completed, steered>>

control == <<stages, stage, current, step, value>>
history == <<fires, completed, steered>>

ChainPlaces == {"from", "between", "to", "beyond"}

ChainTypeOK ==
  /\ stages \in StageLists
  /\ stage \in 0 .. Len(stages)
  /\ current \in 1 .. Len(stages)
  /\ step \in 0 .. UsizeMod - 1
  /\ paused \in BOOLEAN
  /\ isFinished \in BOOLEAN
  /\ value \in [stage : Nat, place : ChainPlaces]
  /\ inSignal \in BOOLEAN
  /\ calls \in 0 .. MaxCalls
  /\ fires \in Seq(Nat)
  /\ completed \in BOOLEAN
  /\ steered \in BOOLEAN

\* The constructor, by way of start().  The target is the program's.
ChainInit ==
  /\ stages \in StageLists
  /\ stage = 1
  /\ current = 1
  /\ step = 0
  /\ paused = FALSE
  /\ isFinished = FALSE
  /\ value = [stage |-> 1, place |-> "from"]
  /\ inSignal = FALSE
  /\ calls = 0
  /\ fires = <<>>
  /\ completed = FALSE
  /\ steered = FALSE

\* Mutant of yield(): a stage is done once the step is past its last.
MutStageDone(n) == n > stages[current]

\* The current stage is done when step is at n.
StageDone(n) == n >= stages[current]

-----------------------------------------------------------------------------
(* yield() *)

\* One step of stage c from step n on.
AdvanceStage(c, n) ==
  /\ step' = IF n + 1 > stages[c] THEN stages[c] ELSE n + 1
  /\ value' = [stage |-> c,
               place |-> IF n + 1 < stages[c] THEN "between"
                         ELSE IF n + 1 = stages[c] THEN "to" ELSE "beyond"]

\* yield() with step at n, up to the current stage's onCompleted() if it is
\* done, to its end if not.
YieldAt(n) ==
  IF Active /\ StageDone(n)
    THEN /\ step' = n
         /\ inSignal' = TRUE
         /\ fires' = Append(fires, current)
         /\ UNCHANGED value
    ELSE /\ IF Active THEN AdvanceStage(current, n)
            ELSE step' = n /\ UNCHANGED value
         /\ UNCHANGED <<inSignal, fires>>

ChainYield ==
  /\ ~inSignal
  /\ Active
  /\ YieldAt(step)
  /\ UNCHANGED <<stages, stage, current, paused, isFinished, calls, completed, steered>>

\* Mutant of yield(): the number of the next stage is not advanced.
MutSignalReturns ==
  /\ inSignal
  /\ inSignal' = FALSE
  /\ isFinished' = (stage >= Len(stages))
  /\ current' = IF isFinished' THEN current ELSE stage + 1
  /\ AdvanceStage(current', IF isFinished' THEN step ELSE 0)
  /\ completed' = (completed \/ isFinished')
  /\ UNCHANGED <<stages, stage, paused, calls, fires, steered>>

\* Mutant of yield(): the last stage is left out.
MutLastStage ==
  /\ inSignal
  /\ inSignal' = FALSE
  /\ isFinished' = (stage + 1 >= Len(stages))
  /\ IF isFinished' THEN UNCHANGED <<stage, current>>
     ELSE current' = stage + 1 /\ stage' = stage + 1
  /\ AdvanceStage(current', IF isFinished' THEN step ELSE 0)
  /\ completed' = (completed \/ isFinished')
  /\ UNCHANGED <<stages, paused, calls, fires, steered>>

\* The rest of yield() once the stage's onCompleted() returned.
SignalReturns ==
  /\ inSignal
  /\ inSignal' = FALSE
  /\ isFinished' = (stage >= Len(stages))
  /\ IF isFinished' THEN UNCHANGED <<stage, current>>
     ELSE current' = stage + 1 /\ stage' = stage + 1
  /\ AdvanceStage(current', IF isFinished' THEN step ELSE 0)
  /\ completed' = (completed \/ isFinished')
  /\ UNCHANGED <<stages, paused, calls, fires, steered>>

-----------------------------------------------------------------------------
(* The program's calls; those that yield are made outside of a signal *)

\* setInterpolation(), and start() when the stages stay the same.
StartChain(list) ==
  /\ ProgramCalls
  /\ stages' = list
  /\ stage' = 1
  /\ current' = 1
  /\ step' = 0
  /\ paused' = FALSE
  /\ isFinished' = FALSE
  /\ fires' = <<>>
  /\ completed' = FALSE
  /\ steered' = inSignal
  /\ UNCHANGED <<value, inSignal>>

\* setStep(), in the arithmetic of usize.
ChainSetStep(n) ==
  /\ ProgramCalls
  /\ ~inSignal
  /\ LET before == (n + UsizeMod - 1) % UsizeMod
     IN YieldAt(IF before > stages[current] THEN stages[current] ELSE before)
  /\ UNCHANGED <<stages, stage, current, paused, isFinished, completed, steered>>

\* setStage() says what comes after the current stage.
SetStage(n) ==
  /\ ProgramCalls
  /\ ~inSignal
  /\ stage' = IF n >= Len(stages) THEN Len(stages) ELSE n
  /\ YieldAt(step)
  /\ steered' = TRUE
  /\ UNCHANGED <<stages, current, paused, isFinished, completed>>

ChainPlay ==
  /\ ProgramCalls
  /\ paused' = FALSE
  /\ isFinished' = FALSE
  /\ steered' = (steered \/ completed)
  /\ UNCHANGED <<control, inSignal, fires, completed>>

ChainPause ==
  /\ ProgramCalls
  /\ paused' = TRUE
  /\ UNCHANGED <<control, isFinished, inSignal, history>>

ChainHalt ==
  /\ ProgramCalls
  /\ isFinished' = TRUE
  /\ UNCHANGED <<control, paused, inSignal, history>>

\* conclude() goes to the end of the first stage.
ChainConclude ==
  /\ ProgramCalls
  /\ value' = [stage |-> 1, place |-> "to"]
  /\ step' = stages[1]
  /\ isFinished' = TRUE
  /\ UNCHANGED <<stages, stage, current, paused, inSignal, history>>

-----------------------------------------------------------------------------

ChainNext ==
  \/ ChainYield
  \/ SignalReturns
  \/ \E l \in StageLists : StartChain(l)
  \/ \E n \in StepCounts : ChainSetStep(n)
  \/ \E n \in 0 .. Len(stages) + 1 : SetStage(n)
  \/ ChainPlay
  \/ ChainPause
  \/ ChainHalt
  \/ ChainConclude

ChainSpec == ChainInit /\ [][ChainNext]_chainVars

\* The main loop keeps yielding the chain, and signals return.
FairChainSpec ==
  ChainSpec /\ WF_chainVars(ChainYield) /\ WF_chainVars(SignalReturns)

-----------------------------------------------------------------------------
(* Properties *)

\* Unless the program itself steers the chain to another stage, the stages
\* complete in their order, none is left out and none completes twice,
\* whatever is set, paused, halted and concluded under way.
StagesInOrder == ~steered => fires = [i \in 1 .. Len(fires) |-> i]

\* The chain's onCompleted fires after all of its stages'.
CompletedAfterAll ==
  (completed /\ ~steered) => Len(fires) = Len(stages) /\ isFinished

\* A chain that is neither paused nor finished comes to its end once the
\* program's calls do.
ActiveEnds == Active ~> ~Active

-----------------------------------------------------------------------------
(* Statements of the documentation that the code does not keep *)

\* tween.hpp on halt(): "Halts the tween's execution."
HaltHalts ==
  [][isFinished /\ ~isFinished'
       => ChainPlay \/ \E l \in StageLists : StartChain(l)]_chainVars

\* tween.hpp on conclude(): "sets it to its end value".
ConcludesAtEnd ==
  [][ChainConclude => value' = [stage |-> Len(stages), place |-> "to"]]_chainVars

\* tween.hpp on setStep(): "Sets the current tween step."  Setting a step does
\* not complete the stage it is in.
SetStepStays ==
  [][\A n \in StepCounts :
       ChainSetStep(n) /\ n < stages[current] => fires' = fires]_chainVars
=============================================================================
