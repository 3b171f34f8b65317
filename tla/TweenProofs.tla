---------------------------- MODULE TweenProofs ----------------------------
(***************************************************************************)
(* Proofs about Tween, for any step counts, and about TweenChain, for any  *)
(* lists of stages and any width of usize; both for any bound on the       *)
(* program's calls.                                                        *)
(***************************************************************************)
EXTENDS Tween, TweenChain, SequenceTheorems, TLAPS

-----------------------------------------------------------------------------
(* Tween *)

\* owed is a count of the history; what bounds it is that it is the number of
\* starts that are not over, of which a Tween has at most one.
OneStart == owed = IF isFinished THEN 0 ELSE 1

\* The Tween is where it should be and has fired as often as it should.
IInv ==
  /\ OneStart
  /\ NeverBeyondUnderWay

\* A step of yield() from step n leaves a step, and moves the target beyond
\* the end only as it completes.
LEMMA AdvanceMoves ==
  ASSUME TypeOK, NEW n \in Nat, Advance(n)
  PROVE  /\ step' \in Nat
         /\ place' \in Places
         /\ isFinished' \in BOOLEAN
         /\ owed' \in Int
         /\ place' = "beyond" => isFinished'
<1>1. step' \in Nat
  BY DEF Advance, Clamped, TypeOK
<1>2. place' \in Places
  BY DEF Advance, LerpPlace, Places
<1>3. isFinished' \in BOOLEAN /\ owed' \in Int
  BY DEF Advance, TypeOK
<1>4. ASSUME place' = "beyond" PROVE isFinished'
  <2>1. ~(n + 1 < stop) /\ n + 1 # stop
    BY <1>4 DEF Advance, LerpPlace
  <2>2. n >= stop
    BY <2>1 DEF TypeOK
  <2> QED
    BY <2>2, Zenon DEF Advance
<1> QED
  BY <1>1, <1>2, <1>3, <1>4

\* As it completes it owes nothing more, and not before.
LEMMA AdvanceOwes ==
  ASSUME TypeOK, OneStart, ~isFinished, NEW n \in Nat, Advance(n)
  PROVE  OneStart'
<1>1. owed = 1
  BY DEF OneStart
<1>2. CASE n >= stop
  <2>1. isFinished'
    BY <1>2, Zenon DEF Advance
  <2>2. owed' = 0
    BY <1>1, <1>2 DEF Advance
  <2> QED
    BY <2>1, <2>2 DEF OneStart
<1>3. CASE ~(n >= stop)
  <2>1. ~isFinished' /\ owed' = 1
    BY <1>1, <1>3 DEF Advance
  <2> QED
    BY <2>1 DEF OneStart
<1> QED
  BY <1>2, <1>3

\* A step count that is taken for a step stays a number.
LEMMA StepsAreNumbers ==
  ASSUME TypeOK
  PROVE  /\ \A n \in StepCounts \cup {step} : n \in Nat
         /\ \A n \in StepCounts : Clamped(n) \in Nat
<1>1. \A n \in StepCounts \cup {step} : n \in Nat
  <2>1. step \in Nat
    BY DEF TypeOK
  <2> QED
    BY <2>1, StepCountsAssumption
<1>2. \A n \in Nat : Clamped(n) \in Nat
  BY DEF Clamped, TypeOK
<1> QED
  BY <1>1, <1>2, StepCountsAssumption

\* The ways start at one of the places.
LEMMA StartIsPlace == \A f \in BOOLEAN : Start(f) \in Places \ {"beyond"}
  BY DEF Start, Places

\* Every variable of the Tween keeps its type.
THEOREM TypeCorrect == Spec => []TypeOK
<1>1. Init => TypeOK
  <2> SUFFICES ASSUME Init PROVE TypeOK
    OBVIOUS
  <2>1. flat \in BOOLEAN /\ place \in Places
    BY StartIsPlace DEF Init
  <2>2. step \in Nat /\ stop \in Nat /\ calls \in 0 .. MaxCalls /\ owed \in Int
    BY StepCountsAssumption, MaxCallsAssumption DEF Init
  <2>3. {paused, isFinished, replayed} \subseteq BOOLEAN
    BY DEF Init
  <2> QED
    BY <2>1, <2>2, <2>3 DEF TypeOK
<1>2. TypeOK /\ [Next]_vars => TypeOK'
  <2> SUFFICES ASSUME TypeOK, [Next]_vars PROVE TypeOK'
    OBVIOUS
  <2>c. ASSUME ProgramCalls PROVE calls' \in 0 .. MaxCalls
    BY <2>c, MaxCallsAssumption DEF ProgramCalls, TypeOK
  <2>1. CASE Yield
    BY <2>1, AdvanceMoves DEF Yield, TypeOK
  <2>2. ASSUME NEW n \in StepCounts \cup {step},
               SetInterpolation(n) \/ Reinterpolate(n)
        PROVE  TypeOK'
    <3>1. flat' \in BOOLEAN /\ place' \in Places
      BY <2>2, StartIsPlace DEF SetInterpolation, Reinterpolate
    <3>2. stop' \in Nat /\ step' \in Nat
      BY <2>2, StepsAreNumbers DEF SetInterpolation, Reinterpolate
    <3>3. owed' \in Int /\ calls' \in 0 .. MaxCalls
      BY <2>2, <2>c DEF SetInterpolation, Reinterpolate, TypeOK
    <3> QED
      BY <2>2, <3>1, <3>2, <3>3 DEF SetInterpolation, Reinterpolate, TypeOK
  <2>3. ASSUME NEW n \in StepCounts, SetStep(n) PROVE TypeOK'
    <3>1. Clamped(n) \in Nat
      BY StepsAreNumbers
    <3>2. /\ step' \in Nat /\ place' \in Places
          /\ isFinished' \in BOOLEAN /\ owed' \in Int
      <4>1. CASE Active
        BY <2>3, <3>1, <4>1, AdvanceMoves DEF SetStep
      <4>2. CASE ~Active
        BY <2>3, <3>1, <4>2 DEF SetStep, TypeOK
      <4> QED
        BY <4>1, <4>2
    <3> QED
      BY <2>3, <2>c, <3>2 DEF SetStep, TypeOK
  <2>4. ASSUME NEW n \in StepCounts, SetStepCount(n) PROVE TypeOK'
    BY <2>4, <2>c, StepCountsAssumption DEF SetStepCount, TypeOK
  <2>5. CASE SetTarget
    BY <2>5, <2>c DEF SetTarget, TypeOK, Places
  <2>6. CASE Conclude
    BY <2>6, <2>c DEF Conclude, TypeOK, Places
  <2>7. CASE Play \/ Pause \/ Halt
    <3>1. calls' \in 0 .. MaxCalls /\ owed' \in Int
      BY <2>7, <2>c DEF Play, Pause, Halt, TypeOK
    <3>2. {paused', isFinished', replayed'} \subseteq BOOLEAN
      BY <2>7 DEF Play, Pause, Halt, TypeOK
    <3> QED
      BY <2>7, <3>1, <3>2 DEF Play, Pause, Halt, TypeOK
  <2>8. CASE Copy
    BY <2>8, <2>c, StartIsPlace DEF Copy, TypeOK
  <2>9. CASE UNCHANGED vars
    BY <2>9 DEF vars, TypeOK
  <2> QED
    BY <2>1, <2>2, <2>3, <2>4, <2>5, <2>6, <2>7, <2>8, <2>9 DEF Next
<1> QED
  BY <1>1, <1>2, PTL DEF Spec

\* The inductive invariant holds of every reachable state.
THEOREM Invariance == Spec => []IInv
<1>1. Init => IInv
  BY StartIsPlace DEF Init, IInv, OneStart, NeverBeyondUnderWay
<1>2. TypeOK /\ IInv /\ [Next]_vars => IInv'
  <2> SUFFICES ASSUME TypeOK, IInv, [Next]_vars PROVE IInv'
    OBVIOUS
  <2>1. CASE Yield
    <3>1. ~isFinished /\ step \in Nat /\ Advance(step)
      BY <2>1 DEF Yield, Active, TypeOK
    <3> QED
      BY <3>1, AdvanceMoves, AdvanceOwes DEF IInv, NeverBeyondUnderWay
  <2>2. ASSUME NEW n \in StepCounts \cup {step},
               SetInterpolation(n) \/ Reinterpolate(n)
        PROVE  IInv'
    <3>1. place' # "beyond"
      BY <2>2, StartIsPlace DEF SetInterpolation, Reinterpolate
    <3>2. OneStart'
      BY <2>2 DEF SetInterpolation, Reinterpolate, IInv, OneStart
    <3> QED
      BY <3>1, <3>2 DEF IInv, NeverBeyondUnderWay
  <2>3. ASSUME NEW n \in StepCounts, SetStep(n) PROVE IInv'
    <3>1. Clamped(n) \in Nat
      BY StepsAreNumbers
    <3>2. CASE Active
      <4>1. ~isFinished /\ Advance(Clamped(n))
        BY <2>3, <3>2 DEF SetStep, Active
      <4> QED
        BY <3>1, <4>1, AdvanceMoves, AdvanceOwes DEF IInv, NeverBeyondUnderWay
    <3>3. CASE ~Active
      BY <2>3, <3>3 DEF SetStep, IInv, OneStart, NeverBeyondUnderWay
    <3> QED
      BY <3>2, <3>3
  <2>4. ASSUME NEW n \in StepCounts, SetStepCount(n) PROVE IInv'
    BY <2>4 DEF SetStepCount, IInv, OneStart, NeverBeyondUnderWay
  <2>5. CASE SetTarget \/ Conclude
    BY <2>5 DEF SetTarget, Conclude, IInv, OneStart, NeverBeyondUnderWay
  <2>6. CASE Play \/ Pause \/ Halt
    BY <2>6 DEF Play, Pause, Halt, IInv, OneStart, NeverBeyondUnderWay
  <2>7. CASE Copy
    <3>1. place' = "beyond" => place = "beyond"
      BY <2>7, StartIsPlace DEF Copy, TypeOK
    <3> QED
      BY <2>7, <3>1 DEF Copy, IInv, OneStart, NeverBeyondUnderWay
  <2>8. CASE UNCHANGED vars
    BY <2>8 DEF vars, IInv, OneStart, NeverBeyondUnderWay
  <2> QED
    BY <2>1, <2>2, <2>3, <2>4, <2>5, <2>6, <2>7, <2>8 DEF Next
<1> QED
  BY <1>1, <1>2, TypeCorrect, PTL DEF Spec

\* Until a Tween is done its target is not moved beyond the end of the way,
\* unless the program replayed it.
THEOREM TweenKeepsToTheWay == Spec => []NeverBeyondUnderWay
<1>1. IInv => NeverBeyondUnderWay
  BY DEF IInv
<1> QED
  BY <1>1, Invariance, PTL

\* A Tween completes at most once for each time that it is started.
THEOREM TweenCompletesOnce == Spec => []CompletesOnce
<1>1. IInv => CompletesOnce
  BY DEF IInv, OneStart, CompletesOnce
<1> QED
  BY <1>1, Invariance, PTL

-----------------------------------------------------------------------------
(* TweenChain *)

\* How many stages have fired, while nothing steers the chain.
Fired == IF inSignal \/ completed THEN current ELSE current - 1

\* StagesInOrder says nothing of the stage that fires next, and the index of
\* the stage after it is a variable of its own: both have to be tied to the
\* current stage, and completion to the last one.
InStep ==
  ~steered =>
    /\ stage = current
    /\ Len(fires) = Fired
    /\ inSignal => ~completed
    /\ completed => isFinished /\ current = Len(stages)

ChainIInv ==
  /\ InStep
  /\ StagesInOrder

-----------------------------------------------------------------------------

\* A list of stages has a first stage, and its step counts are usizes.
LEMMA ListFacts ==
  ASSUME NEW l \in StageLists
  PROVE  /\ l \in Seq(0 .. UsizeMod - 1)
         /\ Len(l) \in Nat \ {0}
         /\ \A c \in 1 .. Len(l) : l[c] \in 0 .. UsizeMod - 1
<1>1. l \in Seq(0 .. UsizeMod - 1) /\ l # <<>>
  BY StageListsAssumption
<1>2. Len(l) \in Nat \ {0}
  BY <1>1, EmptySeq
<1>3. ASSUME NEW c \in 1 .. Len(l) PROVE l[c] \in 0 .. UsizeMod - 1
  BY <1>1, ElementOfSeq
<1> QED
  BY <1>1, <1>2, <1>3

\* One step of a stage leaves a step and a value.
LEMMA AdvanceStageTypes ==
  ASSUME ChainTypeOK, NEW c \in 1 .. Len(stages), NEW n \in 0 .. UsizeMod - 1,
         AdvanceStage(c, n)
  PROVE  step' \in 0 .. UsizeMod - 1 /\ value' \in [stage : Nat, place : ChainPlaces]
<1>1. stages[c] \in 0 .. UsizeMod - 1
  BY ListFacts DEF ChainTypeOK
<1>2. c \in Nat
  OBVIOUS
<1>3. step' \in 0 .. UsizeMod - 1
  BY <1>1, UsizeModAssumption DEF AdvanceStage
<1>4. value' \in [stage : Nat, place : ChainPlaces]
  BY <1>2 DEF AdvanceStage, ChainPlaces
<1> QED
  BY <1>3, <1>4

\* So does yield() up to the signal.
LEMMA YieldTypes ==
  ASSUME ChainTypeOK, NEW n \in 0 .. UsizeMod - 1, YieldAt(n)
  PROVE  /\ step' \in 0 .. UsizeMod - 1
         /\ value' \in [stage : Nat, place : ChainPlaces]
         /\ inSignal' \in BOOLEAN
         /\ fires' \in Seq(Nat)
<1>1. current \in Nat
  BY DEF ChainTypeOK
<1>2. CASE Active /\ StageDone(n)
  <2>1. step' = n /\ value' = value /\ inSignal' = TRUE
    BY <1>2 DEF YieldAt
  <2>2. fires' = Append(fires, current) /\ fires \in Seq(Nat)
    BY <1>2 DEF YieldAt, ChainTypeOK
  <2>3. fires' \in Seq(Nat)
    BY <1>1, <2>2
  <2> QED
    BY <2>1, <2>3 DEF ChainTypeOK
<1>3. CASE Active /\ ~StageDone(n)
  BY <1>3, AdvanceStageTypes DEF YieldAt, ChainTypeOK
<1>4. CASE ~Active
  BY <1>4 DEF YieldAt, ChainTypeOK
<1> QED
  BY <1>2, <1>3, <1>4

\* What setStep() makes of its argument is a step.
LEMMA SetStepRange ==
  ASSUME ChainTypeOK, NEW n \in StepCounts
  PROVE  LET before == (n + UsizeMod - 1) % UsizeMod
         IN (IF before > stages[current] THEN stages[current] ELSE before)
              \in 0 .. UsizeMod - 1
<1> DEFINE before == (n + UsizeMod - 1) % UsizeMod
<1>1. stages[current] \in 0 .. UsizeMod - 1
  BY ListFacts DEF ChainTypeOK
<1>2. n + UsizeMod - 1 \in Int
  BY UsizesAssumption, UsizeModAssumption
<1>3. before \in 0 .. UsizeMod - 1
  BY <1>2, UsizeModAssumption
<1>4. (IF before > stages[current] THEN stages[current] ELSE before)
        \in 0 .. UsizeMod - 1
  BY <1>1, <1>3
<1> QED
  BY <1>4

\* Every variable keeps its type.
THEOREM ChainTypeCorrect == ChainSpec => []ChainTypeOK
<1>1. ChainInit => ChainTypeOK
  <2> SUFFICES ASSUME ChainInit PROVE ChainTypeOK
    OBVIOUS
  <2>1. stages \in StageLists /\ Len(stages) \in Nat \ {0}
    BY ListFacts DEF ChainInit
  <2>2. stage \in 0 .. Len(stages) /\ current \in 1 .. Len(stages)
    BY <2>1 DEF ChainInit
  <2>3. step \in 0 .. UsizeMod - 1 /\ calls \in 0 .. MaxCalls
    BY UsizeModAssumption, MaxCallsAssumption DEF ChainInit
  <2>4. value \in [stage : Nat, place : ChainPlaces] /\ fires \in Seq(Nat)
    BY DEF ChainInit, ChainPlaces
  <2>5. {paused, isFinished, inSignal, completed, steered} \subseteq BOOLEAN
    BY DEF ChainInit
  <2> QED
    BY <2>1, <2>2, <2>3, <2>4, <2>5 DEF ChainTypeOK
<1>2. ChainTypeOK /\ [ChainNext]_chainVars => ChainTypeOK'
  <2> SUFFICES ASSUME ChainTypeOK, [ChainNext]_chainVars PROVE ChainTypeOK'
    OBVIOUS
  <2> USE MaxCallsAssumption DEF ProgramCalls, control, history
  <2>l. Len(stages) \in Nat \ {0}
    BY ListFacts DEF ChainTypeOK
  <2>1. CASE ChainYield
    <3>1. step \in 0 .. UsizeMod - 1 /\ YieldAt(step)
      BY <2>1 DEF ChainYield, ChainTypeOK
    <3> QED
      BY <2>1, <3>1, YieldTypes DEF ChainYield, ChainTypeOK
  <2>2. CASE SignalReturns
    <3>1. stages' = stages /\ current' \in 1 .. Len(stages) /\ stage' \in 0 .. Len(stages)
      <4>1. CASE stage >= Len(stages)
        BY <2>2, <4>1 DEF SignalReturns, ChainTypeOK
      <4>2. CASE stage < Len(stages)
        BY <2>2, <2>l, <4>2 DEF SignalReturns, ChainTypeOK
      <4> QED
        BY <2>l, <4>1, <4>2 DEF ChainTypeOK
    <3>2. step' \in 0 .. UsizeMod - 1 /\ value' \in [stage : Nat, place : ChainPlaces]
      <4>1. (IF isFinished' THEN step ELSE 0) \in 0 .. UsizeMod - 1
        BY UsizeModAssumption DEF ChainTypeOK
      <4> QED
        BY <2>2, <3>1, <4>1, AdvanceStageTypes DEF SignalReturns
    <3>3. isFinished' \in BOOLEAN /\ completed' \in BOOLEAN
      BY <2>2 DEF SignalReturns, ChainTypeOK
    <3> QED
      BY <2>2, <3>1, <3>2, <3>3 DEF SignalReturns, ChainTypeOK
  <2>3. CASE \E l \in StageLists : StartChain(l)
    <3>1. PICK l \in StageLists : StartChain(l)
      BY <2>3
    <3>2. Len(l) \in Nat \ {0}
      BY ListFacts
    <3>3. stages' = l /\ stage' \in 0 .. Len(l) /\ current' \in 1 .. Len(l)
      BY <3>1, <3>2 DEF StartChain
    <3>4. step' \in 0 .. UsizeMod - 1 /\ calls' \in 0 .. MaxCalls
      BY <3>1, UsizeModAssumption DEF StartChain, ChainTypeOK
    <3>5. fires' \in Seq(Nat)
      BY <3>1 DEF StartChain
    <3>6. {paused', isFinished', inSignal', completed', steered'} \subseteq BOOLEAN
      BY <3>1 DEF StartChain, ChainTypeOK
    <3> QED
      BY <3>1, <3>3, <3>4, <3>5, <3>6 DEF StartChain, ChainTypeOK
  <2>4. CASE \E n \in StepCounts : ChainSetStep(n)
    <3>1. PICK n \in StepCounts : ChainSetStep(n)
      BY <2>4
    <3> QED
      BY <3>1, SetStepRange, YieldTypes DEF ChainSetStep, ChainTypeOK
  <2>5. CASE \E n \in 0 .. Len(stages) + 1 : SetStage(n)
    <3>1. PICK n \in 0 .. Len(stages) + 1 : SetStage(n)
      BY <2>5
    <3>2. stage' \in 0 .. Len(stages)
      BY <2>l, <3>1 DEF SetStage
    <3>3. step \in 0 .. UsizeMod - 1 /\ YieldAt(step)
      BY <3>1 DEF SetStage, ChainTypeOK
    <3> QED
      BY <3>1, <3>2, <3>3, YieldTypes DEF SetStage, ChainTypeOK
  <2>6. CASE ChainPlay
    <3>1. calls' \in 0 .. MaxCalls
      BY <2>6 DEF ChainPlay, ChainTypeOK
    <3>2. {paused', isFinished', inSignal', completed', steered'} \subseteq BOOLEAN
      BY <2>6 DEF ChainPlay, ChainTypeOK
    <3> QED
      BY <2>6, <3>1, <3>2 DEF ChainPlay, ChainTypeOK
  <2>7. CASE ChainPause \/ ChainHalt
    <3>1. calls' \in 0 .. MaxCalls
      BY <2>7 DEF ChainPause, ChainHalt, ChainTypeOK
    <3>2. {paused', isFinished'} \subseteq BOOLEAN
      BY <2>7 DEF ChainPause, ChainHalt, ChainTypeOK
    <3> QED
      BY <2>7, <3>1, <3>2 DEF ChainPause, ChainHalt, ChainTypeOK
  <2>8. CASE ChainConclude
    <3>1. stages[1] \in 0 .. UsizeMod - 1
      BY <2>l, ListFacts DEF ChainTypeOK
    <3> QED
      BY <2>8, <3>1 DEF ChainConclude, ChainTypeOK, ChainPlaces
  <2>9. CASE UNCHANGED chainVars
    BY <2>9 DEF chainVars, ChainTypeOK
  <2> QED
    BY <2>1, <2>2, <2>3, <2>4, <2>5, <2>6, <2>7, <2>8, <2>9 DEF ChainNext
<1> QED
  BY <1>1, <1>2, PTL DEF ChainSpec

-----------------------------------------------------------------------------

\* yield() up to the signal adds the current stage and nothing else, and the
\* current stage is the one that is due.
LEMMA ChainYieldInvariance ==
  ASSUME ChainTypeOK, ChainIInv, NEW n, YieldAt(n), ~inSignal, steered' = steered,
         UNCHANGED <<stages, stage, current, isFinished, completed>>
  PROVE  ChainIInv'
<1> SUFFICES ASSUME ~steered PROVE ChainIInv'
  BY DEF ChainIInv, InStep, StagesInOrder
<1>1. CASE Active /\ StageDone(n)
  <2>1. ~completed /\ inSignal' /\ fires' = Append(fires, current)
    BY <1>1 DEF Active, ChainIInv, InStep, YieldAt
  <2>2. Len(fires) = current - 1 /\ Len(fires') = current
    BY <2>1 DEF ChainIInv, InStep, Fired, ChainTypeOK
  <2>3. InStep'
    BY <2>1, <2>2 DEF ChainIInv, InStep, Fired
  <2>4. fires' = [i \in 1 .. Len(fires') |-> i]
    <3>1. fires \in Seq(Nat) /\ current \in Nat /\ fires = [i \in 1 .. Len(fires) |-> i]
      BY DEF ChainIInv, StagesInOrder, ChainTypeOK
    <3>2. fires' \in Seq(Nat) /\ Len(fires') = Len(fires) + 1
      BY <2>1, <3>1
    <3>3. ASSUME NEW i \in 1 .. Len(fires') PROVE fires'[i] = i
      BY <2>1, <2>2, <3>1, <3>2, <3>3
    <3> QED
      BY <3>2, <3>3
  <2> QED
    BY <2>3, <2>4 DEF ChainIInv, StagesInOrder
<1>2. CASE ~(Active /\ StageDone(n))
  BY <1>2 DEF YieldAt, ChainIInv, InStep, StagesInOrder, Fired
<1> QED
  BY <1>1, <1>2

\* The invariant holds of every reachable state.
THEOREM ChainInvariance == ChainSpec => []ChainIInv
<1>1. ChainInit => ChainIInv
  <2> SUFFICES ASSUME ChainInit PROVE ChainIInv
    OBVIOUS
  <2>1. fires = [i \in 1 .. Len(fires) |-> i]
    BY DEF ChainInit
  <2> QED
    BY <2>1 DEF ChainInit, ChainIInv, InStep, StagesInOrder, Fired
<1>2. ChainTypeOK /\ ChainIInv /\ [ChainNext]_chainVars => ChainIInv'
  <2> SUFFICES ASSUME ChainTypeOK, ChainIInv, [ChainNext]_chainVars PROVE ChainIInv'
    OBVIOUS
  <2> USE DEF ProgramCalls, control, history
  <2>1. CASE ChainYield
    BY <2>1, ChainYieldInvariance DEF ChainYield
  <2>2. CASE SignalReturns
    <3> SUFFICES ASSUME ~steered PROVE ChainIInv'
      BY <2>2 DEF SignalReturns, ChainIInv, InStep, StagesInOrder
    <3>1. stage = current /\ Len(fires) = current /\ ~completed
      BY <2>2 DEF SignalReturns, ChainIInv, InStep, Fired
    <3>2. StagesInOrder'
      BY <2>2 DEF SignalReturns, ChainIInv, StagesInOrder
    <3>3. Len(stages) \in Nat
      BY ListFacts DEF ChainTypeOK
    <3>4. CASE isFinished'
      BY <2>2, <3>1, <3>2, <3>3, <3>4 DEF SignalReturns, ChainIInv, InStep, Fired, ChainTypeOK
    <3>5. CASE ~isFinished'
      BY <2>2, <3>1, <3>2, <3>3, <3>5 DEF SignalReturns, ChainIInv, InStep, Fired, ChainTypeOK
    <3> QED
      BY <3>4, <3>5
  <2>3. CASE \E l \in StageLists : StartChain(l)
    <3>1. fires' = <<>> /\ fires' = [i \in 1 .. Len(fires') |-> i]
      BY <2>3 DEF StartChain
    <3> QED
      BY <2>3, <3>1 DEF StartChain, ChainIInv, InStep, StagesInOrder, Fired
  <2>4. CASE \E n \in StepCounts : ChainSetStep(n)
    BY <2>4, ChainYieldInvariance DEF ChainSetStep
  <2>5. CASE \E n \in 0 .. Len(stages) + 1 : SetStage(n)
    BY <2>5 DEF SetStage, ChainIInv, InStep, StagesInOrder
  <2>6. CASE ChainPlay
    BY <2>6 DEF ChainPlay, ChainIInv, InStep, StagesInOrder, Fired, ChainTypeOK
  <2>7. CASE ChainPause \/ ChainHalt \/ ChainConclude
    BY <2>7 DEF ChainPause, ChainHalt, ChainConclude, ChainIInv, InStep, StagesInOrder, Fired
  <2>8. CASE UNCHANGED chainVars
    BY <2>8 DEF chainVars, ChainIInv, InStep, StagesInOrder, Fired
  <2> QED
    BY <2>1, <2>2, <2>3, <2>4, <2>5, <2>6, <2>7, <2>8 DEF ChainNext
<1> QED
  BY <1>1, <1>2, ChainTypeCorrect, PTL DEF ChainSpec

\* Unless the program steers the chain, its stages complete in their order,
\* each once.
THEOREM StagesFireInOrder == ChainSpec => []StagesInOrder
<1>1. ChainIInv => StagesInOrder
  BY DEF ChainIInv
<1> QED
  BY <1>1, ChainInvariance, PTL

\* The chain's own onCompleted fires when all of its stages' have.
THEOREM ChainCompletesLast == ChainSpec => []CompletedAfterAll
<1>1. ChainIInv => CompletedAfterAll
  BY DEF ChainIInv, InStep, Fired, CompletedAfterAll
<1> QED
  BY <1>1, ChainInvariance, PTL
=============================================================================
