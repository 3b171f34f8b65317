---------------------------- MODULE TimerProofs ----------------------------
(***************************************************************************)
(* Proofs about Timer, for any places of Timers, any delays and counts of  *)
(* loops, and any bound on the program's calls.                            *)
(***************************************************************************)
EXTENDS Timer, VectorProofs, TLAPS

Slots == Timers \cup {None}

-----------------------------------------------------------------------------
(* The Timers *)

\* The Timers and what is owed to each, whatever the registry holds.
ObjectsOK ==
  /\ timer \in [Timers -> TimerObject \cup {None}]
  /\ owed \in [Timers -> Int]
  /\ calls \in 0 .. MaxCalls

\* What Fires() and Counts() leave at one place.
LEMMA YieldedObjects ==
  ASSUME ObjectsOK, NEW t, Fires(t) \/ Counts(t), t \in Timers => Lives(t)
  PROVE  timer' \in [Timers -> TimerObject \cup {None}] /\ owed' \in [Timers -> Int]
<1> DEFINE o == timer[t]
<1>1. t \in Timers => o \in TimerObject
  BY DEF ObjectsOK, Lives
<1>2. CASE t \notin Timers
  BY <1>2 DEF ObjectsOK, Fires, Counts
<1>3. CASE t \in Timers /\ Fires(t)
  <2>1. [o EXCEPT !.counter = 0] \in TimerObject /\ [o EXCEPT !.isFinished = TRUE] \in TimerObject
    BY <1>1, <1>3 DEF TimerObject
  <2>2. owed' \in [Timers -> Int]
    BY <1>3 DEF Fires, ObjectsOK
  <2> QED
    BY <1>3, <2>1, <2>2 DEF Fires, ObjectsOK
<1>4. CASE t \in Timers /\ Counts(t)
  <2>1. o.counter \in Nat /\ o.counter + 1 \in Nat
    BY <1>1, <1>4 DEF TimerObject
  <2>2. [o EXCEPT !.counter = IF Running(t) THEN @ + 1 ELSE @] \in TimerObject
    BY <1>1, <1>4, <2>1 DEF TimerObject
  <2>3. timer' = [timer EXCEPT ![t] = [o EXCEPT !.counter = IF Running(t) THEN @ + 1 ELSE @]]
    BY <1>4 DEF Counts
  <2>4. owed' = owed
    BY <1>4 DEF Counts
  <2> QED
    BY <2>2, <2>3, <2>4 DEF ObjectsOK
<1> QED
  BY <1>2, <1>3, <1>4

\* Every step leaves Timers, what they are owed and the calls counted.
LEMMA NextObjects == ObjectsOK /\ [Next]_vars => ObjectsOK'
<1> SUFFICES ASSUME ObjectsOK, [Next]_vars
             PROVE  ObjectsOK'
  OBVIOUS
<1> USE DEF ObjectsOK
<1>1. ASSUME ProgramCalls PROVE calls' \in 0 .. MaxCalls
  BY <1>1, MaxCallsAssumption DEF ProgramCalls
<1>2. ASSUME NEW t \in Timers, NEW d \in Delays, NEW r \in BOOLEAN, NEW m \in BOOLEAN,
             NEW l \in Loops, Construct(t, d, r, l, m)
      PROVE  ObjectsOK'
  <2> DEFINE o == [manual |-> m, paused |-> FALSE, repeat |-> r, isFinished |-> FALSE,
                   delay |-> d, loopCount |-> l, counter |-> 0]
  <2>1. o \in TimerObject
    BY DelaysAssumption, LoopsAssumption DEF TimerObject
  <2>2. timer' = [timer EXCEPT ![t] = o]
    BY <1>2 DEF Construct
  <2>3. timer'[t] = o
    BY <2>2
  <2>4. Asked(o) \in Int
    BY <2>1 DEF Asked, Forever, TimerObject
  <2> HIDE DEF o
  <2>5. owed' = [owed EXCEPT ![t] = Asked(o)]
    BY <1>2, <2>3 DEF Construct
  <2> QED
    BY <1>1, <1>2, <2>1, <2>2, <2>4, <2>5 DEF Construct
<1>3. ASSUME NEW t \in Timers, NEW s \in Timers, Copy(t, s) PROVE ObjectsOK'
  <2>1. timer[s] \in TimerObject /\ t # s
    BY <1>3 DEF Copy, Lives
  <2>2. [timer[s] EXCEPT !.manual = TRUE] \in TimerObject
    BY <2>1 DEF TimerObject
  <2>3. Asked(timer[s]) \in Int
    BY <2>1 DEF Asked, Forever, TimerObject
  <2>4. timer' = [timer EXCEPT ![t] = timer[s], ![s].manual = TRUE]
    BY <1>3 DEF Copy
  <2>5. timer' = [[timer EXCEPT ![t] = timer[s]] EXCEPT ![s] = [timer[s] EXCEPT !.manual = TRUE]]
    BY <2>1, <2>4
  <2>6. timer' \in [Timers -> TimerObject \cup {None}]
    BY <2>1, <2>2, <2>5
  <2>7. owed' \in [Timers -> Int]
    BY <1>3, <2>3 DEF Copy
  <2> QED
    BY <1>1, <1>3, <2>6, <2>7 DEF Copy
<1>4. ASSUME NEW t \in Timers, Destroy(t) PROVE ObjectsOK'
  BY <1>1, <1>4 DEF Destroy
<1>5. ASSUME NEW t \in Timers, SetManual(t) \/ SetAutomatic(t) PROVE ObjectsOK'
  <2>1. timer[t] \in TimerObject
    BY <1>5 DEF SetManual, SetAutomatic, Automatic, Lives
  <2>2. [timer[t] EXCEPT !.manual = TRUE] \in TimerObject /\ [timer[t] EXCEPT !.manual = FALSE] \in TimerObject
    BY <2>1 DEF TimerObject
  <2> QED
    BY <1>1, <1>5, <2>2 DEF SetManual, SetAutomatic
<1>6. ASSUME NEW t \in Timers, NEW d \in Delays, Start(t, d) PROVE ObjectsOK'
  <2>1. timer[t] \in TimerObject
    BY <1>6 DEF Start, Lives
  <2>2. [timer[t] EXCEPT !.counter = 0, !.delay = d, !.isFinished = FALSE] \in TimerObject
    BY <2>1, DelaysAssumption DEF TimerObject
  <2>3. timer' = [timer EXCEPT ![t] = [timer[t] EXCEPT !.counter = 0, !.delay = d, !.isFinished = FALSE]]
    BY <1>6 DEF Start
  <2>4. owed' \in [Timers -> Int]
    BY <1>6 DEF Start
  <2> QED
    BY <1>1, <1>6, <2>2, <2>3, <2>4 DEF Start
<1>7. ASSUME NEW t \in Timers, Reset(t) \/ Stop(t) \/ Play(t) \/ Pause(t) PROVE ObjectsOK'
  <2>1. timer[t] \in TimerObject
    BY <1>7 DEF Reset, Stop, Play, Pause, Assign, Lives
  <2>2. /\ [timer[t] EXCEPT !.counter = 0] \in TimerObject
        /\ [timer[t] EXCEPT !.isFinished = TRUE] \in TimerObject
        /\ [timer[t] EXCEPT !.paused = TRUE] \in TimerObject
        /\ [timer[t] EXCEPT !.paused = FALSE] \in TimerObject
    BY <2>1 DEF TimerObject
  <2> QED
    BY <1>1, <1>7, <2>2 DEF Reset, Stop, Play, Pause, Assign
<1>8. ASSUME NEW t \in Timers, Yield(t) PROVE ObjectsOK'
  BY <1>1, <1>8, YieldedObjects DEF Yield
<1>9. CASE SignalReturns
  <2>1. CASE Lives(firing) /\ firing \in Timers
    <3> DEFINE o == timer[firing]
               left == IF o.loopCount > 0 THEN o.loopCount - 1 ELSE o.loopCount
               after == [o EXCEPT !.loopCount = IF @ > 0 THEN @ - 1 ELSE @, !.counter = @ + 1]
    <3>1. o \in TimerObject
      BY <2>1 DEF Lives
    <3>2. left \in Nat \cup {-1} /\ o.counter + 1 \in Nat
      BY <3>1 DEF TimerObject
    <3>3. after \in TimerObject
      <4>1. after = [o EXCEPT !.loopCount = left, !.counter = o.counter + 1]
        BY <3>1 DEF TimerObject
      <4> HIDE DEF left, after
      <4> QED
        BY <3>1, <3>2, <4>1 DEF TimerObject
    <3>4. timer' = [timer EXCEPT ![firing] = after]
      BY <1>9, <2>1 DEF SignalReturns
    <3> HIDE DEF after
    <3>5. timer' \in [Timers -> TimerObject \cup {None}]
      BY <3>3, <3>4
    <3> QED
      BY <1>9, <3>5 DEF SignalReturns
  <2>2. CASE ~(Lives(firing) /\ firing \in Timers)
    BY <1>9, <2>2 DEF SignalReturns
  <2> QED
    BY <2>1, <2>2
<1>10. CASE StartWalk \/ EndWalk
  BY <1>10 DEF StartWalk, EndWalk
<1>11. CASE Turn
  <2>1. CASE Lives(Walked[walk.pos])
    BY <1>11, <2>1, YieldedObjects DEF Turn
  <2>2. CASE ~Lives(Walked[walk.pos])
    BY <1>11, <2>2 DEF Turn
  <2> QED
    BY <2>1, <2>2
<1>12. CASE UNCHANGED vars
  BY <1>12 DEF vars
<1> QED
  BY <1>2, <1>3, <1>4, <1>5, <1>6, <1>7, <1>8, <1>9, <1>10, <1>11, <1>12
     DEF Next, Process, Program

-----------------------------------------------------------------------------
(* The registry *)

\* The registry, and the walk over it or over a block that it has left: the
\* walk ends within the block.
RegistryOK ==
  /\ events \in Vectors(Slots)
  /\ walk \in [pos : Nat, end : Nat, freed : Seq(Slots)]
  /\ walk.end <= Len(Walked)
  /\ Walking => walk.pos # 0

\* The registry lists the automatic Timers, each of them once.
Registered == NoTwice(events) /\ Entries(events) = Automatic

\* A step that changes the Timer at t changes nothing else of who is automatic.
LEMMA AutomaticStep ==
  ASSUME NEW t \in Timers, \A s \in Timers \ {t} : timer'[s] = timer[s]
  PROVE  Automatic' = IF timer'[t] # None /\ ~timer'[t].manual
                        THEN Automatic \cup {t} ELSE Automatic \ {t}
  BY DEF Automatic, Lives

\* A walk goes on over the block it began with.
LEMMA RegistryTypes ==
  ASSUME RegistryOK, NEW r \in Vectors(Slots), Registry(r)
  PROVE  RegistryOK'
<1> USE DEF RegistryOK
<1>1. events' = r /\ Len(events.block) \in Nat /\ Len(r.block) \in Nat
  BY LenProperties DEF Registry, Vectors
<1>2. CASE Walking /\ walk.freed = <<>> /\ Len(r.block) # Len(events.block)
  <2>1. walk' = [walk EXCEPT !.freed = events.block]
    BY <1>2 DEF Registry
  <2>2. walk'.end = walk.end /\ walk'.pos = walk.pos /\ walk'.freed = events.block
    BY <2>1
  <2>3. walk' \in [pos : Nat, end : Nat, freed : Seq(Slots)]
    BY <2>1 DEF Vectors
  <2>4. walk'.end <= Len(Walked')
    <3>1. walk.end <= Len(events.block)
      BY <1>2 DEF Walked
    <3>2. CASE events.block = <<>>
      <4>1. Len(events.block) = 0
        BY <3>2
      <4>2. Walked' = r.block /\ walk.end = 0
        BY <1>1, <2>2, <3>1, <3>2, <4>1 DEF Walked
      <4> QED
        BY <1>1, <2>2, <4>2
    <3>3. CASE events.block # <<>>
      BY <2>2, <3>1, <3>3 DEF Walked
    <3> QED
      BY <3>2, <3>3
  <2>5. walk'.pos # 0
    BY <1>2, <2>2
  <2> QED
    BY <1>1, <2>3, <2>4, <2>5
<1>3. CASE ~(Walking /\ walk.freed = <<>> /\ Len(r.block) # Len(events.block))
  <2>1. walk' = walk
    BY <1>3 DEF Registry
  <2>2. walk.end <= Len(Walked')
    <3>1. CASE walk.freed # <<>>
      BY <2>1, <3>1 DEF Walked
    <3>2. CASE walk.freed = <<>> /\ Len(r.block) = Len(events.block)
      BY <1>1, <2>1, <3>2 DEF Walked
    <3>3. CASE ~Walking
      <4>1. walk.end = 0 /\ walk.freed = <<>>
        BY <3>3 DEF Walking, NoWalk
      <4>2. Walked' = r.block
        BY <1>1, <2>1, <4>1 DEF Walked
      <4> QED
        BY <1>1, <4>1, <4>2
    <3> QED
      BY <1>3, <3>1, <3>2, <3>3
  <2> QED
    BY <1>1, <2>1, <2>2 DEF Walking
<1> QED
  BY <1>2, <1>3

\* Each call that changes the registry leaves the automatic Timers in it.
LEMMA RegistrySteps ==
  ASSUME ObjectsOK, RegistryOK, Registered, NEW t \in Timers,
         \/ \E d \in Delays, r, m \in BOOLEAN, l \in Loops : Construct(t, d, r, l, m)
         \/ \E s \in Timers : Copy(t, s)
         \/ Destroy(t)
         \/ SetManual(t)
         \/ SetAutomatic(t)
  PROVE  RegistryOK' /\ Registered'
<1>1. /\ events \in Vectors(Slots) /\ NoTwice(events) /\ Entries(events) = Automatic
      /\ None \in Slots /\ t \in Slots
  BY DEF RegistryOK, Registered, Slots
<1>2. /\ Push(events, t) \in Vectors(Slots)
      /\ Entries(Push(events, t)) = Automatic \cup {t}
      /\ t \notin Automatic => NoTwice(Push(events, t))
  BY <1>1, Pushed
<1>3. /\ Erase(events, t) \in Vectors(Slots)
      /\ Len(Erase(events, t).block) = Len(events.block)
      /\ Entries(Erase(events, t)) = Automatic \ {t}
      /\ NoTwice(Erase(events, t))
  BY <1>1, Erased
<1>4. CASE UNCHANGED <<events, walk>> /\ Automatic' = Automatic
  BY <1>4 DEF RegistryOK, Registered, Walked, Walking, Vectors, NoTwice, Entries
<1>5. ASSUME NEW r \in Vectors(Slots), Registry(r), NoTwice(r), Entries(r) = Automatic'
      PROVE  RegistryOK' /\ Registered'
  <2>1. RegistryOK'
    BY <1>5, RegistryTypes
  <2>2. events' = r
    BY <1>5 DEF Registry
  <2> QED
    BY <1>5, <2>1, <2>2 DEF Registered, NoTwice, Entries
<1>6. ASSUME NEW d \in Delays, NEW r \in BOOLEAN, NEW m \in BOOLEAN, NEW l \in Loops,
             Construct(t, d, r, l, m)
      PROVE  RegistryOK' /\ Registered'
  <2>1. t \notin Automatic /\ \A s \in Timers \ {t} : timer'[s] = timer[s]
    BY <1>6 DEF Construct, Automatic, Lives, ObjectsOK
  <2>2. timer'[t] # None /\ timer'[t].manual = m
    <3> DEFINE o == [manual |-> m, paused |-> FALSE, repeat |-> r, isFinished |-> FALSE,
                     delay |-> d, loopCount |-> l, counter |-> 0]
    <3>1. timer'[t] = o
      BY <1>6 DEF Construct, ObjectsOK
    <3>2. o \in TimerObject
      BY DelaysAssumption, LoopsAssumption DEF TimerObject
    <3>3. o.manual = m
      OBVIOUS
    <3> HIDE DEF o
    <3> QED
      BY <3>1, <3>2, <3>3, NoneAssumption
  <2>3. Automatic' = IF m THEN Automatic ELSE Automatic \cup {t}
    BY <2>1, <2>2, AutomaticStep
  <2>4. CASE m
    BY <1>4, <1>6, <2>3, <2>4 DEF Construct, SameRegistry
  <2>5. CASE ~m
    BY <1>2, <1>5, <1>6, <2>1, <2>3, <2>5 DEF Construct
  <2> QED
    BY <2>4, <2>5
<1>7. ASSUME NEW s \in Timers, Copy(t, s) PROVE RegistryOK' /\ Registered'
  <2>1. t # s /\ timer[s] \in TimerObject /\ timer[t] = None
    BY <1>7 DEF Copy, Lives, ObjectsOK
  <2>2. timer' = [timer EXCEPT ![t] = timer[s], ![s].manual = TRUE]
    BY <1>7 DEF Copy
  <2>3. /\ timer'[t] = timer[s] /\ timer'[s] = [timer[s] EXCEPT !.manual = TRUE]
        /\ \A x \in Timers \ {s, t} : timer'[x] = timer[x]
    BY <2>1, <2>2 DEF ObjectsOK
  <2>4. timer'[s].manual
    BY <2>1, <2>3 DEF TimerObject
  <2>5. Automatic' = IF timer[s].manual THEN Automatic ELSE (Automatic \cup {t}) \ {s}
    BY <2>1, <2>3, <2>4, NoneAssumption DEF Automatic, Lives
  <2>6. CASE timer[s].manual
    BY <1>4, <1>7, <2>5, <2>6 DEF Copy, SameRegistry
  <2>7. CASE ~timer[s].manual
    <3> DEFINE v == Push(events, t)
    <3>1. v \in Vectors(Slots) /\ Entries(v) = Automatic \cup {t} /\ NoTwice(v)
      BY <1>2, <2>1 DEF Automatic, Lives
    <3>2. Registry(Erase(v, s))
      BY <1>7, <2>7 DEF Copy
    <3> HIDE DEF v
    <3>3. /\ Erase(v, s) \in Vectors(Slots) /\ NoTwice(Erase(v, s))
          /\ Entries(Erase(v, s)) = Automatic'
      BY <2>5, <2>7, <3>1, Erased
    <3> QED
      BY <1>5, <3>2, <3>3
  <2> QED
    BY <2>6, <2>7
<1>8. CASE Destroy(t)
  <2>1. timer'[t] = None /\ \A s \in Timers \ {t} : timer'[s] = timer[s]
    BY <1>8 DEF Destroy, ObjectsOK
  <2>2. Automatic' = Automatic \ {t}
    BY <2>1, AutomaticStep
  <2>3. CASE timer[t].manual
    BY <1>4, <1>8, <2>2, <2>3 DEF Destroy, Automatic
  <2>4. CASE ~timer[t].manual
    <3>1. events' = Erase(events, t) /\ walk' = walk
      BY <1>8, <2>4 DEF Destroy
    <3>2. Registered'
      BY <1>3, <2>2, <3>1 DEF Registered, NoTwice, Entries
    <3>3. RegistryOK'
      BY <1>3, <3>1 DEF RegistryOK, Walked, Walking
    <3> QED
      BY <3>2, <3>3
  <2> QED
    BY <2>3, <2>4
<1>9. CASE SetManual(t)
  <2>1. timer[t] \in TimerObject
    BY <1>9 DEF SetManual, Automatic, Lives, ObjectsOK
  <2>2. timer'[t].manual /\ \A s \in Timers \ {t} : timer'[s] = timer[s]
    BY <1>9, <2>1 DEF SetManual, ObjectsOK, TimerObject
  <2>3. Automatic' = Automatic \ {t}
    BY <2>2, AutomaticStep
  <2> QED
    BY <1>3, <1>5, <1>9, <2>3 DEF SetManual
<1>10. CASE SetAutomatic(t)
  <2>1. timer[t] \in TimerObject /\ t \notin Automatic
    BY <1>10 DEF SetAutomatic, Automatic, Lives, ObjectsOK
  <2>2. /\ timer'[t] = [timer[t] EXCEPT !.manual = FALSE]
        /\ \A s \in Timers \ {t} : timer'[s] = timer[s]
    BY <1>10 DEF SetAutomatic, ObjectsOK
  <2>3. [timer[t] EXCEPT !.manual = FALSE] \in TimerObject /\ ~timer'[t].manual
    BY <2>1, <2>2 DEF TimerObject
  <2>4. Automatic' = Automatic \cup {t}
    BY <2>2, <2>3, AutomaticStep, NoneAssumption
  <2> QED
    BY <1>2, <1>5, <1>10, <2>1, <2>4 DEF SetAutomatic
<1> QED
  BY <1>6, <1>7, <1>8, <1>9, <1>10

\* What a call or yield() of one Timer leaves alone: who is automatic.
LEMMA SameAutomatic ==
  ASSUME ObjectsOK, NEW t,
         \A s \in Timers \ {t} : timer'[s] = timer[s],
         t \in Timers => /\ timer'[t] \in TimerObject /\ timer[t] \in TimerObject
                         /\ timer'[t].manual = timer[t].manual
  PROVE  Automatic' = Automatic
  BY NoneAssumption DEF Automatic, Lives

\* A yield changes neither who is automatic nor who lives.
LEMMA YieldKeepsAutomatic ==
  ASSUME ObjectsOK, NEW t, Fires(t) \/ Counts(t), t \in Timers => Lives(t)
  PROVE  Automatic' = Automatic /\ \A s \in Timers : Lives(s)' = Lives(s)
<1>1. timer' \in [Timers -> TimerObject \cup {None}]
  BY YieldedObjects
<1>2. \A s \in Timers \ {t} : timer'[s] = timer[s]
  BY DEF Fires, Counts, ObjectsOK
<1>3. ASSUME t \in Timers
      PROVE  /\ timer'[t] \in TimerObject /\ timer[t] \in TimerObject
             /\ timer'[t].manual = timer[t].manual
  <2>1. timer[t] \in TimerObject
    BY <1>3 DEF Lives, ObjectsOK
  <2>2. [timer[t] EXCEPT !.isFinished = TRUE] \in TimerObject
    BY <2>1 DEF TimerObject
  <2>3. ASSUME NEW c \in Nat PROVE [timer[t] EXCEPT !.counter = c] \in TimerObject
    BY <2>1 DEF TimerObject
  <2>4. timer[t].counter \in Nat /\ timer[t].counter + 1 \in Nat
    BY <2>1 DEF TimerObject
  <2>5. \/ timer'[t] = [timer[t] EXCEPT !.counter = 0]
        \/ timer'[t] = [timer[t] EXCEPT !.isFinished = TRUE]
        \/ timer'[t] = [timer[t] EXCEPT !.counter = timer[t].counter + 1]
        \/ timer'[t] = [timer[t] EXCEPT !.counter = timer[t].counter]
    <3>1. CASE Fires(t)
      BY <1>3, <3>1 DEF Fires, ObjectsOK
    <3>2. CASE Counts(t)
      BY <1>3, <3>2 DEF Counts, ObjectsOK
    <3> QED
      BY <3>1, <3>2
  <2>6. timer'[t].manual = timer[t].manual
    BY <2>1, <2>5 DEF TimerObject
  <2> QED
    BY <2>1, <2>2, <2>3, <2>4, <2>5, <2>6
<1> QED
  BY <1>1, <1>2, <1>3, SameAutomatic, NoneAssumption DEF Lives

\* The calls on one Timer that leave the registry alone.
CallsTimer(t) ==
  \/ \E d \in Delays : Start(t, d)
  \/ Reset(t) \/ Stop(t) \/ Play(t) \/ Pause(t) \/ Yield(t)

\* Neither does a call that starts, stops, pauses or yields a Timer.
LEMMA CallKeepsAutomatic ==
  ASSUME ObjectsOK, NEW t \in Timers, CallsTimer(t)
  PROVE  Automatic' = Automatic /\ \A s \in Timers : Lives(s)' = Lives(s)
<1>1. timer[t] \in TimerObject
  BY DEF ObjectsOK, Lives, CallsTimer, Start, Reset, Stop, Play, Pause, Yield, Assign
<1>2. ASSUME NEW o \in TimerObject, timer' = [timer EXCEPT ![t] = o],
             o.manual = timer[t].manual
      PROVE  Automatic' = Automatic /\ \A s \in Timers : Lives(s)' = Lives(s)
  <2>1. timer'[t] = o /\ \A s \in Timers \ {t} : timer'[s] = timer[s]
    BY <1>2 DEF ObjectsOK
  <2> QED
    BY <1>1, <1>2, <2>1, SameAutomatic, NoneAssumption DEF Lives
<1>3. ASSUME NEW d \in Delays, Start(t, d)
      PROVE  Automatic' = Automatic /\ \A s \in Timers : Lives(s)' = Lives(s)
  <2> DEFINE o == [timer[t] EXCEPT !.counter = 0, !.delay = d, !.isFinished = FALSE]
  <2>1. o \in TimerObject /\ o.manual = timer[t].manual
    BY <1>1, DelaysAssumption DEF TimerObject
  <2>2. timer' = [timer EXCEPT ![t] = o]
    BY <1>3 DEF Start
  <2> HIDE DEF o
  <2> QED
    BY <1>2, <2>1, <2>2
<1>4. ASSUME NEW field \in {"counter", "isFinished", "paused"}, NEW value,
             field = "counter" => value \in Nat, field # "counter" => value \in BOOLEAN,
             Assign(t, field, value)
      PROVE  Automatic' = Automatic /\ \A s \in Timers : Lives(s)' = Lives(s)
  <2> DEFINE o == [timer[t] EXCEPT ![field] = value]
  <2>1. o \in TimerObject /\ o.manual = timer[t].manual
    <3>1. CASE field = "counter"
      BY <1>1, <1>4, <3>1 DEF TimerObject
    <3>2. CASE field = "isFinished"
      BY <1>1, <1>4, <3>2 DEF TimerObject
    <3>3. CASE field = "paused"
      BY <1>1, <1>4, <3>3 DEF TimerObject
    <3> QED
      BY <1>4, <3>1, <3>2, <3>3
  <2>2. timer' = [timer EXCEPT ![t] = o]
    BY <1>4 DEF Assign
  <2> HIDE DEF o
  <2> QED
    BY <1>2, <2>1, <2>2
<1>5. CASE Yield(t)
  BY <1>5, YieldKeepsAutomatic DEF Yield
<1>6. CASE Reset(t) \/ Stop(t) \/ Play(t) \/ Pause(t)
  BY <1>4, <1>6 DEF Reset, Stop, Play, Pause
<1> QED
  BY <1>3, <1>5, <1>6 DEF CallsTimer

\* What a program's call is, by what it does to the registry.
LEMMA ProgramSteps ==
  ASSUME Program
  PROVE  \E t \in Timers :
           \/ CallsTimer(t)
           \/ \E d \in Delays, r, m \in BOOLEAN, l \in Loops : Construct(t, d, r, l, m)
           \/ \E s \in Timers : Copy(t, s)
           \/ Destroy(t)
           \/ SetManual(t)
           \/ SetAutomatic(t)
  BY DEF Program, CallsTimer

\* The Timer that a turn of the walk yields, if there is one.
LEMMA TurnSteps ==
  ASSUME ObjectsOK, RegistryOK, Turn
  PROVE  LET t == Walked[walk.pos]
         IN /\ t \in Slots
            /\ Lives(t) \/ UNCHANGED timer
            /\ firing' = (IF Lives(t) /\ Due(t) THEN t ELSE None)
            /\ Automatic' = Automatic
            /\ \A s \in Timers : Lives(s)' = Lives(s)
            /\ walk' = IF firing' = None THEN [walk EXCEPT !.pos = @ + 1] ELSE walk
<1> DEFINE t == Walked[walk.pos]
<1>1. Walked \in Seq(Slots)
  BY DEF Walked, RegistryOK, Vectors
<1>2. walk.pos \in 1 .. Len(Walked)
  BY <1>1, LenProperties DEF Turn, RegistryOK
<1>3. t \in Slots
  BY <1>1, <1>2, ElementOfSeq
<1> HIDE DEF t
<1>4. /\ IF ~Lives(t) THEN UNCHANGED <<timer, firing, owed>>
         ELSE IF Due(t) THEN Fires(t) ELSE Counts(t)
      /\ firing = None
      /\ walk' = IF firing' = None THEN [walk EXCEPT !.pos = @ + 1] ELSE walk
  BY DEF Turn, t
<1>5. firing' = IF Lives(t) /\ Due(t) THEN t ELSE None
  BY <1>4 DEF Fires, Counts
<1>6. Automatic' = Automatic /\ \A s \in Timers : Lives(s)' = Lives(s)
  <2>1. CASE Lives(t)
    BY <1>4, <2>1, YieldKeepsAutomatic
  <2>2. CASE ~Lives(t)
    BY <1>4, <2>2 DEF Automatic, Lives
  <2> QED
    BY <2>1, <2>2
<1> QED
  BY <1>3, <1>4, <1>5, <1>6 DEF t

\* What is left of yield() changes no Timer but the one that fired.
LEMMA ReturnSteps ==
  ASSUME ObjectsOK, SignalReturns
  PROVE  /\ Automatic' = Automatic
         /\ \A s \in Timers : Lives(s)' = Lives(s)
<1>1. CASE Lives(firing) /\ firing \in Timers
  <2> DEFINE o == timer[firing]
             left == IF o.loopCount > 0 THEN o.loopCount - 1 ELSE o.loopCount
             after == [o EXCEPT !.loopCount = left, !.counter = o.counter + 1]
  <2>1. o \in TimerObject
    BY <1>1 DEF Lives, ObjectsOK
  <2>2. left \in Nat \cup {-1} /\ o.counter + 1 \in Nat
    BY <2>1 DEF TimerObject
  <2>3. timer' = [timer EXCEPT ![firing].loopCount = left, ![firing].counter = o.counter + 1]
    BY <1>1, <2>1 DEF SignalReturns, ObjectsOK, TimerObject
  <2> HIDE DEF left
  <2>4. after \in TimerObject /\ after.manual = o.manual
    BY <2>1, <2>2 DEF TimerObject
  <2>5. timer'[firing] = after /\ \A s \in Timers \ {firing} : timer'[s] = timer[s]
    BY <1>1, <2>1, <2>3 DEF ObjectsOK, TimerObject
  <2> HIDE DEF after
  <2> QED
    BY <1>1, <2>1, <2>4, <2>5, SameAutomatic, NoneAssumption DEF Lives
<1>2. CASE ~(Lives(firing) /\ firing \in Timers)
  <2>1. timer' = timer
    BY <1>2 DEF SignalReturns, ObjectsOK
  <2> QED
    BY <2>1 DEF Automatic, Lives
<1> QED
  BY <1>1, <1>2

\* Every step keeps the registry, and the list of the automatic Timers in it.
LEMMA NextRegistry ==
  ObjectsOK /\ RegistryOK /\ Registered /\ [Next]_vars => RegistryOK' /\ Registered'
<1> SUFFICES ASSUME ObjectsOK, RegistryOK, Registered, [Next]_vars
             PROVE  RegistryOK' /\ Registered'
  OBVIOUS
<1>1. ASSUME events' = events, Automatic' = Automatic PROVE Registered'
  BY <1>1 DEF Registered, NoTwice, Entries
<1>2. ASSUME events' = events, walk' = walk \/ walk' = [walk EXCEPT !.pos = @ + 1], Walking
      PROVE  RegistryOK'
  <2>1. walk.pos + 1 \in Nat /\ walk.pos + 1 # 0
    BY DEF RegistryOK
  <2>2. /\ walk' \in [pos : Nat, end : Nat, freed : Seq(Slots)]
        /\ walk'.end = walk.end /\ walk'.freed = walk.freed /\ walk'.pos # 0
    BY <1>2, <2>1 DEF RegistryOK
  <2> QED
    BY <1>2, <2>2 DEF RegistryOK, Walked
<1>3. ASSUME events' = events, walk' = walk PROVE RegistryOK'
  BY <1>3 DEF RegistryOK, Walked, Walking
<1>4. ASSUME NEW t \in Timers, CallsTimer(t) PROVE RegistryOK' /\ Registered'
  <2>1. events' = events /\ walk' = walk
    BY <1>4 DEF CallsTimer, Start, Reset, Stop, Play, Pause, Yield, Assign, SameRegistry
  <2> QED
    BY <1>1, <1>3, <1>4, <2>1, CallKeepsAutomatic
<1>5. CASE SignalReturns
  <2>1. /\ events' = events
        /\ walk' = IF Walking THEN [walk EXCEPT !.pos = @ + 1] ELSE walk
    BY <1>5 DEF SignalReturns
  <2> QED
    BY <1>1, <1>2, <1>3, <1>5, <2>1, ReturnSteps
<1>6. CASE StartWalk
  <2>1. /\ events' = events /\ timer' = timer
        /\ walk' = [pos |-> 1, end |-> events.size, freed |-> <<>>]
    BY <1>6 DEF StartWalk
  <2>2. Registered'
    BY <1>1, <2>1 DEF Automatic, Lives
  <2>3. <<>> \in Seq(Slots)
    BY EmptySeq
  <2>4. events.size \in Nat /\ events.size <= Len(events.block)
    BY DEF RegistryOK, Vectors
  <2>5. walk' \in [pos : Nat, end : Nat, freed : Seq(Slots)]
    BY <2>1, <2>3, <2>4
  <2>6. walk'.end <= Len(Walked') /\ walk'.pos # 0
    BY <2>1, <2>4 DEF Walked
  <2> QED
    BY <2>1, <2>2, <2>5, <2>6 DEF RegistryOK
<1>7. CASE Turn
  <2>1. /\ events' = events /\ Walking
        /\ walk' = IF firing' = None THEN [walk EXCEPT !.pos = @ + 1] ELSE walk
    BY <1>7 DEF Turn
  <2> QED
    BY <1>1, <1>2, <1>7, <2>1, TurnSteps
<1>8. CASE EndWalk
  <2>1. events' = events /\ timer' = timer /\ walk' = NoWalk
    BY <1>8 DEF EndWalk
  <2>2. Registered'
    BY <1>1, <2>1 DEF Automatic, Lives
  <2>3. <<>> \in Seq(Slots)
    BY EmptySeq
  <2>4. Len(events.block) \in Nat
    BY LenProperties DEF RegistryOK, Vectors
  <2>5. NoWalk \in [pos : Nat, end : Nat, freed : Seq(Slots)] /\ NoWalk.end = 0 /\ NoWalk.freed = <<>>
    BY <2>3 DEF NoWalk
  <2>6. Walked' = events.block
    BY <2>1, <2>5 DEF Walked
  <2> QED
    BY <2>1, <2>2, <2>4, <2>5, <2>6 DEF RegistryOK, Walking
<1>9. CASE Program
  BY <1>4, <1>9, ProgramSteps, RegistrySteps
<1>10. CASE UNCHANGED vars
  BY <1>1, <1>3, <1>10 DEF vars, Automatic, Lives
<1> QED
  BY <1>5, <1>6, <1>7, <1>8, <1>9, <1>10 DEF Next, Process

-----------------------------------------------------------------------------
(* The walk *)

\* What the walk keeps beside the registry.
HistoryOK ==
  /\ firing \in Slots
  /\ crashed \in BOOLEAN
  /\ meddled \in BOOLEAN
  /\ visits \in [Timers -> Nat]
  /\ stayed \subseteq Timers

\* While the signals leave the registry alone, the walk stays in it, and the
\* Timer that fires stays where it was: nothing else can do harm.
WalkOK ==
  /\ Walking => walk.pos <= walk.end + 1
  /\ Walking /\ firing # None => walk.pos <= walk.end
  /\ Walking /\ ~meddled => walk.freed = <<>> /\ walk.end = events.size
  /\ firing # None /\ ~meddled => Lives(firing)
  /\ crashed => meddled

\* Every step keeps what the walk remembers.
LEMMA NextHistory == ObjectsOK /\ RegistryOK /\ HistoryOK /\ [Next]_vars => HistoryOK'
<1> SUFFICES ASSUME ObjectsOK, RegistryOK, HistoryOK, [Next]_vars
             PROVE  HistoryOK'
  OBVIOUS
<1> USE DEF HistoryOK
<1>1. ASSUME NEW t \in Timers, CallsTimer(t) PROVE HistoryOK'
  <2>1. CASE Yield(t)
    BY <2>1 DEF Yield, Fires, Counts, SameRegistry, Slots
  <2>2. CASE ~Yield(t)
    BY <1>1, <2>2 DEF CallsTimer, Start, Reset, Stop, Play, Pause, Assign, SameRegistry
  <2> QED
    BY <2>1, <2>2
<1>2. CASE SignalReturns
  BY <1>2 DEF SignalReturns, Slots
<1>3. CASE StartWalk
  BY <1>3 DEF StartWalk, Automatic
<1>4. CASE Turn
  <2>1. firing' \in Slots
    BY <1>4, TurnSteps DEF Slots
  <2>2. /\ visits' = [visits EXCEPT ![Walked[walk.pos]] = @ + 1]
        /\ crashed' \in BOOLEAN /\ meddled' = meddled /\ stayed' = stayed
    BY <1>4 DEF Turn
  <2>3. visits' \in [Timers -> Nat]
    <3> DEFINE y == Walked[walk.pos]
    <3>1. visits' = [visits EXCEPT ![y] = visits[y] + 1]
      BY <2>2
    <3> HIDE DEF y
    <3>2. y \in Timers => visits[y] + 1 \in Nat
      OBVIOUS
    <3> QED
      BY <3>1, <3>2
  <2> QED
    BY <2>1, <2>2, <2>3
<1>5. CASE EndWalk
  BY <1>5 DEF EndWalk
<1>6. ASSUME NEW t \in Timers,
             \/ \E d \in Delays, r, m \in BOOLEAN, l \in Loops : Construct(t, d, r, l, m)
             \/ \E s \in Timers : Copy(t, s)
             \/ Destroy(t)
             \/ SetManual(t)
             \/ SetAutomatic(t)
      PROVE  HistoryOK'
  <2>1. /\ UNCHANGED <<firing, crashed, visits>>
        /\ meddled' \in BOOLEAN
        /\ stayed' \subseteq stayed
    BY <1>6 DEF Construct, Copy, Destroy, SetManual, SetAutomatic, SameRegistry, Registry
  <2> QED
    BY <2>1
<1>7. CASE UNCHANGED vars
  BY <1>7 DEF vars
<1> QED
  BY <1>1, <1>2, <1>3, <1>4, <1>5, <1>6, <1>7, ProgramSteps DEF Next, Process

\* A call on the registry in the middle of a walk is remembered as such, and so
\* is one that takes away the Timer that fires.
LEMMA RegistryCalls ==
  ASSUME ObjectsOK, RegistryOK, HistoryOK, NEW t \in Timers,
         \/ \E d \in Delays, r, m \in BOOLEAN, l \in Loops : Construct(t, d, r, l, m)
         \/ \E s \in Timers : Copy(t, s)
         \/ Destroy(t)
         \/ SetManual(t)
         \/ SetAutomatic(t)
  PROVE  /\ UNCHANGED <<firing, crashed, visits>>
         /\ meddled => meddled'
         /\ Walking /\ ~meddled' => UNCHANGED <<events, walk>>
         /\ walk'.pos = walk.pos /\ walk'.end = walk.end
         /\ Walking' <=> Walking
         /\ ~meddled' /\ firing # None /\ Lives(firing) => Lives(firing)'
<1>1. ASSUME NEW r, Registry(r)
      PROVE  /\ meddled => meddled'
             /\ Walking => meddled'
             /\ walk'.pos = walk.pos /\ walk'.end = walk.end
             /\ Walking' <=> Walking
  <2>1. walk' = walk \/ (Walking /\ walk' = [walk EXCEPT !.freed = events.block])
    BY <1>1 DEF Registry
  <2>2. walk'.pos = walk.pos /\ walk'.end = walk.end
    BY <2>1 DEF RegistryOK
  <2>3. Walking => walk.pos # 0
    BY DEF RegistryOK
  <2>4. Walking' <=> Walking
    BY <2>1, <2>2, <2>3 DEF Walking, NoWalk
  <2> QED
    BY <1>1, <2>2, <2>4 DEF Registry
<1>2. ASSUME SameRegistry
      PROVE  meddled' = meddled /\ events' = events /\ walk' = walk /\ (Walking' <=> Walking)
  BY <1>2 DEF SameRegistry, Walking
<1>3. ASSUME \A s \in Timers : Lives(s) => Lives(s)'
      PROVE  firing # None /\ Lives(firing) => Lives(firing)'
  <2>1. firing' = firing
    BY DEF Construct, Copy, Destroy, SetManual, SetAutomatic
  <2> QED
    BY <1>3, <2>1 DEF HistoryOK, Slots
<1>4. CASE Destroy(t)
  <2>1. UNCHANGED <<walk, firing, crashed, visits>>
    BY <1>4 DEF Destroy
  <2>2. meddled' = (meddled \/ firing = t \/ (Walking /\ ~timer[t].manual))
    BY <1>4 DEF Destroy
  <2>3. events' = IF timer[t].manual THEN events ELSE Erase(events, t)
    BY <1>4 DEF Destroy
  <2>4. \A s \in Timers \ {t} : timer'[s] = timer[s]
    BY <1>4 DEF Destroy, ObjectsOK
  <2>5. ~meddled' /\ firing # None /\ Lives(firing) => Lives(firing)'
    BY <2>1, <2>2, <2>4 DEF HistoryOK, Slots, Lives
  <2>6. Walking' <=> Walking
    BY <2>1 DEF Walking
  <2> QED
    BY <2>1, <2>2, <2>3, <2>5, <2>6
<1>5. ASSUME NEW d \in Delays, NEW r \in BOOLEAN, NEW m \in BOOLEAN, NEW l \in Loops,
             Construct(t, d, r, l, m)
      PROVE  /\ UNCHANGED <<firing, crashed, visits>>
             /\ \A s \in Timers : Lives(s) => Lives(s)'
             /\ SameRegistry \/ Registry(Push(events, t))
  BY <1>5 DEF Construct, Lives, ObjectsOK
<1>6. ASSUME NEW s \in Timers, Copy(t, s)
      PROVE  /\ UNCHANGED <<firing, crashed, visits>>
             /\ \A x \in Timers : Lives(x) => Lives(x)'
             /\ SameRegistry \/ Registry(Erase(Push(events, t), s))
  <2>1. timer[s] \in TimerObject /\ t # s /\ timer[t] = None
    BY <1>6 DEF Copy, Lives, ObjectsOK
  <2>2. [timer[s] EXCEPT !.manual = TRUE] \in TimerObject
    BY <2>1 DEF TimerObject
  <2>3. timer' = [timer EXCEPT ![t] = timer[s], ![s].manual = TRUE]
    BY <1>6 DEF Copy
  <2>4. /\ timer'[s] = [timer[s] EXCEPT !.manual = TRUE]
        /\ \A x \in Timers \ {s, t} : timer'[x] = timer[x]
    BY <2>1, <2>3 DEF ObjectsOK
  <2> QED
    BY <1>6, <2>1, <2>2, <2>4, NoneAssumption DEF Copy, Lives
<1>7. CASE SetManual(t) \/ SetAutomatic(t)
  <2>1. timer[t] \in TimerObject
    BY <1>7 DEF SetManual, SetAutomatic, Automatic, Lives, ObjectsOK
  <2>2. PICK m \in BOOLEAN : timer' = [timer EXCEPT ![t].manual = m]
    BY <1>7 DEF SetManual, SetAutomatic
  <2>3. [timer[t] EXCEPT !.manual = m] \in TimerObject
    BY <2>1 DEF TimerObject
  <2>4. \A s \in Timers : Lives(s) => Lives(s)'
    BY <2>2, <2>3, NoneAssumption DEF Lives, ObjectsOK
  <2>5. Registry(Erase(events, t)) \/ Registry(Push(events, t))
    BY <1>7 DEF SetManual, SetAutomatic
  <2>6. UNCHANGED <<firing, crashed, visits>>
    BY <1>7 DEF SetManual, SetAutomatic
  <2> QED
    BY <1>1, <1>3, <2>4, <2>5, <2>6
<1> QED
  BY <1>1, <1>2, <1>3, <1>4, <1>5, <1>6, <1>7

\* Every step keeps a walk that nothing meddles with inside the registry.
LEMMA NextWalk ==
  ObjectsOK /\ RegistryOK /\ Registered /\ HistoryOK /\ WalkOK /\ [Next]_vars => WalkOK'
<1> SUFFICES ASSUME ObjectsOK, RegistryOK, Registered, HistoryOK, WalkOK, [Next]_vars
             PROVE  WalkOK'
  OBVIOUS
<1>0. walk.pos \in Nat /\ walk.end \in Nat
  BY DEF RegistryOK
<1>1. ASSUME NEW t \in Timers, CallsTimer(t) PROVE WalkOK'
  <2>1. /\ UNCHANGED <<events, walk, meddled, crashed>> /\ (Walking => firing # None)
        /\ ~crashed
        /\ firing' = firing \/ (firing = None /\ firing' = t /\ Lives(t))
    BY <1>1 DEF CallsTimer, Start, Reset, Stop, Play, Pause, Yield, Assign, SameRegistry,
                ProgramCalls, Fires, Counts
  <2>2. \A s \in Timers : Lives(s)' = Lives(s)
    BY <1>1, CallKeepsAutomatic
  <2> QED
    BY <2>1, <2>2 DEF WalkOK, Walking, HistoryOK, Slots
<1>2. CASE SignalReturns
  <2>1. /\ UNCHANGED <<events, meddled>> /\ firing' = None /\ firing # None
        /\ walk' = IF Walking THEN [walk EXCEPT !.pos = @ + 1] ELSE walk
        /\ crashed' => ~Lives(firing)
    BY <1>2 DEF SignalReturns
  <2>2. CASE Walking
    <3>1. /\ walk'.pos = walk.pos + 1 /\ walk'.end = walk.end /\ walk'.freed = walk.freed
          /\ walk.pos <= walk.end
      BY <2>1, <2>2 DEF RegistryOK, WalkOK
    <3> QED
      BY <1>0, <2>1, <2>2, <3>1 DEF WalkOK
  <2>3. CASE ~Walking
    BY <2>1, <2>3 DEF WalkOK, Walking
  <2> QED
    BY <2>2, <2>3
<1>3. CASE StartWalk
  <2>1. /\ walk' = [pos |-> 1, end |-> events.size, freed |-> <<>>]
        /\ events.size > 0 /\ UNCHANGED <<events, firing, crashed>> /\ firing = None
        /\ ~crashed
    BY <1>3 DEF StartWalk
  <2>2. events.size \in Nat
    BY DEF RegistryOK, Vectors
  <2> QED
    BY <2>1, <2>2 DEF WalkOK
<1>4. CASE Turn
  <2> DEFINE t == Walked[walk.pos]
  <2>1. /\ Walking /\ firing = None /\ ~crashed /\ walk.pos <= walk.end
        /\ UNCHANGED <<events, meddled>>
        /\ (IF Lives(t) /\ walk.freed = <<>> THEN UNCHANGED crashed ELSE crashed' \in BOOLEAN)
    BY <1>4 DEF Turn
  <2>2. /\ firing' = (IF Lives(t) /\ Due(t) THEN t ELSE None)
        /\ \A s \in Timers : Lives(s)' = Lives(s)
        /\ walk' = IF firing' = None THEN [walk EXCEPT !.pos = @ + 1] ELSE walk
        /\ t \in Slots
    BY <1>4, TurnSteps
  <2>3. ASSUME ~meddled PROVE walk.freed = <<>> /\ walk.end = events.size /\ Lives(t)
    <3>1. walk.freed = <<>> /\ walk.end = events.size
      BY <2>1, <2>3 DEF WalkOK
    <3>2. walk.pos \in 1 .. events.size
      BY <1>0, <2>1, <3>1 DEF RegistryOK
    <3>3. t \in Entries(events)
      BY <3>1, <3>2 DEF Walked, Entries
    <3> QED
      BY <3>1, <3>3 DEF Registered, Automatic
  <2> HIDE DEF t
  <2>4. ~meddled => ~crashed'
    BY <2>1, <2>3
  <2>5. /\ walk'.end = walk.end /\ walk'.freed = walk.freed
        /\ firing' # None => walk'.pos = walk.pos
        /\ walk'.pos = walk.pos \/ walk'.pos = walk.pos + 1
    BY <2>2 DEF RegistryOK
  <2>6. walk'.pos <= walk'.end + 1 /\ (firing' # None => walk'.pos <= walk'.end)
    BY <1>0, <2>1, <2>5
  <2>7. firing' # None => Lives(firing)'
    BY <2>2 DEF Slots
  <2> QED
    BY <2>1, <2>3, <2>4, <2>5, <2>6, <2>7 DEF WalkOK
<1>5. CASE EndWalk
  <2>1. walk' = NoWalk /\ UNCHANGED <<firing, crashed>> /\ firing = None /\ ~crashed
    BY <1>5 DEF EndWalk
  <2> QED
    BY <2>1 DEF WalkOK, Walking, NoWalk
<1>6. ASSUME NEW t \in Timers,
             \/ \E d \in Delays, r, m \in BOOLEAN, l \in Loops : Construct(t, d, r, l, m)
             \/ \E s \in Timers : Copy(t, s)
             \/ Destroy(t)
             \/ SetManual(t)
             \/ SetAutomatic(t)
      PROVE  WalkOK'
  BY <1>6, RegistryCalls DEF WalkOK
<1>7. CASE UNCHANGED vars
  BY <1>7 DEF vars, WalkOK, Walking, Lives
<1> QED
  BY <1>1, <1>2, <1>3, <1>4, <1>5, <1>6, <1>7, ProgramSteps DEF Next, Process

-----------------------------------------------------------------------------
(* What the walk has yielded *)

\* The slots that were yielded: those before the position, and the one at it
\* while its Timer fires.
Passed(i) == i < walk.pos \/ (i = walk.pos /\ firing # None)

\* QuietWalkYieldsAll, before the walk has come to its end.
Yielded ==
  /\ ~Walking => visits = [t \in Timers |-> 0]
  /\ Walking /\ ~meddled =>
       \A t \in Timers :
         visits[t] = IF \E i \in 1 .. walk.end : Passed(i) /\ events.block[i] = t THEN 1 ELSE 0

\* Every step keeps count of the Timers that a quiet walk has passed.
LEMMA NextYielded ==
  /\ ObjectsOK /\ RegistryOK /\ Registered /\ HistoryOK /\ WalkOK /\ Yielded
  /\ [Next]_vars
  => Yielded'
<1> SUFFICES ASSUME ObjectsOK, RegistryOK, Registered, HistoryOK, WalkOK, Yielded,
                    [Next]_vars
             PROVE  Yielded'
  OBVIOUS
<1>0. walk.pos \in Nat /\ walk.end \in Nat
  BY DEF RegistryOK
<1>1. ASSUME NEW t \in Timers, CallsTimer(t) PROVE Yielded'
  <2>1. /\ UNCHANGED <<events, walk, meddled, visits>> /\ (Walking => firing # None)
        /\ firing' = firing \/ firing = None
    BY <1>1 DEF CallsTimer, Start, Reset, Stop, Play, Pause, Yield, Assign, SameRegistry,
                ProgramCalls, Fires, Counts
  <2>2. Walking => firing' = firing
    BY <2>1
  <2> QED
    BY <2>1, <2>2 DEF Yielded, Walking, Passed
<1>2. CASE SignalReturns
  <2>1. /\ UNCHANGED <<events, meddled, visits>> /\ firing' = None /\ firing # None
        /\ walk' = IF Walking THEN [walk EXCEPT !.pos = @ + 1] ELSE walk
    BY <1>2 DEF SignalReturns
  <2>2. CASE Walking
    <3>1. walk'.pos = walk.pos + 1 /\ walk'.end = walk.end
      BY <2>1, <2>2 DEF RegistryOK
    <3>2. Walking'
      BY <1>0, <3>1 DEF Walking, NoWalk
    <3>3. \A i \in 1 .. walk.end : Passed(i)' <=> Passed(i)
      BY <1>0, <2>1, <3>1 DEF Passed
    <3> QED
      BY <2>1, <2>2, <3>1, <3>2, <3>3 DEF Yielded
  <2>3. CASE ~Walking
    BY <2>1, <2>3 DEF Yielded, Walking
  <2> QED
    BY <2>2, <2>3
<1>3. CASE StartWalk
  <2>1. /\ walk' = [pos |-> 1, end |-> events.size, freed |-> <<>>]
        /\ UNCHANGED <<events, firing, visits>> /\ firing = None /\ ~Walking
    BY <1>3 DEF StartWalk
  <2>2. events.size \in Nat
    BY DEF RegistryOK, Vectors
  <2>3. \A i \in 1 .. events.size : ~Passed(i)'
    BY <2>1, <2>2 DEF Passed
  <2>4. Walking'
    BY <2>1 DEF Walking, NoWalk
  <2> QED
    BY <2>1, <2>3, <2>4 DEF Yielded
<1>4. CASE Turn
  <2> DEFINE y == Walked[walk.pos]
  <2>1. /\ Walking /\ firing = None /\ walk.pos <= walk.end
        /\ UNCHANGED <<events, meddled>>
        /\ visits' = [visits EXCEPT ![y] = @ + 1]
    BY <1>4 DEF Turn
  <2>2. /\ firing' = (IF Lives(y) /\ Due(y) THEN y ELSE None)
        /\ walk' = IF firing' = None THEN [walk EXCEPT !.pos = @ + 1] ELSE walk
    BY <1>4, TurnSteps
  <2>3. walk.pos \in 1 .. walk.end
    BY <1>0, <2>1 DEF RegistryOK
  <2>4. /\ walk'.end = walk.end
        /\ firing' # None => walk'.pos = walk.pos
        /\ firing' = None => walk'.pos = walk.pos + 1
    BY <2>2 DEF RegistryOK
  <2>5. Walking'
    BY <1>0, <2>3, <2>4 DEF Walking, NoWalk
  <2>6. \A i \in 1 .. walk.end : Passed(i)' <=> (Passed(i) \/ i = walk.pos)
    BY <1>0, <2>1, <2>4 DEF Passed
  <2>7. ~Passed(walk.pos)
    BY <1>0, <2>1 DEF Passed
  <2>8. ASSUME ~meddled
        PROVE  \A t \in Timers :
                 visits'[t] = IF \E i \in 1 .. walk.end : (Passed(i) \/ i = walk.pos)
                                                          /\ events.block[i] = t THEN 1 ELSE 0
    <3>1. walk.freed = <<>> /\ walk.end = events.size
      BY <2>1, <2>8 DEF WalkOK
    <3>2. y = events.block[walk.pos]
      BY <3>1 DEF Walked
    <3>3. \A i \in 1 .. walk.end : events.block[i] = y => i = walk.pos
      BY <2>3, <3>1, <3>2 DEF Registered, NoTwice
    <3> HIDE DEF y
    <3>4. SUFFICES ASSUME NEW t \in Timers
                   PROVE  visits'[t] = IF \E i \in 1 .. walk.end :
                                            (Passed(i) \/ i = walk.pos) /\ events.block[i] = t
                                         THEN 1 ELSE 0
      OBVIOUS
    <3>5. visits[t] = IF \E i \in 1 .. walk.end : Passed(i) /\ events.block[i] = t THEN 1 ELSE 0
      BY <2>1, <2>8 DEF Yielded
    <3>6. CASE t = y
      <4>1. visits[t] = 0
        BY <2>7, <3>3, <3>5, <3>6
      <4>2. visits'[t] = visits[t] + 1
        BY <2>1, <3>6 DEF HistoryOK
      <4> QED
        BY <2>3, <3>2, <3>6, <4>1, <4>2
    <3>7. CASE t # y
      <4>1. visits'[t] = visits[t]
        BY <2>1, <3>7 DEF HistoryOK
      <4>2. events.block[walk.pos] # t
        BY <3>2, <3>7
      <4> QED
        BY <3>5, <4>1, <4>2
    <3> QED
      BY <3>6, <3>7
  <2> QED
    BY <2>1, <2>4, <2>5, <2>6, <2>8 DEF Yielded
<1>5. CASE EndWalk
  BY <1>5 DEF EndWalk, Yielded, Walking
<1>6. ASSUME NEW t \in Timers,
             \/ \E d \in Delays, r, m \in BOOLEAN, l \in Loops : Construct(t, d, r, l, m)
             \/ \E s \in Timers : Copy(t, s)
             \/ Destroy(t)
             \/ SetManual(t)
             \/ SetAutomatic(t)
      PROVE  Yielded'
  BY <1>6, RegistryCalls DEF Yielded, Passed
<1>7. CASE UNCHANGED vars
  BY <1>7 DEF vars, Yielded, Walking, Passed
<1> QED
  BY <1>1, <1>2, <1>3, <1>4, <1>5, <1>6, <1>7, ProgramSteps DEF Next, Process

-----------------------------------------------------------------------------
(* What is owed *)

\* A Timer that loops is owed one firing less while its signal runs than when
\* the loop has been counted.
Uncounted(t) ==
  IF firing = t /\ timer[t].repeat /\ timer[t].loopCount > 0 THEN 1 ELSE 0

\* FiresAsAsked, by what the fields of each Timer still ask for.
OwedOK ==
  \A t \in Timers :
    Lives(t) /\ ~Forever(timer[t]) => owed[t] >= Asked(timer[t]) - Uncounted(t)

\* What the fields of a Timer ask for is a number, and at least one while the
\* firing of a loop is not counted.
LEMMA AskedIsNumber ==
  ASSUME NEW o \in TimerObject, ~Forever(o)
  PROVE  Asked(o) \in Nat /\ (o.repeat /\ o.loopCount > 0 => Asked(o) >= 1)
  BY DEF Asked, Forever, TimerObject

\* What the fields of a Timer ask for is never less than nothing.
LEMMA OwedIsEnough == ObjectsOK /\ OwedOK => FiresAsAsked
<1> SUFFICES ASSUME ObjectsOK, OwedOK, NEW t \in Timers, Lives(t), ~Forever(timer[t])
             PROVE  owed[t] >= 0
  BY DEF FiresAsAsked
<1>1. timer[t] \in TimerObject /\ owed[t] \in Int
  BY DEF ObjectsOK, Lives
<1>2. owed[t] >= Asked(timer[t]) - Uncounted(t)
  BY DEF OwedOK
<1>3. /\ Asked(timer[t]) \in Nat
      /\ timer[t].repeat /\ timer[t].loopCount > 0 => Asked(timer[t]) >= 1
  BY <1>1, AskedIsNumber
<1>4. Asked(timer[t]) - Uncounted(t) >= 0 /\ Uncounted(t) \in {0, 1}
  BY <1>3 DEF Uncounted
<1> QED
  BY <1>1, <1>2, <1>3, <1>4

\* A step that changes one Timer and what it is owed.
LEMMA OwedStep ==
  ASSUME OwedOK, ObjectsOK, NEW t \in Timers,
         \A s \in Timers \ {t} : /\ timer'[s] = timer[s] /\ owed'[s] = owed[s]
                                 /\ (firing' = s <=> firing = s),
         Lives(t)' /\ ~Forever(timer'[t]) =>
           owed'[t] >= Asked(timer'[t]) - Uncounted(t)'
  PROVE  OwedOK'
<1> SUFFICES ASSUME NEW s \in Timers, Lives(s)', ~Forever(timer'[s])
             PROVE  owed'[s] >= Asked(timer'[s]) - Uncounted(s)'
  BY DEF OwedOK
<1>1. CASE s = t
  BY <1>1
<1>2. CASE s # t
  <2>1. Lives(s) /\ timer'[s] = timer[s] /\ owed'[s] = owed[s] /\ Uncounted(s)' = Uncounted(s)
    BY <1>2 DEF Lives, Uncounted
  <2> QED
    BY <2>1 DEF OwedOK
<1> QED
  BY <1>1, <1>2

\* yield(), up to its signal.
LEMMA YieldedOwed ==
  ASSUME OwedOK, ObjectsOK, NEW t \in Timers, firing = None, Lives(t),
         IF Due(t) THEN Fires(t) ELSE Counts(t)
  PROVE  OwedOK'
<1> DEFINE o == timer[t]
           p == timer'[t]
<1>1. o \in TimerObject /\ owed[t] \in Int
  BY DEF ObjectsOK, Lives
<1>2. Uncounted(t) = 0
  BY NoneAssumption DEF Uncounted
<1>3. ~Forever(o) => owed[t] >= Asked(o)
  <2>1. ~Forever(o) => Asked(o) \in Nat
    BY <1>1, AskedIsNumber
  <2>2. ~Forever(o) => owed[t] >= Asked(o) - Uncounted(t)
    BY DEF OwedOK
  <2> QED
    BY <1>2, <2>1, <2>2
<1>4. CASE Due(t)
  <2>1. /\ firing' = t /\ o.isFinished = FALSE
        /\ timer' = [timer EXCEPT ![t] = IF o.repeat /\ o.loopCount # 0
                                           THEN [o EXCEPT !.counter = 0]
                                           ELSE [o EXCEPT !.isFinished = TRUE]]
        /\ owed' = [owed EXCEPT ![t] = IF Forever(o) THEN @ ELSE @ - 1]
    BY <1>1, <1>4 DEF Fires, Due, Running, TimerObject
  <2>2. \A s \in Timers \ {t} : /\ timer'[s] = timer[s] /\ owed'[s] = owed[s]
                                /\ (firing' = s <=> firing = s)
    BY <2>1, NoneAssumption DEF ObjectsOK
  <2>3. p = IF o.repeat /\ o.loopCount # 0 THEN [o EXCEPT !.counter = 0]
                                          ELSE [o EXCEPT !.isFinished = TRUE]
    BY <2>1 DEF ObjectsOK
  <2>4. owed'[t] = IF Forever(o) THEN owed[t] ELSE owed[t] - 1
    BY <2>1 DEF ObjectsOK
  <2>5. CASE o.repeat /\ o.loopCount # 0
    <3>1. /\ p.repeat = o.repeat /\ p.loopCount = o.loopCount
          /\ p.isFinished = o.isFinished
      BY <1>1, <2>3, <2>5 DEF TimerObject
    <3>2. Forever(p) = Forever(o) /\ Asked(p) = Asked(o)
      BY <3>1 DEF Forever, Asked
    <3>3. ASSUME ~Forever(o) PROVE owed'[t] >= Asked(p) - Uncounted(t)'
      <4>1. o.loopCount > 0
        BY <1>1, <2>5, <3>3 DEF Forever, TimerObject
      <4>2. Uncounted(t)' = 1
        BY <2>1, <2>5, <3>1, <4>1 DEF Uncounted
      <4>3. Asked(o) \in Nat
        BY <1>1, <3>3, AskedIsNumber
      <4> QED
        BY <1>1, <1>3, <2>4, <3>2, <3>3, <4>2, <4>3
    <3> HIDE DEF o, p
    <3> QED
      BY <2>2, <3>2, <3>3, OwedStep DEF p
  <2>6. CASE ~(o.repeat /\ o.loopCount # 0)
    <3>1. p.repeat = o.repeat /\ p.loopCount = o.loopCount /\ p.isFinished = TRUE
      BY <1>1, <2>3, <2>6 DEF TimerObject
    <3>2. ~Forever(o) /\ ~Forever(p) /\ Uncounted(t)' = 0
      BY <1>1, <2>6, <3>1 DEF Forever, Uncounted, TimerObject
    <3>3. Asked(p) = Asked(o) - 1 /\ Asked(o) \in Nat
      <4>1. Asked(o) \in Nat
        BY <1>1, <3>2, AskedIsNumber
      <4> HIDE DEF o, p
      <4>2. /\ Asked(p) = (IF o.repeat THEN o.loopCount ELSE 0) + 0
            /\ Asked(o) = (IF o.repeat THEN o.loopCount ELSE 0) + 1
        BY <2>1, <3>1, <3>2 DEF Asked, Forever, o
      <4>3. o.repeat => o.loopCount = 0
        BY <2>6
      <4> QED
        BY <4>1, <4>2, <4>3
    <3>4. owed'[t] >= Asked(p) - Uncounted(t)'
      BY <1>1, <1>3, <2>4, <3>2, <3>3
    <3> HIDE DEF o, p
    <3> QED
      BY <2>2, <3>4, OwedStep DEF p
  <2> QED
    BY <2>5, <2>6
<1>5. CASE ~Due(t)
  <2>1. UNCHANGED <<firing, owed>>
    BY <1>5 DEF Counts
  <2>2. \A s \in Timers \ {t} : timer'[s] = timer[s]
    BY <1>5 DEF Counts, ObjectsOK
  <2>3. /\ p.repeat = o.repeat /\ p.loopCount = o.loopCount
        /\ p.isFinished = o.isFinished
    BY <1>1, <1>5 DEF Counts, ObjectsOK, TimerObject
  <2>4. Forever(p) = Forever(o) /\ Asked(p) = Asked(o) /\ Uncounted(t)' = Uncounted(t)
    BY <2>1, <2>3 DEF Forever, Asked, Uncounted
  <2>5. ~Forever(p) => owed'[t] >= Asked(p) - Uncounted(t)'
    <3>1. ~Forever(o) => owed[t] >= Asked(o) - Uncounted(t)
      BY DEF OwedOK
    <3> HIDE DEF o, p
    <3> QED
      BY <2>1, <2>4, <3>1
  <2> HIDE DEF o, p
  <2> QED
    BY <2>1, <2>2, <2>5, OwedStep DEF p
<1> QED
  BY <1>4, <1>5

\* A step that changes nothing of what a Timer is asked, or stops it.
LEMMA AsksNoMore ==
  ASSUME OwedOK, ObjectsOK, NEW t \in Timers, firing' = firing, owed' = owed, Lives(t),
         NEW p \in TimerObject, timer' = [timer EXCEPT ![t] = p],
         p.repeat = timer[t].repeat, p.loopCount = timer[t].loopCount,
         p.isFinished = timer[t].isFinished \/ p.isFinished = TRUE
  PROVE  OwedOK'
<1> DEFINE o == timer[t]
<1>1. o \in TimerObject /\ timer'[t] = p /\ owed[t] \in Int
  BY DEF ObjectsOK, Lives
<1>2. Forever(p) = Forever(o)
  BY DEF Forever
<1>3. Uncounted(t)' = Uncounted(t) /\ Uncounted(t) \in {0, 1}
  BY <1>1 DEF Uncounted
<1>4. ASSUME ~Forever(p) PROVE owed'[t] >= Asked(p) - Uncounted(t)'
  <2>1. owed[t] >= Asked(o) - Uncounted(t)
    BY <1>2, <1>4 DEF OwedOK
  <2>2. Asked(o) \in Nat /\ Asked(p) \in Nat
    BY <1>1, <1>2, <1>4, AskedIsNumber
  <2>3. Asked(p) <= Asked(o)
    <3> HIDE DEF o
    <3>1. p.isFinished \in BOOLEAN /\ o.isFinished \in BOOLEAN
          /\ p.loopCount \in Int
      BY <1>1 DEF TimerObject
    <3>2. /\ Asked(p) = (IF p.repeat THEN p.loopCount ELSE 0) + (IF p.isFinished THEN 0 ELSE 1)
          /\ Asked(o) = (IF p.repeat THEN p.loopCount ELSE 0) + (IF o.isFinished THEN 0 ELSE 1)
      BY <1>2, <1>4 DEF Asked, o
    <3>3. p.isFinished = o.isFinished \/ p.isFinished = TRUE
      BY DEF o
    <3> QED
      BY <3>1, <3>2, <3>3
  <2> QED
    BY <1>1, <1>3, <2>1, <2>2, <2>3
<1>5. \A s \in Timers \ {t} : /\ timer'[s] = timer[s] /\ owed'[s] = owed[s]
                              /\ (firing' = s <=> firing = s)
  BY DEF ObjectsOK
<1> QED
  BY <1>1, <1>4, <1>5, OwedStep

\* The program's own calls: what it asks for anew is owed to it.
LEMMA CallsOwed ==
  ASSUME OwedOK, ObjectsOK, NEW t \in Timers, CallsTimer(t)
  PROVE  OwedOK'
<1>1. timer[t] \in TimerObject /\ Lives(t) /\ owed[t] \in Int
  BY DEF ObjectsOK, Lives, CallsTimer, Start, Reset, Stop, Play, Pause, Yield, Assign
<1>2. ASSUME NEW d \in Delays, Start(t, d) PROVE OwedOK'
  <2> DEFINE o == timer[t]
             p == [o EXCEPT !.counter = 0, !.delay = d, !.isFinished = FALSE]
  <2>1. /\ timer' = [timer EXCEPT ![t] = p]
        /\ owed' = [owed EXCEPT ![t] = IF o.isFinished THEN owed[t] + 1 ELSE owed[t]]
        /\ firing' = firing
    BY <1>2 DEF Start
  <2>2. /\ p \in TimerObject /\ p.repeat = o.repeat /\ p.loopCount = o.loopCount
        /\ p.isFinished = FALSE /\ o.isFinished \in BOOLEAN
    BY <1>1, DelaysAssumption DEF TimerObject
  <2> HIDE DEF p
  <2>3. timer'[t] = p /\ owed'[t] = IF o.isFinished THEN owed[t] + 1 ELSE owed[t]
    BY <2>1 DEF ObjectsOK
  <2>4. Forever(p) = Forever(o)
    BY <2>2 DEF Forever
  <2>5. Uncounted(t)' = Uncounted(t) /\ Uncounted(t) \in {0, 1}
    BY <2>1, <2>2, <2>3 DEF Uncounted
  <2>6. ASSUME ~Forever(p) PROVE owed'[t] >= Asked(p) - Uncounted(t)'
    <3>1. owed[t] >= Asked(o) - Uncounted(t)
      BY <1>1, <2>4, <2>6 DEF OwedOK
    <3>2. Asked(o) \in Nat
      BY <1>1, <2>4, <2>6, AskedIsNumber
    <3>3. Asked(p) = IF o.isFinished THEN Asked(o) + 1 ELSE Asked(o)
      <4>1. o.loopCount \in Int
        BY <1>1 DEF TimerObject
      <4> HIDE DEF o
      <4> QED
        BY <2>2, <2>4, <2>6, <4>1 DEF Asked
    <3> HIDE DEF o
    <3> QED
      BY <1>1, <2>3, <2>5, <3>1, <3>2, <3>3
  <2>7. \A s \in Timers \ {t} : /\ timer'[s] = timer[s] /\ owed'[s] = owed[s]
                                /\ (firing' = s <=> firing = s)
    BY <2>1 DEF ObjectsOK
  <2> QED
    BY <2>3, <2>6, <2>7, OwedStep
<1>3. CASE Reset(t)
  <2> DEFINE p == [timer[t] EXCEPT !.counter = 0]
  <2>1. /\ p \in TimerObject /\ p.repeat = timer[t].repeat
        /\ p.loopCount = timer[t].loopCount /\ p.isFinished = timer[t].isFinished
    BY <1>1 DEF TimerObject
  <2>2. timer' = [timer EXCEPT ![t] = p] /\ firing' = firing /\ owed' = owed
    BY <1>3 DEF Reset, Assign
  <2> HIDE DEF p
  <2> QED
    BY <1>1, <2>1, <2>2, AsksNoMore
<1>4. CASE Stop(t)
  <2> DEFINE p == [timer[t] EXCEPT !.isFinished = TRUE]
  <2>1. /\ p \in TimerObject /\ p.repeat = timer[t].repeat
        /\ p.loopCount = timer[t].loopCount /\ p.isFinished = TRUE
    BY <1>1 DEF TimerObject
  <2>2. timer' = [timer EXCEPT ![t] = p] /\ firing' = firing /\ owed' = owed
    BY <1>4 DEF Stop, Assign
  <2> HIDE DEF p
  <2> QED
    BY <1>1, <2>1, <2>2, AsksNoMore
<1>5. ASSUME NEW b \in BOOLEAN, Assign(t, "paused", b) PROVE OwedOK'
  <2> DEFINE p == [timer[t] EXCEPT !.paused = b]
  <2>1. /\ p \in TimerObject /\ p.repeat = timer[t].repeat
        /\ p.loopCount = timer[t].loopCount /\ p.isFinished = timer[t].isFinished
    BY <1>1 DEF TimerObject
  <2>2. timer' = [timer EXCEPT ![t] = p] /\ firing' = firing /\ owed' = owed
    BY <1>5 DEF Assign
  <2> HIDE DEF p
  <2> QED
    BY <1>1, <2>1, <2>2, AsksNoMore
<1>6. CASE Yield(t)
  BY <1>6, YieldedOwed DEF Yield
<1> QED
  BY <1>2, <1>3, <1>4, <1>5, <1>6 DEF CallsTimer, Play, Pause

\* A Timer that is made, copied or switched is owed what its fields ask for.
LEMMA RegistryCallsOwed ==
  ASSUME OwedOK, ObjectsOK, NEW t \in Timers,
         \/ \E d \in Delays, r, m \in BOOLEAN, l \in Loops : Construct(t, d, r, l, m)
         \/ \E s \in Timers : Copy(t, s)
         \/ Destroy(t)
         \/ SetManual(t)
         \/ SetAutomatic(t)
  PROVE  OwedOK'
<1>1. ASSUME NEW d \in Delays, NEW r \in BOOLEAN, NEW m \in BOOLEAN, NEW l \in Loops,
             Construct(t, d, r, l, m)
      PROVE  OwedOK'
  <2> DEFINE o == [manual |-> m, paused |-> FALSE, repeat |-> r, isFinished |-> FALSE,
                   delay |-> d, loopCount |-> l, counter |-> 0]
  <2>1. o \in TimerObject
    BY DelaysAssumption, LoopsAssumption DEF TimerObject
  <2> HIDE DEF o
  <2>2. timer' = [timer EXCEPT ![t] = o] /\ firing' = firing
    BY <1>1 DEF Construct, o
  <2>3. timer'[t] = o
    BY <2>2 DEF ObjectsOK
  <2>4. owed' = [owed EXCEPT ![t] = Asked(o)]
    BY <1>1, <2>3 DEF Construct
  <2>5. owed'[t] = Asked(o) /\ Uncounted(t)' \in {0, 1}
    BY <2>4 DEF ObjectsOK, Uncounted
  <2>6. ~Forever(o) => owed'[t] >= Asked(o) - Uncounted(t)'
    BY <2>1, <2>5, AskedIsNumber
  <2>7. \A s \in Timers \ {t} : /\ timer'[s] = timer[s] /\ owed'[s] = owed[s]
                                /\ (firing' = s <=> firing = s)
    BY <2>2, <2>4 DEF ObjectsOK
  <2> QED
    BY <2>3, <2>6, <2>7, OwedStep
<1>2. ASSUME NEW s \in Timers, Copy(t, s) PROVE OwedOK'
  <2> DEFINE o == timer[s]
             p == [o EXCEPT !.manual = TRUE]
  <2>1. o \in TimerObject /\ t # s /\ Lives(s)
    BY <1>2 DEF Copy, Lives, ObjectsOK
  <2>2. /\ p \in TimerObject /\ p.repeat = o.repeat /\ p.loopCount = o.loopCount
        /\ p.isFinished = o.isFinished
    BY <2>1 DEF TimerObject
  <2>3. /\ timer' = [timer EXCEPT ![t] = timer[s], ![s].manual = TRUE]
        /\ owed' = [owed EXCEPT ![t] = Asked(o)] /\ firing' = firing
    BY <1>2 DEF Copy
  <2>4. /\ timer'[t] = o /\ timer'[s] = p
        /\ \A x \in Timers \ {s, t} : timer'[x] = timer[x]
        /\ owed'[t] = Asked(o) /\ \A x \in Timers \ {t} : owed'[x] = owed[x]
    BY <2>1, <2>3 DEF ObjectsOK
  <2> HIDE DEF o, p
  <2>5. /\ Forever(p) = Forever(o) /\ Asked(p) = Asked(o)
        /\ Uncounted(s)' = Uncounted(s) /\ Uncounted(t)' \in {0, 1}
    BY <2>2, <2>3, <2>4 DEF Forever, Asked, Uncounted, o
  <2> SUFFICES ASSUME NEW x \in Timers, Lives(x)', ~Forever(timer'[x])
               PROVE  owed'[x] >= Asked(timer'[x]) - Uncounted(x)'
    BY DEF OwedOK
  <2>6. CASE x = t
    BY <2>1, <2>4, <2>5, <2>6, AskedIsNumber
  <2>7. CASE x = s
    <3>1. owed[s] >= Asked(o) - Uncounted(s)
      BY <2>1, <2>4, <2>5, <2>7 DEF OwedOK, o
    <3> QED
      BY <2>1, <2>4, <2>5, <2>7, <3>1
  <2>8. CASE x \notin {s, t}
    <3>1. /\ timer'[x] = timer[x] /\ owed'[x] = owed[x] /\ Uncounted(x)' = Uncounted(x)
          /\ Lives(x)
      BY <2>3, <2>4, <2>8 DEF Uncounted, Lives
    <3> QED
      BY <3>1 DEF OwedOK
  <2> QED
    BY <2>6, <2>7, <2>8
<1>3. CASE Destroy(t)
  <2>1. /\ timer'[t] = None /\ \A s \in Timers \ {t} : timer'[s] = timer[s]
        /\ owed' = owed /\ firing' = firing
    BY <1>3 DEF Destroy, ObjectsOK
  <2> QED
    BY <2>1, OwedStep DEF Lives
<1>4. ASSUME NEW m \in BOOLEAN, timer' = [timer EXCEPT ![t].manual = m], Lives(t),
             firing' = firing, owed' = owed
      PROVE  OwedOK'
  <2> DEFINE p == [timer[t] EXCEPT !.manual = m]
  <2>1. timer[t] \in TimerObject
    BY <1>4 DEF Lives, ObjectsOK
  <2>2. /\ p \in TimerObject /\ p.repeat = timer[t].repeat
        /\ p.loopCount = timer[t].loopCount /\ p.isFinished = timer[t].isFinished
    BY <2>1 DEF TimerObject
  <2>3. timer' = [timer EXCEPT ![t] = p]
    BY <1>4
  <2> HIDE DEF p
  <2> QED
    BY <1>4, <2>2, <2>3, AsksNoMore
<1>5. CASE SetManual(t) \/ SetAutomatic(t)
  BY <1>4, <1>5 DEF SetManual, SetAutomatic, Automatic
<1> QED
  BY <1>1, <1>2, <1>3, <1>5

\* The loop is counted when the signal returns.
LEMMA ReturnOwed ==
  ASSUME OwedOK, ObjectsOK, HistoryOK, SignalReturns
  PROVE  OwedOK'
<1>1. firing' = None /\ owed' = owed /\ firing \in Timers
  BY DEF SignalReturns, HistoryOK, Slots
<1>2. ASSUME NEW t \in Timers, firing = t, Lives(t) PROVE OwedOK'
  <2> DEFINE o == timer[t]
             left == IF o.loopCount > 0 THEN o.loopCount - 1 ELSE o.loopCount
             p == timer'[t]
  <2>1. o \in TimerObject /\ owed[t] \in Int
    BY <1>1, <1>2 DEF Lives, ObjectsOK
  <2>2. timer' = [timer EXCEPT ![t].loopCount = left, ![t].counter = o.counter + 1]
    BY <1>1, <1>2, <2>1 DEF SignalReturns, ObjectsOK, TimerObject
  <2> HIDE DEF left
  <2>3. p.repeat = o.repeat /\ p.loopCount = left /\ p.isFinished = o.isFinished
    BY <1>1, <2>1, <2>2 DEF ObjectsOK, TimerObject
  <2>4. Uncounted(t)' = 0
    BY <1>1, NoneAssumption DEF Uncounted
  <2>5. ASSUME ~Forever(p) PROVE owed'[t] >= Asked(p) - Uncounted(t)'
    <3>1. ~Forever(o) /\ o.loopCount \in Int
      BY <2>1, <2>3, <2>5 DEF Forever, left, TimerObject
    <3>2. owed[t] >= Asked(o) - Uncounted(t) /\ Asked(o) \in Nat
      BY <1>1, <1>2, <2>1, <3>1, AskedIsNumber DEF OwedOK
    <3>3. Asked(p) = Asked(o) - Uncounted(t)
      <4>1. /\ Asked(p) = (IF o.repeat THEN left ELSE 0) + (IF o.isFinished THEN 0 ELSE 1)
            /\ Asked(o) = (IF o.repeat THEN o.loopCount ELSE 0) + (IF o.isFinished THEN 0 ELSE 1)
        <5> HIDE DEF o, p
        <5> QED
          BY <2>3, <2>5, <3>1 DEF Asked
      <4>2. Uncounted(t) = IF o.repeat /\ o.loopCount > 0 THEN 1 ELSE 0
        BY <1>2 DEF Uncounted
      <4> HIDE DEF o, p
      <4> QED
        BY <3>1, <4>1, <4>2 DEF left
    <3>4. Uncounted(t) \in {0, 1}
      BY DEF Uncounted
    <3> HIDE DEF o, p
    <3> QED
      BY <1>1, <2>1, <2>4, <3>2, <3>3, <3>4
  <2>6. \A s \in Timers \ {t} : /\ timer'[s] = timer[s] /\ owed'[s] = owed[s]
                                /\ (firing' = s <=> firing = s)
    BY <1>1, <1>2, <2>2, NoneAssumption DEF ObjectsOK
  <2> HIDE DEF o, p
  <2> QED
    BY <2>5, <2>6, OwedStep DEF p
<1>3. ASSUME NEW t \in Timers, firing = t, ~Lives(t) PROVE OwedOK'
  <2>1. timer' = timer /\ ~Lives(t)'
    BY <1>3 DEF SignalReturns, Lives
  <2>2. \A s \in Timers \ {t} : firing' = s <=> firing = s
    BY <1>1, <1>3, NoneAssumption
  <2> QED
    BY <1>1, <2>1, <2>2, OwedStep
<1> QED
  BY <1>1, <1>2, <1>3

\* Every step keeps owing each Timer what its fields ask for.
LEMMA NextOwed ==
  ObjectsOK /\ RegistryOK /\ HistoryOK /\ OwedOK /\ [Next]_vars => OwedOK'
<1> SUFFICES ASSUME ObjectsOK, RegistryOK, HistoryOK, OwedOK, [Next]_vars
             PROVE  OwedOK'
  OBVIOUS
<1>1. CASE UNCHANGED <<timer, owed, firing>>
  BY <1>1 DEF OwedOK, Lives, Uncounted
<1>2. CASE Turn
  <2> DEFINE t == Walked[walk.pos]
  <2>1. /\ firing = None
        /\ IF ~Lives(t) THEN UNCHANGED <<timer, firing, owed>>
           ELSE IF Due(t) THEN Fires(t)
           ELSE Counts(t)
    BY <1>2 DEF Turn
  <2>2. t \in Slots
    BY <1>2, TurnSteps
  <2> HIDE DEF t
  <2>3. CASE ~Lives(t)
    BY <1>1, <2>1, <2>3
  <2>4. CASE Lives(t) /\ t \in Timers
    BY <2>1, <2>4, YieldedOwed
  <2>5. CASE t = None /\ t \notin Timers
    <3>1. /\ \A s \in Timers : timer'[s] = timer[s] /\ owed'[s] = owed[s]
          /\ firing' = None
      BY <2>1, <2>5 DEF Fires, Counts, ObjectsOK
    <3> QED
      BY <2>1, <3>1 DEF OwedOK, Lives, Uncounted
  <2> QED
    BY <2>2, <2>3, <2>4, <2>5 DEF Slots
<1>3. CASE StartWalk \/ EndWalk
  BY <1>1, <1>3 DEF StartWalk, EndWalk
<1>4. CASE SignalReturns
  BY <1>4, ReturnOwed
<1>5. CASE Program
  BY <1>5, ProgramSteps, CallsOwed, RegistryCallsOwed
<1>6. CASE UNCHANGED vars
  BY <1>1, <1>6 DEF vars
<1> QED
  BY <1>2, <1>3, <1>4, <1>5, <1>6 DEF Next, Process

-----------------------------------------------------------------------------

\* RegisteredOnce and QuietWalkYieldsAll speak of what the registry and the walk
\* hold, and HarmOnlyByMeddling of what the walk may read; FiresAsAsked is kept
\* by the fields of each Timer.
IInv ==
  /\ ObjectsOK
  /\ RegistryOK
  /\ Registered
  /\ HistoryOK
  /\ WalkOK
  /\ Yielded
  /\ OwedOK

\* It holds before any Timer is made.
LEMMA InitInvariant == Init => IInv
<1> SUFFICES ASSUME Init
             PROVE  IInv
  OBVIOUS
<1> USE DEF Init
<1>1. /\ Empty \in Vectors(Slots) /\ Entries(Empty) = {} /\ NoTwice(Empty)
      /\ <<>> \in Seq(Slots)
  BY EmptyVector, EmptySeq
<1>2. ObjectsOK /\ HistoryOK
  <2>1. 0 \in 0 .. MaxCalls
    BY MaxCallsAssumption
  <2>2. timer \in [Timers -> TimerObject \cup {None}]
    OBVIOUS
  <2>3. owed \in [Timers -> Int]
    OBVIOUS
  <2>4. visits \in [Timers -> Nat]
    OBVIOUS
  <2> QED
    BY <2>1, <2>2, <2>3, <2>4 DEF ObjectsOK, HistoryOK, Slots
<1>3. RegistryOK
  <2>1. walk \in [pos : Nat, end : Nat, freed : Seq(Slots)] /\ walk.end = 0 /\ walk.freed = <<>>
    BY <1>1 DEF NoWalk
  <2>2. Len(Walked) = 0
    BY <2>1 DEF Walked, Empty
  <2> QED
    BY <1>1, <2>1, <2>2 DEF RegistryOK, Walking
<1>4. Registered
  <2>1. Automatic = {}
    BY DEF Automatic, Lives
  <2> QED
    BY <1>1, <2>1 DEF Registered
<1>5. WalkOK /\ Yielded
  BY DEF WalkOK, Yielded, Walking
<1>6. OwedOK
  BY DEF OwedOK, Lives
<1> QED
  BY <1>2, <1>3, <1>4, <1>5, <1>6 DEF IInv

\* Every step keeps it.
LEMMA NextInvariant == IInv /\ [Next]_vars => IInv'
  BY NextObjects, NextRegistry, NextHistory, NextWalk, NextYielded, NextOwed DEF IInv

\* The inductive invariant of the Timers, the registry and the walk holds of every
\* reachable state.
THEOREM Invariance == Spec => []IInv
  BY InitInvariant, NextInvariant, PTL DEF Spec

\* The Timers, the registry and the walk keep their types, and a walk ends within
\* the block it reads.
THEOREM TypeCorrect == Spec => []TypeOK
<1>1. IInv => TypeOK
  BY DEF IInv, ObjectsOK, RegistryOK, HistoryOK, TypeOK, Slots
<1> QED
  BY <1>1, Invariance, PTL

\* The registry lists each automatic Timer once and nothing else, however Timers are
\* made, copied, switched and destroyed.
THEOREM RegistryIsExact == Spec => []RegisteredOnce
<1>1. ASSUME RegistryOK, Registered, NEW t \in Timers
      PROVE  Cardinality({i \in 1 .. events.size : events.block[i] = t})
               = IF t \in Automatic THEN 1 ELSE 0
  <2> DEFINE P == {i \in 1 .. events.size : events.block[i] = t}
  <2>1. CASE t \in Automatic
    <3>1. PICK i \in 1 .. events.size : events.block[i] = t
      BY <1>1, <2>1 DEF Registered, Entries
    <3>2. P = {i}
      BY <1>1, <3>1 DEF Registered, NoTwice
    <3>3. Cardinality({i}) = 1
      BY FS_Singleton
    <3> QED
      BY <2>1, <3>2, <3>3
  <2>2. CASE t \notin Automatic
    <3>1. P = {}
      BY <1>1, <2>2 DEF Registered, Entries
    <3>2. Cardinality({}) = 0
      BY FS_EmptySet
    <3> QED
      BY <2>2, <3>1, <3>2
  <2> QED
    BY <2>1, <2>2
<1>2. IInv => RegisteredOnce
  BY <1>1 DEF IInv, RegisteredOnce
<1> QED
  BY <1>2, Invariance, PTL

\* A walk whose signals leave the registry alone yields every automatic Timer once and
\* no other.
THEOREM QuietWalksYieldAll == Spec => []QuietWalkYieldsAll
<1>1. IInv => QuietWalkYieldsAll
  <2> SUFFICES ASSUME IInv, Walking, walk.pos > walk.end, ~meddled, NEW t \in Timers
               PROVE  visits[t] = IF t \in Automatic THEN 1 ELSE 0
    BY DEF QuietWalkYieldsAll
  <2>1. walk.pos \in Nat /\ walk.end \in Nat /\ walk.end = events.size
    BY DEF IInv, RegistryOK, WalkOK
  <2>2. \A i \in 1 .. walk.end : Passed(i)
    BY <2>1 DEF Passed
  <2>3. visits[t] = IF \E i \in 1 .. walk.end : events.block[i] = t THEN 1 ELSE 0
    BY <2>2 DEF IInv, Yielded
  <2>4. Automatic = {events.block[i] : i \in 1 .. walk.end}
    BY <2>1 DEF IInv, Registered, Entries
  <2> QED
    BY <2>3, <2>4
<1> QED
  BY <1>1, Invariance, PTL

\* Only a signal that changes the registry, or destroys its own Timer, can do harm.
THEOREM HarmComesFromSignals == Spec => []HarmOnlyByMeddling
<1>1. IInv => HarmOnlyByMeddling
  BY DEF IInv, WalkOK, HarmOnlyByMeddling
<1> QED
  BY <1>1, Invariance, PTL

\* No Timer fires more often than the program asked of it, whatever its signals do.
THEOREM FiringsAreAsked == Spec => []FiresAsAsked
<1>1. IInv => FiresAsAsked
  BY OwedIsEnough DEF IInv
<1> QED
  BY <1>1, Invariance, PTL
=============================================================================
