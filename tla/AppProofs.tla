----------------------------- MODULE AppProofs -----------------------------
(***************************************************************************)
(* Proofs about App, for any set of Apps and any bound on the events, and  *)
(* about Frame, the render loop that an App runs, for any layers and       *)
(* Drawables and any bound on the program's calls.                         *)
(***************************************************************************)
EXTENDS App, Frame, VectorProofs, TLAPS

-----------------------------------------------------------------------------
(* App *)

\* Whatever run() has on the stack is an App that lives.
RunnerLives == runner # NoApp => state[runner] # "absent"

\* SDL, the audio device and the buffers last from the constructor to the
\* shutdown, which the App that is shut down is marked with.
LiveInService ==
  \A a \in Apps :
    state[a] # "absent" =>
      (sdlOpen /\ audioOpen /\ a \in buffers) \/ a \in finalized

\* InService is not inductive by itself: run() starts on an App that nothing
\* is said about, so every living App has to be in service; and that no other
\* App's shutdown takes it away needs MainAppLives, one App at a time.
IInv ==
  /\ MainAppLives
  /\ RunnerLives
  /\ LiveInService

-----------------------------------------------------------------------------

\* Before any App is made every variable has its type.
LEMMA InitTypes == Init => TypeOK
<1> SUFFICES ASSUME Init PROVE TypeOK
  OBVIOUS
<1>1. state \in [Apps -> AppStates]
  BY DEF Init, AppStates
<1>2. runner = NoApp /\ place = "outside" /\ place \in Places
  BY DEF Init, Places
<1>3. events \in Seq(Events)
  BY DEF Init
<1>4. mainApp \in Apps \cup {NoApp} /\ runner \in Apps \cup {NoApp}
  BY DEF Init
<1>5. buffers \subseteq Apps /\ due \subseteq Branches /\ finalized \subseteq Apps
  BY DEF Init
<1>6. {sdlOpen, audioOpen, pressed, told} \subseteq BOOLEAN
  BY DEF Init
<1> QED
  BY <1>1, <1>2, <1>3, <1>4, <1>5, <1>6 DEF TypeOK

\* Construction and destruction keep the types.
LEMMA LifeTypes ==
  ASSUME TypeOK, NEW a \in Apps,
         Construct(a) \/ ConstructThrows(a) \/ Destruct(a) \/ Close(a) \/ Run(a)
  PROVE  TypeOK'
<1> USE NoAppAssumption
    DEF TypeOK, AppStates, Callbacks, Places, Branches, lifeVars, userVars,
        SetState, ShutDown
<1>1. CASE Construct(a)
  BY <1>1 DEF Construct
<1>2. CASE ConstructThrows(a)
  BY <1>2 DEF ConstructThrows
<1>3. CASE Destruct(a)
  BY <1>3 DEF Destruct
<1>4. CASE Close(a)
  BY <1>4 DEF Close
<1>5. CASE Run(a)
  BY <1>5 DEF Run
<1> QED
  BY <1>1, <1>2, <1>3, <1>4, <1>5

\* The steps of run() keep the types.
LEMMA RunTypes ==
  ASSUME TypeOK, RunStep
  PROVE  TypeOK'
<1> USE NoAppAssumption
    DEF TypeOK, AppStates, Callbacks, Places, Branches, Events, lifeVars,
        userVars, SetState, ShutDown, Go
<1>1. CASE Opened
  BY <1>1 DEF Opened
<1>2. CASE Loop
  BY <1>2 DEF Loop
<1>3. CASE Poll
  BY <1>3 DEF Poll
<1>4. CASE Cycle
  BY <1>4 DEF Cycle, Branch
<1>5. CASE Frame
  BY <1>5 DEF Frame, Branch
<1>6. CASE Return
  BY <1>6 DEF Return
<1>7. CASE Finalize
  BY <1>7 DEF Finalize
<1>8. CASE Closed
  BY <1>8 DEF Closed
<1> QED
  BY <1>1, <1>2, <1>3, <1>4, <1>5, <1>6, <1>7, <1>8 DEF RunStep

\* So do the calls that touch the event queue, exceptions and time.
LEMMA WorldTypes ==
  ASSUME TypeOK,
         \/ CloseButtonPressed
         \/ Throw
         \/ \E e \in Events : EventArrives(e)
         \/ \E b \in Branches : Tick(b)
  PROVE  TypeOK'
<1> USE NoAppAssumption
    DEF TypeOK, AppStates, Callbacks, Places, Branches, lifeVars, userVars
<1>1. CASE CloseButtonPressed
  <2>1. told' \in BOOLEAN
    BY <1>1 DEF CloseButtonPressed
  <2>2. events' \in Seq(Events)
    BY <1>1 DEF CloseButtonPressed
  <2> QED
    BY <1>1, <2>1, <2>2 DEF CloseButtonPressed
<1>2. CASE Throw
  BY <1>2 DEF Throw
<1>3. ASSUME NEW e \in Events, EventArrives(e)
      PROVE  TypeOK'
  <2>1. pressed' \in BOOLEAN
    BY <1>3 DEF EventArrives
  <2>2. events' \in Seq(Events)
    BY <1>3 DEF EventArrives
  <2> QED
    BY <1>3, <2>1, <2>2 DEF EventArrives
<1>4. ASSUME NEW b \in Branches, Tick(b)
      PROVE  TypeOK'
  BY <1>4 DEF Tick
<1> QED
  BY <1>1, <1>2, <1>3, <1>4

\* Every variable of the application keeps its type, and run() is on the
\* stack exactly while the main thread is inside it.
THEOREM TypeCorrect == Spec => []TypeOK
<1>1. TypeOK /\ [Next]_vars => TypeOK'
  <2> SUFFICES ASSUME TypeOK, [Next]_vars
               PROVE  TypeOK'
    OBVIOUS
  <2>1. CASE UNCHANGED vars
    BY <2>1 DEF vars, TypeOK
  <2> QED
    BY <2>1, LifeTypes, RunTypes, WorldTypes DEF Next, ProgramStep
<1> QED
  BY <1>1, InitTypes, PTL DEF Spec

-----------------------------------------------------------------------------

\* Construction, destruction, close() and the start of run() keep the
\* invariant.
LEMMA LifeInvariance ==
  ASSUME TypeOK, IInv, NEW a \in Apps,
         Construct(a) \/ ConstructThrows(a) \/ Destruct(a) \/ Close(a) \/ Run(a)
  PROVE  IInv'
<1> USE NoAppAssumption
    DEF TypeOK, IInv, MainAppLives, RunnerLives, LiveInService, AppStates,
        lifeVars, SetState, ShutDown, IsAppClosing
<1>1. CASE Construct(a)
  BY <1>1 DEF Construct
<1>2. CASE ConstructThrows(a)
  BY <1>2 DEF ConstructThrows
<1>3. CASE Destruct(a)
  BY <1>3 DEF Destruct
<1>4. CASE Close(a)
  BY <1>4 DEF Close
<1>5. CASE Run(a)
  BY <1>5 DEF Run
<1> QED
  BY <1>1, <1>2, <1>3, <1>4, <1>5

\* The steps of run() keep it; the shutdown of the one App that lives marks
\* that App.
LEMMA RunInvariance ==
  ASSUME TypeOK, IInv, RunStep
  PROVE  IInv'
<1> USE NoAppAssumption
    DEF TypeOK, IInv, MainAppLives, RunnerLives, LiveInService, AppStates,
        Callbacks, lifeVars, SetState, ShutDown, IsAppClosing, Go
<1>1. CASE Opened
  BY <1>1 DEF Opened
<1>2. CASE Loop
  BY <1>2 DEF Loop
<1>3. CASE Poll
  BY <1>3 DEF Poll
<1>4. CASE Cycle \/ Frame
  BY <1>4 DEF Cycle, Frame, Branch
<1>5. CASE Return
  BY <1>5 DEF Return
<1>6. CASE Finalize
  BY <1>6 DEF Finalize
<1>7. CASE Closed
  BY <1>7 DEF Closed
<1> QED
  BY <1>1, <1>2, <1>3, <1>4, <1>5, <1>6, <1>7 DEF RunStep

\* The invariant holds in every reachable state.
LEMMA Invariance == Spec => []IInv
<1>1. Init => IInv
  BY DEF Init, IInv, MainAppLives, RunnerLives, LiveInService
<1>2. TypeOK /\ IInv /\ [Next]_vars => IInv'
  <2> SUFFICES ASSUME TypeOK, IInv, [Next]_vars
               PROVE  IInv'
    OBVIOUS
  <2> USE DEF IInv, MainAppLives, RunnerLives, LiveInService, lifeVars
  <2>1. CASE CloseButtonPressed
    BY <2>1 DEF CloseButtonPressed
  <2>2. CASE Throw
    BY <2>2 DEF Throw
  <2>3. CASE \E e \in Events : EventArrives(e)
    BY <2>3 DEF EventArrives
  <2>4. CASE \E b \in Branches : Tick(b)
    BY <2>4 DEF Tick
  <2>5. CASE UNCHANGED vars
    BY <2>5 DEF vars
  <2> QED
    BY <2>1, <2>2, <2>3, <2>4, <2>5, LifeInvariance, RunInvariance
    DEF Next, ProgramStep
<1> QED
  BY <1>1, <1>2, TypeCorrect, PTL DEF Spec

\* An App that lives is mainApp, so no two Apps ever live at once.
THEOREM OneAppLives == Spec => []MainAppLives
<1>1. IInv => MainAppLives
  BY DEF IInv
<1> QED
  BY <1>1, Invariance, PTL

\* Every callback and every step of the main loop has SDL, the audio device
\* and the App's buffers to work with, unless the App was shut down before.
THEOREM RunInService == Spec => []InService
<1>1. TypeOK /\ IInv => InService
  BY DEF TypeOK, IInv, RunnerLives, LiveInService, InService
<1> QED
  BY <1>1, Invariance, TypeCorrect, PTL

\* A close request is never lost: a closing App is closing until it is closed
\* or gone.
THEOREM CloseRequestsStick == Spec => ClosingSticks
<1> DEFINE Sticks ==
      \A a \in Apps :
        IsAppClosing(a) => state'[a] \in {"closing", "closed", "absent"}
<1>1. TypeOK /\ [Next]_vars => [Sticks]_vars
  <2> SUFFICES ASSUME TypeOK, Next, NEW a \in Apps, state[a] = "closing"
               PROVE  state'[a] \in {"closing", "closed", "absent"}
    BY DEF IsAppClosing
  <2> USE NoAppAssumption
      DEF TypeOK, SetState, IsAppClosing, lifeVars, userVars
  <2>1. ASSUME NEW b \in Apps,
               Construct(b) \/ ConstructThrows(b) \/ Destruct(b) \/ Close(b) \/ Run(b)
        PROVE  state'[a] \in {"closing", "closed", "absent"}
    BY <2>1 DEF Construct, ConstructThrows, Destruct, Close, Run
  <2>2. CASE RunStep
    BY <2>2 DEF RunStep, Opened, Loop, Poll, Cycle, Frame, Branch, Return,
                Finalize, Closed, Go, Callbacks
  <2>3. CASE CloseButtonPressed \/ Throw
    BY <2>3 DEF CloseButtonPressed, Throw
  <2>4. CASE \/ \E e \in Events : EventArrives(e)
             \/ \E b \in Branches : Tick(b)
    BY <2>4 DEF EventArrives, Tick
  <2> QED
    BY <2>1, <2>2, <2>3, <2>4 DEF Next, ProgramStep
<1> QED
  BY <1>1, TypeCorrect, PTL DEF Spec, ClosingSticks

-----------------------------------------------------------------------------
(* Frame *)

\* The layers that were drawn and still have to reach the frame buffer.
Pending == {l \in drawn \ forsaken : shown[l] = 0}

\* In a frame a layer is shown at most once, only if it was drawn, and not if
\* a push in the wrong place gave it up.
ShownAtMostOnce ==
  \A l \in LayerIds :
    /\ shown[l] \in {0, 1}
    /\ shown[l] = 1 => l \in drawn \ forsaken
    /\ l \in forsaken => l \in drawn

\* Between the layers, what is pending is in the layer buffer, which is bound,
\* or everything was pushed.
PendingIsHeld ==
  at \in {"next", "onLayerDrawBegin", "onLayerDrawEnd"} =>
    IF pushToFrame THEN Pending = {} ELSE layerbuffer = Pending /\ bound = "layer"

\* Within a layer the flag means nothing: the buffer was cleared if need be.
PendingIsDrawnOver ==
  at \in {"onPostLayerClear", "draw", "onPreLayerDraw"} =>
    layerbuffer = Pending /\ bound = "layer"

\* The layer at hand and those that are left have not been drawn yet.
DrawnOnce ==
  /\ at \notin {"outside", "onDrawBegin", "onPreFrameDraw"} => drawn \cap rest = {}
  /\ at \in {"onLayerDrawBegin", "onPostLayerClear", "draw"} =>
       /\ layer \in LayerIds \ (drawn \cup rest)
       /\ bound = "layer"
  /\ at \in {"onPreLayerDraw", "onLayerDrawEnd"} => layer \in LayerIds \ rest

\* The flag is the question that the callback of the layer at hand was asked.
SkipFollowed ==
  /\ at = "onLayerDrawBegin" => (skipLayer <=> skipAsked)
  /\ at \in {"onPostLayerClear", "draw", "onPreLayerDraw"} => ~skipAsked
  /\ at = "onPreLayerDraw" => layer \in drawn

FrameBegins ==
  at = "onDrawBegin" =>
    drawn = {} /\ forsaken = {} /\ \A l \in LayerIds : shown[l] = 0

\* ShownOnce and SkipIsPerLayer speak of two places in the frame; the rest is
\* what holds on the way there.
RenderIInv ==
  /\ ShownAtMostOnce
  /\ FrameBegins
  /\ PendingIsHeld
  /\ PendingIsDrawnOver
  /\ DrawnOnce
  /\ SkipFollowed
  /\ ShownOnce
  /\ SkipIsPerLayer

-----------------------------------------------------------------------------

(* The layers *)

\* What a layer lists, also if the map has no such key.
Listed(l) == Entries(Group(l))

\* ListedAreAutomatic says nothing of what is no Drawable.
ListedDrawables ==
  \A l \in LayerIds : Listed(l) \subseteq {d \in Drawables : mode[d] = "auto"}

\* Each layer of the map is a vector of Drawables, and one that the map has no
\* key for lists nothing.
LEMMA GroupIsLayer ==
  ASSUME LayersTypeOK, NEW l \in LayerIds
  PROVE  Group(l) \in Layer /\ (layers[l] = None => Listed(l) = {})
<1>1. layers[l] \in Layer \cup {None}
  BY DEF LayersTypeOK
<1>2. Empty \in Layer /\ Entries(Empty) = {}
  BY EmptyVector DEF Layer
<1> QED
  BY <1>1, <1>2 DEF Group, Listed

\* A layer that is pushed to or erased from stays a layer, and lists the new
\* entry too or any but the old one.
LEMMA LayerSteps ==
  ASSUME NEW r \in Layer, NEW d \in Drawables
  PROVE  /\ Push(r, d) \in Layer /\ Push(r, d) # None
         /\ Entries(Push(r, d)) = Entries(r) \cup {d}
         /\ Erase(r, d) \in Layer /\ Erase(r, d) # None
         /\ Entries(Erase(r, d)) = Entries(r) \ {d}
<1> DEFINE S == Drawables \cup {None}
<1>1. None \in S /\ d \in S /\ r \in Vectors(S)
  BY DEF Layer
<1> HIDE DEF S
<1>2. Push(r, d) \in Vectors(S) /\ Entries(Push(r, d)) = Entries(r) \cup {d}
  BY <1>1, Pushed
<1>3. Erase(r, d) \in Vectors(S) /\ Entries(Erase(r, d)) = Entries(r) \ {d}
  BY <1>1, Erased
<1> QED
  BY <1>2, <1>3, NoneAssumption DEF S, Layer

\* removeFromAll() takes the Drawable out of each layer that lists it, and makes
\* no layer come or go.
LEMMA RemovedFacts ==
  ASSUME LayersTypeOK, NEW d \in Drawables
  PROVE  /\ RemovedFromAll(d) \in [LayerIds -> Layer \cup {None}]
         /\ \A l \in LayerIds :
              /\ RemovedFromAll(d)[l] = None <=> layers[l] = None
              /\ layers[l] # None => Entries(RemovedFromAll(d)[l]) = Listed(l) \ {d}
<1>1. ASSUME NEW l \in LayerIds
      PROVE  /\ RemovedFromAll(d)[l] \in Layer \cup {None}
             /\ RemovedFromAll(d)[l] = None <=> layers[l] = None
             /\ layers[l] # None => Entries(RemovedFromAll(d)[l]) = Listed(l) \ {d}
  <2>1. layers[l] \in Layer \cup {None}
    BY DEF LayersTypeOK
  <2>2. RemovedFromAll(d)[l] = IF d \in Listed(l) THEN Erase(layers[l], d) ELSE layers[l]
    BY DEF RemovedFromAll, GetGroups, Listed
  <2>3. CASE layers[l] = None
    BY <2>2, <2>3, GroupIsLayer
  <2>4. CASE layers[l] # None
    <3>1. layers[l] \in Layer /\ Group(l) = layers[l]
      BY <2>1, <2>4 DEF Group
    <3>2. /\ Erase(layers[l], d) \in Layer /\ Erase(layers[l], d) # None
          /\ Entries(Erase(layers[l], d)) = Entries(layers[l]) \ {d}
      BY <3>1, LayerSteps
    <3> QED
      BY <2>2, <2>4, <3>1, <3>2 DEF Listed
  <2> QED
    BY <2>3, <2>4
<1>2. RemovedFromAll(d) = [l \in LayerIds |-> RemovedFromAll(d)[l]]
  BY DEF RemovedFromAll
<1> QED
  BY <1>1, <1>2

\* What the program's calls on Drawables do to the layers: they keep the
\* types, no layer goes, and what is listed stays automatic.
LEMMA ChangeKeeps ==
  ASSUME LayersTypeOK, ListedDrawables, Change
  PROVE  /\ LayersTypeOK'
         /\ ListedDrawables'
         /\ GetAllGroups \subseteq GetAllGroups'
<1> DEFINE Keeps == /\ LayersTypeOK'
                    /\ ListedDrawables'
                    /\ GetAllGroups \subseteq GetAllGroups'
<1>1. ASSUME NEW d \in Drawables, NEW m \in {"auto", "manual", "none"},
             mode[d] # "auto", mode' = [mode EXCEPT ![d] = m], layers' = layers,
             shows' \in [Drawables -> Drawables]
      PROVE  Keeps
  <2>1. \A l \in LayerIds : Listed(l)' = Listed(l) /\ d \notin Listed(l)
    BY <1>1 DEF Listed, Group, ListedDrawables
  <2>2. ListedDrawables'
    BY <1>1, <2>1 DEF ListedDrawables, LayersTypeOK
  <2> QED
    BY <1>1, <2>2 DEF LayersTypeOK, GetAllGroups
<1>2. ASSUME NEW d \in Drawables, NEW m \in {"none", "manual"},
             mode' = [mode EXCEPT ![d] = m], layers' = RemovedFromAll(d),
             shows' \in [Drawables -> Drawables]
      PROVE  Keeps
  <2>1. /\ layers' \in [LayerIds -> Layer \cup {None}]
        /\ \A l \in LayerIds : /\ layers'[l] = None <=> layers[l] = None
                               /\ layers[l] # None => Entries(layers'[l]) = Listed(l) \ {d}
    BY <1>2, RemovedFacts
  <2>2. \A l \in LayerIds : Listed(l)' \subseteq Listed(l) \ {d}
    BY <2>1, EmptyVector DEF Listed, Group
  <2>3. ListedDrawables'
    BY <1>2, <2>2 DEF ListedDrawables, LayersTypeOK
  <2> QED
    BY <1>2, <2>1, <2>3 DEF LayersTypeOK, GetAllGroups
<1>3. ASSUME NEW d \in Drawables, NEW l \in LayerIds,
             mode' = [mode EXCEPT ![d] = "auto"],
             layers' = [layers EXCEPT ![l] = Push(Group(l), d)], UNCHANGED shows
      PROVE  Keeps
  <2>1. /\ Push(Group(l), d) \in Layer /\ Push(Group(l), d) # None
        /\ Entries(Push(Group(l), d)) = Listed(l) \cup {d}
    BY GroupIsLayer, LayerSteps DEF Listed
  <2>2. layers' \in [LayerIds -> Layer \cup {None}] /\ GetAllGroups \subseteq GetAllGroups'
    BY <1>3, <2>1 DEF LayersTypeOK, GetAllGroups
  <2>3. \A k \in LayerIds : Listed(k)' \subseteq Listed(k) \cup {d}
    BY <1>3, <2>1 DEF LayersTypeOK, Listed, Group
  <2>4. ListedDrawables'
    BY <1>3, <2>3 DEF ListedDrawables, LayersTypeOK
  <2> QED
    BY <1>3, <2>2, <2>4 DEF LayersTypeOK
<1>4. ASSUME NEW d \in Drawables, NEW l \in LayerIds, SetRenderLayer(d, l)
      PROVE  Keeps
  <2> DEFINE r == RemovedFromAll(d)
             g == IF r[l] = None THEN Empty ELSE r[l]
  <2>1. /\ r \in [LayerIds -> Layer \cup {None}]
        /\ \A k \in LayerIds : /\ r[k] = None <=> layers[k] = None
                               /\ layers[k] # None => Entries(r[k]) = Listed(k) \ {d}
    BY RemovedFacts
  <2> HIDE DEF r
  <2>2. g \in Layer /\ Entries(g) = Listed(l) \ {d}
    BY <2>1, EmptyVector, GroupIsLayer DEF Layer
  <2>3. /\ layers' = [r EXCEPT ![l] = Push(g, d)] /\ mode' = [mode EXCEPT ![d] = "auto"]
        /\ shows' \in [Drawables -> Drawables]
    BY <1>4, <2>1 DEF SetRenderLayer, r, LayersTypeOK
  <2> HIDE DEF g
  <2>4. /\ Push(g, d) \in Layer /\ Push(g, d) # None
        /\ Entries(Push(g, d)) = Entries(g) \cup {d}
    BY <2>2, LayerSteps
  <2>5. layers' \in [LayerIds -> Layer \cup {None}] /\ GetAllGroups \subseteq GetAllGroups'
    BY <2>1, <2>3, <2>4 DEF GetAllGroups
  <2>6. \A k \in LayerIds : Listed(k)' \subseteq Listed(k) \cup {d}
    BY <2>1, <2>2, <2>3, <2>4, EmptyVector DEF Listed, Group
  <2>7. ListedDrawables'
    BY <2>3, <2>6 DEF ListedDrawables, LayersTypeOK
  <2> QED
    BY <2>3, <2>5, <2>7 DEF LayersTypeOK
<1>5. ASSUME NEW d \in Drawables, NEW l \in LayerIds, RemoveFromRenderLayer(d, l)
      PROVE  Keeps
  <2>1. /\ Erase(Group(l), d) \in Layer /\ Erase(Group(l), d) # None
        /\ Entries(Erase(Group(l), d)) = Listed(l) \ {d}
    BY GroupIsLayer, LayerSteps DEF Listed
  <2>2. /\ layers' \in [LayerIds -> Layer \cup {None}] /\ GetAllGroups \subseteq GetAllGroups'
        /\ shows' \in [Drawables -> Drawables]
    BY <1>5, <2>1 DEF RemoveFromRenderLayer, LayersTypeOK, GetAllGroups
  <2>3. \A k \in LayerIds : Listed(k)' = IF k = l THEN Listed(k) \ {d} ELSE Listed(k)
    BY <1>5, <2>1 DEF RemoveFromRenderLayer, LayersTypeOK, Listed, Group
  <2>4. CASE mode' = mode
    BY <2>2, <2>3, <2>4 DEF ListedDrawables, LayersTypeOK
  <2>5. CASE GetGroups(d) \subseteq {l} /\ mode' = [mode EXCEPT ![d] = "manual"]
    <3>1. \A k \in LayerIds : Listed(k)' \subseteq Listed(k) \ {d}
      BY <2>3, <2>5 DEF GetGroups, Listed
    <3> QED
      BY <2>2, <2>5, <3>1 DEF ListedDrawables, LayersTypeOK
  <2>6. \/ mode' = mode
        \/ GetGroups(d) \subseteq {l} /\ mode' = [mode EXCEPT ![d] = "manual"]
    <3>1. CASE GetGroups(d) \subseteq {l}
      BY <1>5, <3>1 DEF RemoveFromRenderLayer
    <3>2. CASE ~(GetGroups(d) \subseteq {l})
      <4>1. mode' = [mode EXCEPT ![d] = mode[d]]
        BY <1>5, <3>2 DEF RemoveFromRenderLayer
      <4>2. mode \in [Drawables -> {"none", "auto", "manual"}]
        BY DEF LayersTypeOK
      <4> QED
        BY <4>1, <4>2
    <3> QED
      BY <3>1, <3>2
  <2> QED
    BY <2>4, <2>5, <2>6
<1>6. ASSUME NEW d \in Drawables, DestructDrawable(d)
      PROVE  Keeps
  <2>1. CASE mode[d] = "manual"
    BY <1>1, <1>6, <2>1 DEF DestructDrawable, LayersTypeOK
  <2>2. CASE mode[d] # "manual"
    BY <1>2, <1>6, <2>2 DEF DestructDrawable, LayersTypeOK
  <2> QED
    BY <2>1, <2>2
<1>7. ASSUME NEW d \in Drawables, NEW manual \in BOOLEAN, ConstructDrawable(d, manual)
      PROVE  Keeps
  BY <1>1, <1>7 DEF ConstructDrawable, Lives, LayersTypeOK
<1>8. ASSUME NEW d \in Drawables, SetManual(d)
      PROVE  Keeps
  BY <1>2, <1>8 DEF SetManual, LayersTypeOK
<1>9. ASSUME NEW d \in Drawables, NEW l \in LayerIds, SetAuto(d, l) \/ AddToRenderLayer(d, l)
      PROVE  Keeps
  BY <1>3, <1>9 DEF SetAuto, AddToRenderLayer
<1>10. ASSUME NEW d \in Drawables, NEW e \in Drawables, CopyDrawable(d, e)
       PROVE  Keeps
  <2>1. mode[d] # "auto" /\ mode[e] \in {"auto", "manual"}
    BY <1>10 DEF CopyDrawable, Lives, LayersTypeOK
  <2> QED
    BY <1>1, <1>10, <2>1 DEF CopyDrawable, LayersTypeOK
<1> QED
  BY <1>4, <1>5, <1>6, <1>7, <1>8, <1>9, <1>10 DEF Change

\* A walk goes over a layer that is there, since no layer ever goes.  As long
\* as no draw() meddled with it, it is the whole layer in its own block, and
\* the Drawable at hand lives.
WalkInv ==
  /\ ListedDrawables
  /\ rest \subseteq GetAllGroups
  /\ at \in {"onLayerDrawBegin", "onPostLayerClear", "draw"} => layer \in GetAllGroups
  /\ drawing # None => at = "draw"
  /\ at = "draw" => walk.pos # 0 /\ walk.end <= Len(Walked)
  /\ at = "draw" /\ ~meddled =>
       /\ walk.freed = <<>>
       /\ walk.end = layers[layer].size
       /\ drawing # None => Lives(drawing)
  /\ HarmOnlyByDraws

-----------------------------------------------------------------------------
(* Types *)

\* Before the first frame every variable has its type.
LEMMA InitRenderTypes == RenderInit => RenderTypeOK
<1> SUFFICES ASSUME RenderInit PROVE RenderTypeOK
  OBVIOUS
<1>1. shown \in [LayerIds -> Nat]
  BY DEF RenderInit
<1>2. calls \in 0 .. MaxCalls
  BY MaxCallsAssumption DEF RenderInit
<1>3. LayersTypeOK
  BY DEF RenderInit, LayersInit, LayersTypeOK
<1>4. walk \in [pos : Nat, end : Nat, freed : Seq(Drawables \cup {None})]
  BY EmptySeq DEF RenderInit, NoWalk
<1> QED
  BY <1>1, <1>2, <1>3, <1>4 DEF RenderInit, RenderTypeOK, RenderPlaces

\* The walk over a layer, and the layers themselves, keep their types.
LEMMA WalkTypes ==
  ASSUME RenderTypeOK, WalkInv, [RenderNext]_renderVars
  PROVE  /\ LayersTypeOK'
         /\ walk' \in [pos : Nat, end : Nat, freed : Seq(Drawables \cup {None})]
         /\ drawing' \in Drawables \cup {None}
<1> DEFINE Walks == [pos : Nat, end : Nat, freed : Seq(Drawables \cup {None})]
           Keeps == LayersTypeOK' /\ walk' \in Walks /\ drawing' \in Drawables \cup {None}
<1>1. LayersTypeOK /\ walk \in Walks /\ drawing \in Drawables \cup {None}
  BY DEF RenderTypeOK
<1>2. at \in {"onPostLayerClear", "draw"} => layers[layer] \in Layer
  BY <1>1 DEF WalkInv, GetAllGroups, LayersTypeOK
<1>3. <<>> \in Seq(Drawables \cup {None})
  BY EmptySeq
<1>4. at = "draw" => Walked \in Seq(Drawables \cup {None})
  BY <1>1, <1>2 DEF Walked, Layer, Vectors
<1>5. CASE ChangesLayers
  <2>1. LayersTypeOK' /\ drawing' = drawing
    BY <1>1, <1>5, ChangeKeeps DEF ChangesLayers, WalkInv
  <2>2. CASE walk' = walk
    BY <1>1, <2>1, <2>2
  <2>3. CASE at = "draw" /\ walk' = [walk EXCEPT !.freed = layers[layer].block]
    BY <1>1, <1>2, <2>1, <2>3 DEF Layer, Vectors
  <2> QED
    BY <1>5, <2>2, <2>3 DEF ChangesLayers
<1>6. CASE StartWalk
  BY <1>1, <1>2, <1>3, <1>6 DEF StartWalk, LayersTypeOK, layerVars, Layer, Vectors
<1>7. CASE Turn
  <2> DEFINE d == Walked[walk.pos]
  <2>1. walk.pos \in 1 .. Len(Walked)
    BY <1>1, <1>4, <1>7 DEF Turn, WalkInv
  <2>2. d \in Drawables \cup {None}
    BY <1>4, <1>7, <2>1, ElementOfSeq DEF Turn
  <2>3. LayersTypeOK'
    BY <1>1, <1>7 DEF Turn, LayersTypeOK, layerVars
  <2>4. \/ walk' = walk /\ drawing' = d
        \/ walk' = [walk EXCEPT !.pos = @ + 1] /\ drawing' = drawing
    BY <1>7 DEF Turn
  <2> QED
    BY <1>1, <2>2, <2>3, <2>4
<1>8. CASE DrawReturns
  BY <1>1, <1>8 DEF DrawReturns, LayersTypeOK, layerVars
<1>9. CASE EndWalk
  BY <1>1, <1>3, <1>9 DEF EndWalk, LayersTypeOK, layerVars, NoWalk
<1>10. CASE UNCHANGED <<layerVars, walk, drawing>>
  BY <1>1, <1>10 DEF LayersTypeOK, layerVars
<1> QED
  BY <1>5, <1>6, <1>7, <1>8, <1>9, <1>10
     DEF RenderNext, Program, Render, walkVars, renderVars, SkipDrawingThisLayer, PushLayerToFrame,
         BeginFrame, ListLayers, NextLayer, ClearLayer, PushLayer, EndLayer, EndLayers,
         EndFrame

\* Every step keeps the types.
LEMMA NextTypes == RenderTypeOK /\ WalkInv /\ [RenderNext]_renderVars => RenderTypeOK'
<1> SUFFICES ASSUME RenderTypeOK, WalkInv, [RenderNext]_renderVars
             PROVE  RenderTypeOK'
  OBVIOUS
<1>a. /\ LayersTypeOK'
      /\ walk' \in [pos : Nat, end : Nat, freed : Seq(Drawables \cup {None})]
      /\ drawing' \in Drawables \cup {None}
  BY WalkTypes
<1> DEFINE Others ==
      /\ at \in RenderPlaces
      /\ rest \subseteq LayerIds
      /\ layer \in LayerIds \cup {None}
      /\ at \notin {"outside", "onDrawBegin", "next", "onPreFrameDraw"} => layer \in LayerIds
      /\ skipLayer \in BOOLEAN
      /\ pushToFrame \in BOOLEAN
      /\ bound \in {"frame", "layer", "screen"}
      /\ layerbuffer \subseteq LayerIds
      /\ crashed \in BOOLEAN
      /\ calls \in 0 .. MaxCalls
      /\ meddled \in BOOLEAN
      /\ skipAsked \in BOOLEAN
      /\ drawn \subseteq LayerIds
      /\ shown \in [LayerIds -> Nat]
      /\ forsaken \subseteq LayerIds
<1> SUFFICES Others'
  BY <1>a DEF RenderTypeOK
<1>b. Others
  BY DEF RenderTypeOK
<1> USE <1>b, MaxCallsAssumption
    DEF RenderPlaces, frameVars, walkVars, history, Renders
<1>1. CASE ChangesLayers
  BY <1>1 DEF ChangesLayers, ProgramCalls, ProgramRuns
<1>2. CASE SkipDrawingThisLayer
  BY <1>2 DEF SkipDrawingThisLayer, ProgramCalls, ProgramRuns
<1>3. CASE PushLayerToFrame
  BY <1>3 DEF PushLayerToFrame, ProgramRuns
<1>4. CASE BeginFrame
  BY <1>4 DEF BeginFrame
<1>5. CASE ListLayers
  BY <1>5 DEF ListLayers, GetAllGroups
<1>6. ASSUME NEW l \in LayerIds, NextLayer(l) PROVE Others'
  BY <1>6 DEF NextLayer
<1>7. CASE ClearLayer
  BY <1>7 DEF ClearLayer
<1>8. CASE StartWalk
  BY <1>8 DEF StartWalk
<1>9. CASE Turn \/ DrawReturns
  BY <1>9 DEF Turn, DrawReturns
<1>10. CASE EndWalk
  BY <1>10 DEF EndWalk
<1>11. CASE PushLayer
  BY <1>11 DEF PushLayer, RenderLayerBuffer
<1>12. CASE EndLayer \/ EndFrame
  BY <1>12 DEF EndLayer, EndFrame
<1>13. CASE EndLayers
  BY <1>13 DEF EndLayers, RenderLayerBuffer
<1>14. CASE UNCHANGED renderVars
  BY <1>14 DEF renderVars
<1> QED
  BY <1>1, <1>2, <1>3, <1>4, <1>5, <1>6, <1>7, <1>8, <1>9, <1>10, <1>11, <1>12,
     <1>13, <1>14 DEF RenderNext, Program, Render

-----------------------------------------------------------------------------
(* The walk over a layer *)

\* At the start there is no layer, and so nothing that could be listed wrongly.
LEMMA InitWalk == RenderInit => WalkInv
<1> SUFFICES ASSUME RenderInit PROVE WalkInv
  OBVIOUS
<1>1. ListedDrawables
  BY EmptyVector DEF RenderInit, LayersInit, ListedDrawables, Listed, Group
<1> QED
  BY <1>1 DEF RenderInit, WalkInv, HarmOnlyByDraws

\* A call on a Drawable, between the frames, in a callback or in a draw().
LEMMA ChangesWalk == RenderTypeOK /\ WalkInv /\ ChangesLayers => WalkInv'
<1> SUFFICES ASSUME RenderTypeOK, WalkInv, ChangesLayers PROVE WalkInv'
  OBVIOUS
<1>1. /\ LayersTypeOK' /\ ListedDrawables' /\ GetAllGroups \subseteq GetAllGroups'
      /\ LayersTypeOK
  BY ChangeKeeps DEF RenderTypeOK, WalkInv, ChangesLayers
<1>2. /\ at' = at /\ layer' = layer /\ rest' = rest /\ drawing' = drawing
      /\ crashed' = crashed /\ ~crashed
  BY DEF ChangesLayers, frameVars, ProgramCalls, ProgramRuns
<1>3. ASSUME at = "draw"
      PROVE  /\ walk'.pos = walk.pos /\ walk'.end = walk.end
             /\ walk.end <= Len(Walked')
             /\ ~meddled' =>
                  /\ ~meddled
                  /\ walk' = walk
                  /\ layers'[layer] = layers[layer]
                  /\ drawing # None => mode'[drawing] # "none"
  <2> DEFINE old == layers[layer].block
             new == layers'[layer].block
  <2>1. layer \in GetAllGroups /\ layer \in GetAllGroups'
    BY <1>1, <1>3 DEF WalkInv
  <2>2. Len(old) \in Nat /\ Len(new) \in Nat
    BY <1>1, <2>1, LenProperties DEF GetAllGroups, LayersTypeOK, Layer, Vectors
  <2>3. walk \in [pos : Nat, end : Nat, freed : Seq(Drawables \cup {None})]
    BY DEF RenderTypeOK
  <2>4. walk.end <= Len(IF walk.freed = <<>> THEN old ELSE walk.freed)
    BY <1>3 DEF WalkInv, Walked
  <2>5. \/ walk' = [walk EXCEPT !.freed = old] /\ walk.freed = <<>> /\ meddled'
        \/ walk' = walk /\ (walk.freed = <<>> => Len(new) = Len(old))
    BY <1>3 DEF ChangesLayers
  <2>6. /\ meddled \/ layers'[layer] # layers[layer] => meddled'
        /\ drawing # None /\ mode'[drawing] = "none" => meddled'
    BY <1>3 DEF ChangesLayers
  <2>7. Walked' = IF walk'.freed = <<>> THEN new ELSE walk'.freed
    BY <1>2 DEF Walked
  <2>8. walk.end <= Len(Walked')
    <3>1. CASE walk' = [walk EXCEPT !.freed = old] /\ walk.freed = <<>>
      BY <2>2, <2>3, <2>4, <2>7, <3>1
    <3>2. CASE walk' = walk /\ (walk.freed = <<>> => Len(new) = Len(old))
      BY <2>4, <2>7, <3>2
    <3> QED
      BY <2>5, <3>1, <3>2
  <2> QED
    BY <2>3, <2>5, <2>6, <2>8
<1> QED
  BY <1>1, <1>2, <1>3 DEF WalkInv, HarmOnlyByDraws, Lives

\* Every step of a frame keeps what is listed and the walk over it right.
LEMMA NextWalk == RenderTypeOK /\ WalkInv /\ [RenderNext]_renderVars => WalkInv'
<1> SUFFICES ASSUME RenderTypeOK, WalkInv, [RenderNext]_renderVars PROVE WalkInv'
  OBVIOUS
<1>1. LayersTypeOK /\ walk \in [pos : Nat, end : Nat, freed : Seq(Drawables \cup {None})]
  BY DEF RenderTypeOK
<1>2. ASSUME UNCHANGED layerVars
      PROVE  ListedDrawables' /\ GetAllGroups' = GetAllGroups
  BY <1>2 DEF WalkInv, ListedDrawables, Listed, Group, GetAllGroups, layerVars
<1>3. CASE ChangesLayers
  BY <1>3, ChangesWalk
<1>4. CASE SkipDrawingThisLayer \/ PushLayerToFrame \/ BeginFrame
  BY <1>2, <1>4
     DEF SkipDrawingThisLayer, PushLayerToFrame, BeginFrame, WalkInv, HarmOnlyByDraws,
         Walked, Lives, layerVars, frameVars, walkVars, ProgramCalls, ProgramRuns, Renders
<1>5. CASE ListLayers \/ ClearLayer \/ PushLayer \/ EndLayer \/ EndLayers \/ EndFrame
  BY <1>2, <1>5
     DEF ListLayers, ClearLayer, PushLayer, EndLayer, EndLayers, EndFrame, WalkInv,
         HarmOnlyByDraws, walkVars, frameVars, Renders
<1>6. ASSUME NEW l \in LayerIds, NextLayer(l) PROVE WalkInv'
  BY <1>2, <1>6 DEF NextLayer, WalkInv, HarmOnlyByDraws, walkVars, Renders
<1>7. CASE StartWalk
  <2>1. layers[layer] \in Layer
    BY <1>1, <1>7 DEF StartWalk, WalkInv, GetAllGroups, LayersTypeOK
  <2> QED
    BY <1>2, <1>7, <2>1
       DEF StartWalk, WalkInv, HarmOnlyByDraws, Walked, Layer, Vectors, layerVars,
           frameVars, Renders
<1>8. CASE Turn
  <2> DEFINE d == Walked[walk.pos]
  <2>1. walk.pos \in 1 .. walk.end /\ at = "draw" /\ layer \in GetAllGroups
    BY <1>1, <1>8 DEF Turn, WalkInv
  <2>2. ~meddled => d \in Listed(layer) /\ d \in Drawables /\ Lives(d) /\ walk.freed = <<>>
    <3>1. SUFFICES ASSUME ~meddled
                   PROVE  d \in Listed(layer) /\ d \in Drawables /\ Lives(d) /\ walk.freed = <<>>
      OBVIOUS
    <3>2. /\ walk.freed = <<>> /\ walk.end = layers[layer].size
          /\ d = layers[layer].block[walk.pos]
      BY <2>1, <3>1 DEF WalkInv, Walked
    <3>3. d \in Listed(layer)
      BY <2>1, <3>2 DEF Listed, Entries, Group, GetAllGroups
    <3> QED
      BY <2>1, <3>2, <3>3 DEF WalkInv, ListedDrawables, GetAllGroups, Lives
  <2>3. /\ UNCHANGED <<layerVars, at, rest, layer, meddled>>
        /\ walk'.freed = walk.freed /\ walk'.end = walk.end /\ walk'.pos \in Nat \ {0}
        /\ drawing' = None \/ drawing' = d
        /\ ~meddled /\ ~Orphaned(d) => ~crashed'
    <3>1. UNCHANGED <<layerVars, at, rest, layer, meddled>>
      BY <1>8 DEF Turn, frameVars
    <3>2. walk' = walk \/ walk' = [walk EXCEPT !.pos = @ + 1]
      BY <1>8 DEF Turn
    <3>3. walk'.freed = walk.freed /\ walk'.end = walk.end /\ walk'.pos \in Nat \ {0}
      BY <1>1, <2>1, <3>2
    <3>4. /\ drawing' = None \/ drawing' = d
          /\ ~meddled /\ ~Orphaned(d) => ~crashed'
      BY <1>8, <2>2, NoneAssumption DEF Turn
    <3> QED
      BY <3>1, <3>3, <3>4
  <2> HIDE DEF d
  <2>4. ~meddled => drawing' = None \/ Lives(drawing)'
    BY <2>2, <2>3 DEF layerVars, Lives
  <2>5. Walked' = Walked /\ layers' = layers
    BY <2>3 DEF Walked, layerVars
  <2>6. ListedDrawables' /\ GetAllGroups' = GetAllGroups
    BY <1>2, <2>3
  <2>7. HarmOnlyByDraws'
    <3>1. Entries(Group(layer))' = Listed(layer) /\ \A e : Orphaned(e)' = Orphaned(e)
      BY <2>3 DEF layerVars, Listed, Group, Orphaned, Lives
    <3>2. ASSUME crashed', ~meddled PROVE \E e \in Listed(layer) : Orphaned(e)
      BY <2>2, <2>3, <3>2
    <3> QED
      BY <2>3, <3>1, <3>2 DEF HarmOnlyByDraws
  <2>8. /\ walk.end <= Len(Walked) /\ rest \subseteq GetAllGroups
        /\ ~meddled => walk.end = layers[layer].size
    BY <2>1 DEF WalkInv
  <2> QED
    BY <2>1, <2>2, <2>3, <2>4, <2>5, <2>6, <2>7, <2>8 DEF WalkInv
<1>9. CASE DrawReturns
  <2>1. at = "draw" /\ layer \in GetAllGroups /\ (~meddled => Lives(drawing))
    BY <1>9 DEF DrawReturns, WalkInv
  <2>2. /\ UNCHANGED <<layerVars, at, rest, layer, meddled>> /\ drawing' = None
        /\ walk'.freed = walk.freed /\ walk'.end = walk.end /\ walk'.pos \in Nat \ {0}
        /\ ~meddled => ~crashed'
    <3>1. UNCHANGED <<layerVars, at, rest, layer, meddled>> /\ drawing' = None
      BY <1>9 DEF DrawReturns, frameVars
    <3>2. walk' = [walk EXCEPT !.pos = @ + 1] /\ walk.pos \in Nat
      BY <1>1, <1>9 DEF DrawReturns
    <3>3. walk'.freed = walk.freed /\ walk'.end = walk.end /\ walk'.pos \in Nat \ {0}
      BY <1>1, <3>2
    <3>4. ~meddled => ~crashed'
      BY <1>9, <2>1 DEF DrawReturns
    <3> QED
      BY <3>1, <3>3, <3>4
  <2>3. Walked' = Walked
    BY <2>2 DEF Walked, layerVars
  <2>4. ListedDrawables' /\ GetAllGroups' = GetAllGroups /\ layers' = layers
    BY <1>2, <2>2 DEF layerVars
  <2>5. HarmOnlyByDraws'
    BY <2>2 DEF HarmOnlyByDraws
  <2>6. /\ walk.end <= Len(Walked) /\ rest \subseteq GetAllGroups
        /\ ~meddled => walk.freed = <<>> /\ walk.end = layers[layer].size
    BY <2>1 DEF WalkInv
  <2> QED
    BY <2>1, <2>2, <2>3, <2>4, <2>5, <2>6 DEF WalkInv
<1>10. CASE EndWalk
  BY <1>2, <1>10 DEF EndWalk, WalkInv, HarmOnlyByDraws, Renders
<1>11. CASE UNCHANGED renderVars
  BY <1>2, <1>11
     DEF renderVars, WalkInv, HarmOnlyByDraws, Orphaned, Group, Walked, Lives, layerVars,
         frameVars, walkVars
<1> QED
  BY <1>3, <1>4, <1>5, <1>6, <1>7, <1>8, <1>9, <1>10, <1>11 DEF RenderNext, Program, Render

-----------------------------------------------------------------------------
(* What is drawn and what is shown *)

\* Before the first frame nothing was drawn, and nothing is pending.
LEMMA InitInvariant == RenderInit => RenderIInv
  BY DEF RenderInit, RenderIInv, ShownAtMostOnce, FrameBegins, PendingIsHeld, PendingIsDrawnOver,
         DrawnOnce, SkipFollowed, ShownOnce, SkipIsPerLayer

\* The program's calls keep the invariant.
LEMMA ProgramInvariant ==
  ASSUME RenderTypeOK, RenderIInv, Program
  PROVE  RenderIInv'
<1> USE DEF RenderTypeOK, RenderPlaces, RenderIInv, ShownAtMostOnce, FrameBegins, PendingIsHeld,
            PendingIsDrawnOver, DrawnOnce, SkipFollowed, ShownOnce, SkipIsPerLayer,
            Pending, frameVars, walkVars, history, ProgramCalls, ProgramRuns
<1>1. CASE ChangesLayers
  BY <1>1 DEF ChangesLayers
<1>2. CASE SkipDrawingThisLayer
  BY <1>2 DEF SkipDrawingThisLayer
<1>3. CASE PushLayerToFrame
  BY <1>3 DEF PushLayerToFrame
<1> QED
  BY <1>1, <1>2, <1>3 DEF Program

\* The steps of render() keep the invariant.
LEMMA RenderInvariant ==
  ASSUME RenderTypeOK, RenderIInv, Render
  PROVE  RenderIInv'
<1> USE DEF RenderTypeOK, RenderPlaces, RenderIInv, ShownAtMostOnce, FrameBegins, PendingIsHeld,
            PendingIsDrawnOver, DrawnOnce, SkipFollowed, ShownOnce, SkipIsPerLayer,
            Pending, frameVars, walkVars, history, Renders
<1>1. CASE BeginFrame
  BY <1>1 DEF BeginFrame
<1>2. CASE ListLayers
  BY <1>2 DEF ListLayers
<1>3. ASSUME NEW l \in LayerIds, NextLayer(l) PROVE RenderIInv'
  BY <1>3 DEF NextLayer
<1>4. CASE ClearLayer
  BY <1>4 DEF ClearLayer
<1>5. CASE StartWalk
  BY <1>5 DEF StartWalk
<1>6. CASE Turn
  BY <1>6 DEF Turn
<1>7. CASE DrawReturns
  BY <1>7 DEF DrawReturns
<1>8. CASE EndWalk
  BY <1>8 DEF EndWalk
<1>9. CASE PushLayer
  BY <1>9 DEF PushLayer, RenderLayerBuffer
<1>10. CASE EndLayer
  BY <1>10 DEF EndLayer
<1>11. CASE EndLayers
  BY <1>11 DEF EndLayers, RenderLayerBuffer
<1>12. CASE EndFrame
  BY <1>12 DEF EndFrame
<1> QED
  BY <1>1, <1>2, <1>3, <1>4, <1>5, <1>6, <1>7, <1>8, <1>9, <1>10, <1>11, <1>12
     DEF Render

\* What other parts of the program do does not change a frame.
LEMMA StutterInvariant == RenderIInv /\ UNCHANGED renderVars => RenderIInv'
  BY DEF renderVars, frameVars, walkVars, history, RenderIInv, ShownAtMostOnce, FrameBegins,
         PendingIsHeld, PendingIsDrawnOver, DrawnOnce, SkipFollowed, ShownOnce,
         SkipIsPerLayer, Pending

-----------------------------------------------------------------------------

\* The types and the walk need each other: render() reads a slot of a layer
\* that is there.
LEMMA WalkInvariance == RenderSpec => [](RenderTypeOK /\ WalkInv)
  BY InitRenderTypes, InitWalk, NextTypes, NextWalk, PTL DEF RenderSpec

\* Every variable of the frame keeps its type.
THEOREM RenderTypeCorrect == RenderSpec => []RenderTypeOK
  BY WalkInvariance, PTL

\* What a layer lists is an automatic Drawable, which takes itself out when it
\* goes (Drawable, Renderer's layers).
THEOREM LayersListAutomatic == RenderSpec => []ListedAreAutomatic
<1>1. WalkInv => ListedAreAutomatic
  BY DEF WalkInv, ListedDrawables, Listed, Group, GetAllGroups, ListedAreAutomatic
<1> QED
  BY <1>1, WalkInvariance, PTL

\* renderLayer() comes to harm only in a walk whose draw() changed the layer or
\* destroyed its own Drawable, or over a copy whose original is gone.
THEOREM HarmComesFromDraws == RenderSpec => []HarmOnlyByDraws
<1>1. WalkInv => HarmOnlyByDraws
  BY DEF WalkInv
<1> QED
  BY <1>1, WalkInvariance, PTL

\* The inductive invariant of a frame holds of every reachable state.
THEOREM RenderInvariance == RenderSpec => []RenderIInv
<1>1. RenderTypeOK /\ RenderIInv /\ [RenderNext]_renderVars => RenderIInv'
  BY ProgramInvariant, RenderInvariant, StutterInvariant DEF RenderNext
<1> QED
  BY <1>1, InitInvariant, RenderTypeCorrect, PTL DEF RenderSpec

\* App::render() shows each layer that it drew once, whatever the program
\* skips and pushes where it may.
THEOREM LayersAreShownOnce == RenderSpec => []ShownOnce
<1>1. RenderIInv => ShownOnce
  BY DEF RenderIInv
<1> QED
  BY <1>1, RenderInvariance, PTL

\* App::render() skips the layers whose own callback asked for it.
THEOREM SkipsArePerLayer == RenderSpec => []SkipIsPerLayer
<1>1. RenderIInv => SkipIsPerLayer
  BY DEF RenderIInv
<1> QED
  BY <1>1, RenderInvariance, PTL

=============================================================================
