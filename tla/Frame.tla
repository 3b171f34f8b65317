------------------------------- MODULE Frame -------------------------------
(***************************************************************************)
(* App::render() (core/app.cpp): one frame, layer by layer, through the    *)
(* layer buffer and the frame buffer, with Renderer::renderLayer().        *)
(*                                                                         *)
(* Between its steps it calls the program: on...() and the draw() of each  *)
(* Drawable, which may change the layers that are being walked over, skip  *)
(* the layer and push the layer buffer.  A buffer is kept as the layers    *)
(* whose pictures it holds.                                                *)
(***************************************************************************)
EXTENDS Layers

CONSTANT MaxCalls  \* bound on the program's calls

ASSUME MaxCallsAssumption == MaxCalls \in Nat

VARIABLES
  at,          \* where render() is: a callback of App by its name, "next"
               \* for the head of the loop, "draw" for renderLayer()
  rest,        \* the layers that are left of rLayers
  layer,       \* the layer at hand
  skipLayer,
  pushToFrame,
  bound,       \* the buffer that OpenGL draws into
  layerbuffer,
  walk,        \* renderLayer(): its position, its end, and the block it walks
               \* over if the vector has left it for a larger one
  drawing,     \* the Drawable whose render callback is running
  crashed,     \* the program came to harm on memory that holds no Drawable
  calls,       \* how many calls the program made
  meddled,     \* history: a draw() changed what it was called from, in this walk
  skipAsked,   \* history: skipDrawingThisLayer() in this onLayerDrawBegin()
  drawn,       \* history: the layers drawn in this frame
  shown,       \* history: how often each reached the frame buffer
  forsaken     \* history: those that were waiting for it when the program
               \* called pushLayerToFrame() in another place

frameVars == <<rest, layer, bound, layerbuffer>>
walkVars  == <<walk, drawing, crashed, meddled>>
history   == <<skipAsked, drawn, shown, forsaken>>
renderVars == <<layerVars, at, frameVars, skipLayer, pushToFrame, walkVars, calls, history>>

NoWalk == [pos |-> 0, end |-> 0, freed |-> <<>>]

Walked == IF walk.freed = <<>> THEN layers[layer].block ELSE walk.freed

RenderPlaces ==
  {"outside", "onDrawBegin", "next", "onLayerDrawBegin", "onPostLayerClear",
   "draw", "onPreLayerDraw", "onLayerDrawEnd", "onPreFrameDraw"}

RenderTypeOK ==
  /\ LayersTypeOK
  /\ at \in RenderPlaces
  /\ rest \subseteq LayerIds
  /\ layer \in LayerIds \cup {None}
  /\ at \notin {"outside", "onDrawBegin", "next", "onPreFrameDraw"} => layer \in LayerIds
  /\ skipLayer \in BOOLEAN
  /\ pushToFrame \in BOOLEAN
  /\ bound \in {"frame", "layer", "screen"}
  /\ layerbuffer \subseteq LayerIds
  /\ walk \in [pos : Nat, end : Nat, freed : Seq(Drawables \cup {None})]
  /\ drawing \in Drawables \cup {None}
  /\ crashed \in BOOLEAN
  /\ calls \in 0 .. MaxCalls
  /\ meddled \in BOOLEAN
  /\ skipAsked \in BOOLEAN
  /\ drawn \subseteq LayerIds
  /\ shown \in [LayerIds -> Nat]
  /\ forsaken \subseteq LayerIds

RenderInit ==
  /\ LayersInit
  /\ at = "outside"
  /\ rest = {}
  /\ layer = None
  /\ skipLayer = FALSE
  /\ pushToFrame = FALSE
  /\ bound = "screen"
  /\ layerbuffer = {}
  /\ walk = NoWalk
  /\ drawing = None
  /\ crashed = FALSE
  /\ calls = 0
  /\ meddled = FALSE
  /\ skipAsked = FALSE
  /\ drawn = {}
  /\ shown = [l \in LayerIds |-> 0]
  /\ forsaken = {}

-----------------------------------------------------------------------------
(* The program's calls *)

\* Where its code runs: in the callbacks and in draw().
ProgramRuns ==
  /\ ~crashed
  /\ at # "next"
  /\ at = "draw" => drawing # None

ProgramCalls ==
  /\ ProgramRuns
  /\ calls < MaxCalls
  /\ calls' = calls + 1

\* A call on a Drawable.  It meddles if a draw() changes the layer that is
\* being walked over, or destroys its own Drawable.
ChangesLayers ==
  /\ ProgramCalls
  /\ Change
  /\ LET walked == at = "draw" /\ layers'[layer] # layers[layer]
     IN /\ walk' = IF walked /\ walk.freed = <<>>
                      /\ Len(layers'[layer].block) # Len(layers[layer].block)
                     THEN [walk EXCEPT !.freed = layers[layer].block] ELSE walk
        /\ meddled' = (meddled \/ walked
                         \/ (drawing # None /\ mode'[drawing] = "none"))
  /\ UNCHANGED <<at, frameVars, skipLayer, pushToFrame, drawing, crashed, history>>

SkipDrawingThisLayer ==
  /\ ProgramCalls
  /\ skipLayer' = TRUE
  /\ skipAsked' = (skipAsked \/ at = "onLayerDrawBegin")
  /\ UNCHANGED <<layerVars, at, frameVars, pushToFrame, walkVars, drawn, shown, forsaken>>

\* pushLayerToFrame() where it belongs is not counted: App's own
\* onPreLayerDraw() calls it.
PushLayerToFrame ==
  /\ ProgramRuns
  /\ IF at = "onPreLayerDraw" THEN UNCHANGED calls ELSE calls < MaxCalls /\ calls' = calls + 1
  /\ pushToFrame' = TRUE
  /\ forsaken' = IF at \in {"onLayerDrawBegin", "onLayerDrawEnd"}
                   THEN forsaken \cup {l \in drawn : shown[l] = 0} ELSE forsaken
  /\ UNCHANGED <<layerVars, at, frameVars, skipLayer, walkVars, skipAsked, drawn, shown>>

-----------------------------------------------------------------------------
(* render() *)

Renders == ~crashed

\* Up to onDrawBegin(), which stands for onPostFrameClear() as well.
BeginFrame ==
  /\ Renders /\ at = "outside"
  /\ at' = "onDrawBegin"
  /\ bound' = "frame"
  /\ drawn' = {}
  /\ shown' = [l \in LayerIds |-> 0]
  /\ forsaken' = {}
  /\ UNCHANGED <<layerVars, rest, layer, layerbuffer, skipLayer, pushToFrame, walkVars,
                 calls, skipAsked>>

\* The layer buffer is bound and cleared, and the layers are listed once.
ListLayers ==
  /\ Renders /\ at = "onDrawBegin"
  /\ at' = "next"
  /\ rest' = GetAllGroups
  /\ bound' = "layer"
  /\ layerbuffer' = {}
  /\ UNCHANGED <<layerVars, layer, skipLayer, pushToFrame, walkVars, calls, history>>

\* Mutant of the head of the loop: the skip of the layer before stays asked.
MutNextLayer(l) ==
  /\ Renders /\ at = "next"
  /\ l \in rest
  /\ \A m \in rest : l <= m
  /\ rest' = rest \ {l}
  /\ IF layers[l].size = 0 THEN UNCHANGED <<at, layer, bound, skipAsked>>
     ELSE /\ at' = "onLayerDrawBegin"
          /\ layer' = l
          /\ bound' = IF pushToFrame THEN "layer" ELSE bound
          /\ skipAsked' = FALSE
  /\ UNCHANGED <<layerVars, layerbuffer, skipLayer, pushToFrame, walkVars, calls, drawn,
                 shown, forsaken>>

\* The head of the loop: an empty layer is passed over, another one begins.
NextLayer(l) ==
  /\ Renders /\ at = "next"
  /\ l \in rest
  /\ \A m \in rest : l <= m
  /\ rest' = rest \ {l}
  /\ IF layers[l].size = 0 THEN UNCHANGED <<at, layer, skipLayer, bound, skipAsked>>
     ELSE /\ at' = "onLayerDrawBegin"
          /\ layer' = l
          /\ skipLayer' = FALSE
          /\ bound' = IF pushToFrame THEN "layer" ELSE bound
          /\ skipAsked' = FALSE
  /\ UNCHANGED <<layerVars, layerbuffer, pushToFrame, walkVars, calls, drawn, shown, forsaken>>

\* Mutant of the clearing: it does not ask whether the picture was pushed.
MutClearLayer ==
  /\ Renders /\ at = "onLayerDrawBegin"
  /\ at' = IF skipLayer THEN "onLayerDrawEnd" ELSE "onPostLayerClear"
  /\ layerbuffer' = IF ~skipLayer /\ bound = "layer" THEN {} ELSE layerbuffer
  /\ UNCHANGED <<layerVars, rest, layer, bound, skipLayer, pushToFrame, walkVars, calls, history>>

\* A skipped layer ends; for another one the layer buffer is cleared, if what
\* it holds was pushed.
ClearLayer ==
  /\ Renders /\ at = "onLayerDrawBegin"
  /\ at' = IF skipLayer THEN "onLayerDrawEnd" ELSE "onPostLayerClear"
  /\ layerbuffer' = IF ~skipLayer /\ pushToFrame /\ bound = "layer" THEN {} ELSE layerbuffer
  /\ UNCHANGED <<layerVars, rest, layer, bound, skipLayer, pushToFrame, walkVars, calls, history>>

\* renderLayer(): begin() and end() are taken once.
StartWalk ==
  /\ Renders /\ at = "onPostLayerClear"
  /\ at' = "draw"
  /\ walk' = [pos |-> 1, end |-> layers[layer].size, freed |-> <<>>]
  /\ meddled' = FALSE
  /\ UNCHANGED <<layerVars, frameVars, skipLayer, pushToFrame, drawing, crashed, calls, history>>

\* One turn of its loop.  A slot of a freed block, a slot whose Drawable was
\* destroyed, and a copy whose original was, give what they held or end the
\* program.
Turn ==
  /\ Renders /\ at = "draw" /\ drawing = None
  /\ walk.pos <= walk.end
  /\ LET d == Walked[walk.pos]
     IN IF Lives(d) /\ ~Orphaned(d) THEN drawing' = d /\ UNCHANGED walk
        ELSE UNCHANGED drawing /\ walk' = [walk EXCEPT !.pos = @ + 1]
  /\ crashed' \in IF drawing' = None \/ walk.freed # <<>> THEN BOOLEAN ELSE {FALSE}
  /\ UNCHANGED <<layerVars, at, frameVars, skipLayer, pushToFrame, calls, meddled, history>>

\* draw() returns, into a callback that may be gone with its Drawable.
DrawReturns ==
  /\ Renders /\ drawing # None
  /\ drawing' = None
  /\ walk' = [walk EXCEPT !.pos = @ + 1]
  /\ crashed' \in IF Lives(drawing) THEN {FALSE} ELSE BOOLEAN
  /\ UNCHANGED <<layerVars, at, frameVars, skipLayer, pushToFrame, calls, meddled, history>>

EndWalk ==
  /\ Renders /\ at = "draw" /\ drawing = None
  /\ walk.pos > walk.end
  /\ at' = "onPreLayerDraw"
  /\ walk' = NoWalk
  /\ meddled' = FALSE
  /\ pushToFrame' = FALSE
  /\ layerbuffer' = IF bound = "layer" THEN layerbuffer \cup {layer} ELSE layerbuffer
  /\ drawn' = drawn \cup {layer}
  /\ UNCHANGED <<layerVars, rest, layer, bound, skipLayer, drawing, crashed, calls,
                 skipAsked, shown, forsaken>>

\* layerbuffer.render(framebuffer), which leaves no buffer bound.
RenderLayerBuffer ==
  /\ shown' = [l \in LayerIds |-> IF l \in layerbuffer THEN shown[l] + 1 ELSE shown[l]]
  /\ bound' = "screen"

PushLayer ==
  /\ Renders /\ at = "onPreLayerDraw"
  /\ at' = "onLayerDrawEnd"
  /\ IF pushToFrame THEN RenderLayerBuffer ELSE UNCHANGED <<shown, bound>>
  /\ UNCHANGED <<layerVars, rest, layer, layerbuffer, skipLayer, pushToFrame, walkVars,
                 calls, skipAsked, drawn, forsaken>>

EndLayer ==
  /\ Renders /\ at = "onLayerDrawEnd"
  /\ at' = "next"
  /\ UNCHANGED <<layerVars, frameVars, skipLayer, pushToFrame, walkVars, calls, history>>

\* Behind the loop: what was not pushed yet is.
EndLayers ==
  /\ Renders /\ at = "next" /\ rest = {}
  /\ at' = "onPreFrameDraw"
  /\ IF pushToFrame THEN UNCHANGED <<shown, bound>> ELSE RenderLayerBuffer
  /\ pushToFrame' = TRUE
  /\ UNCHANGED <<layerVars, rest, layer, layerbuffer, skipLayer, walkVars, calls,
                 skipAsked, drawn, forsaken>>

EndFrame ==
  /\ Renders /\ at = "onPreFrameDraw"
  /\ at' = "outside"
  /\ bound' = "screen"
  /\ UNCHANGED <<layerVars, rest, layer, layerbuffer, skipLayer, pushToFrame, walkVars,
                 calls, history>>

-----------------------------------------------------------------------------

Program == ChangesLayers \/ SkipDrawingThisLayer \/ PushLayerToFrame

Render ==
  \/ BeginFrame
  \/ ListLayers
  \/ \E l \in LayerIds : NextLayer(l)
  \/ ClearLayer
  \/ StartWalk
  \/ Turn
  \/ DrawReturns
  \/ EndWalk
  \/ PushLayer
  \/ EndLayer
  \/ EndLayers
  \/ EndFrame

RenderNext == Program \/ Render

RenderSpec == RenderInit /\ [][RenderNext]_renderVars

-----------------------------------------------------------------------------
(* Properties *)

\* A frame shows each layer that it drew once, and no other: whichever layers
\* are skipped or share a push, nothing is cleared before it is shown, nothing
\* is shown again, and nothing is drawn into another buffer.  What is lost is
\* what was waiting when the program pushed in onLayerDrawBegin() or
\* onLayerDrawEnd(), where app.hpp forbids it.
ShownOnce ==
  at = "onPreFrameDraw" =>
    \A l \in LayerIds : shown[l] = IF l \in drawn \ forsaken THEN 1 ELSE 0

\* A layer is skipped if, and only if, its own onLayerDrawBegin() asked for
\* that; a call anywhere else does not reach the next layer.
SkipIsPerLayer == at = "onLayerDrawEnd" => (layer \in drawn <=> ~skipAsked)

\* The program can only come to harm in a walk whose draw() changed the layer or
\* destroyed its own Drawable, or over a layer that lists a copy whose original
\* is gone: no layer is ever left with a Drawable that is.
HarmOnlyByDraws == crashed => meddled \/ \E d \in Entries(Group(layer)) : Orphaned(d)
=============================================================================
