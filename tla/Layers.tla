------------------------------- MODULE Layers -------------------------------
(***************************************************************************)
(* Drawables and the layers that Renderer keeps of them                    *)
(* (graph/gl/renderer/drawable.cpp and core.hpp, ctl/legacy/grouping.hpp). *)
(*                                                                         *)
(* A layer is a vector of pointers to the render callback of Drawables.  A *)
(* Drawable does not know its layers: all it keeps is manualMode, and its  *)
(* destructor goes by that.  The callback draws the Drawable it was made   *)
(* in, and a copy of a Drawable has a copy of it, which draws the original.*)
(***************************************************************************)
EXTENDS FiniteSets, Vector

CONSTANTS
  Drawables,   \* places in memory where a Drawable can live
  LayerIds     \* numbers of layers

\* The vectors of a layer.
Layer == Vectors(Drawables \cup {None})

ASSUME NoneAssumption == None \notin Drawables /\ None \notin Layer
ASSUME LayersAssumption == LayerIds \subseteq Nat /\ IsFiniteSet(LayerIds)

VARIABLES
  layers,      \* Renderer::layers: the vector of each layer, None if the map
               \* has no such key
  mode,        \* each Drawable: "manual" or "auto", "none" if there is none
  shows        \* the Drawable that its render callback draws

layerVars == <<layers, mode, shows>>

LayersTypeOK ==
  /\ layers \in [LayerIds -> Layer \cup {None}]
  /\ mode \in [Drawables -> {"none", "auto", "manual"}]
  /\ shows \in [Drawables -> Drawables]

LayersInit ==
  /\ layers = [l \in LayerIds |-> None]
  /\ mode = [d \in Drawables |-> "none"]
  /\ shows = [d \in Drawables |-> d]

-----------------------------------------------------------------------------
(* Group *)

Lives(d) == mode[d] # "none"

\* operator[] makes the group if there is none.
Group(l) == IF layers[l] = None THEN Empty ELSE layers[l]

GetAllGroups == {l \in LayerIds : layers[l] # None}

GetGroups(d) == {l \in LayerIds : d \in Entries(Group(l))}

RemovedFromAll(d) ==
  [l \in LayerIds |-> IF l \in GetGroups(d) THEN Erase(layers[l], d) ELSE layers[l]]

-----------------------------------------------------------------------------
(* Drawable *)

\* The constructor.  setAuto() asks for manualMode, which is not yet set, so
\* that it lists nothing, whatever manual is.
ConstructDrawable(d, manual) ==
  /\ ~Lives(d)
  /\ mode' = [mode EXCEPT ![d] = IF manual THEN "manual" ELSE "auto"]
  /\ shows' = [shows EXCEPT ![d] = d]
  /\ UNCHANGED layers

\* The copy constructor, which the compiler makes: no layer lists the copy,
\* whatever its manualMode says.
CopyDrawable(d, e) ==
  /\ ~Lives(d) /\ Lives(e)
  /\ mode' = [mode EXCEPT ![d] = mode[e]]
  /\ shows' = [shows EXCEPT ![d] = shows[e]]
  /\ UNCHANGED layers

\* Mutant of the destructor: only those that were drawn by hand are taken out.
MutDestructDrawable(d) ==
  /\ Lives(d)
  /\ layers' = IF mode[d] = "auto" THEN layers ELSE RemovedFromAll(d)
  /\ mode' = [mode EXCEPT ![d] = "none"]
  /\ shows' = [shows EXCEPT ![d] = d]

DestructDrawable(d) ==
  /\ Lives(d)
  /\ layers' = IF mode[d] = "manual" THEN layers ELSE RemovedFromAll(d)
  /\ mode' = [mode EXCEPT ![d] = "none"]
  /\ shows' = [shows EXCEPT ![d] = d]

SetManual(d) ==
  /\ mode[d] = "auto"
  /\ layers' = RemovedFromAll(d)
  /\ mode' = [mode EXCEPT ![d] = "manual"]
  /\ UNCHANGED shows

SetAuto(d, l) ==
  /\ mode[d] = "manual"
  /\ layers' = [layers EXCEPT ![l] = Push(Group(l), d)]
  /\ mode' = [mode EXCEPT ![d] = "auto"]
  /\ UNCHANGED shows

SetRenderLayer(d, l) ==
  /\ Lives(d)
  /\ layers' = [RemovedFromAll(d) EXCEPT ![l] = Push(IF @ = None THEN Empty ELSE @, d)]
  /\ mode' = [mode EXCEPT ![d] = "auto"]
  /\ UNCHANGED shows

AddToRenderLayer(d, l) ==
  /\ Lives(d)
  /\ layers' = [layers EXCEPT ![l] = Push(Group(l), d)]
  /\ mode' = [mode EXCEPT ![d] = "auto"]
  /\ UNCHANGED shows

\* Mutant of removeFromRenderLayer(): the other layers are not looked at.
MutRemoveFromRenderLayer(d, l) ==
  /\ Lives(d)
  /\ layers' = [layers EXCEPT ![l] = Erase(Group(l), d)]
  /\ mode' = [mode EXCEPT ![d] = "manual"]
  /\ UNCHANGED shows

RemoveFromRenderLayer(d, l) ==
  /\ Lives(d)
  /\ layers' = [layers EXCEPT ![l] = Erase(Group(l), d)]
  /\ mode' = [mode EXCEPT ![d] = IF GetGroups(d) \subseteq {l} THEN "manual" ELSE @]
  /\ UNCHANGED shows

\* A call of the program on a Drawable.
Change ==
  \E d \in Drawables :
    \/ \E manual \in BOOLEAN : ConstructDrawable(d, manual)
    \/ \E e \in Drawables : CopyDrawable(d, e)
    \/ DestructDrawable(d)
    \/ SetManual(d)
    \/ \E l \in LayerIds : \/ SetAuto(d, l)
                           \/ SetRenderLayer(d, l)
                           \/ AddToRenderLayer(d, l)
                           \/ RemoveFromRenderLayer(d, l)

\* A copy whose original is gone.
Orphaned(d) == Lives(d) /\ ~Lives(shows[d])

-----------------------------------------------------------------------------
(* Properties *)

\* What a layer lists is an automatic Drawable, and so one that will take
\* itself out when it goes, however it came to be listed (Drawable's
\* destructor, removeFromRenderLayer).
ListedAreAutomatic ==
  \A l \in GetAllGroups : \A d \in Entries(layers[l]) : mode[d] = "auto"

\* drawable.hpp: "Whether manually rendering or not": one that is not would be
\* in a layer.  The constructor and setAuto() do not keep this.
AutomaticIsListed == \A d \in Drawables : mode[d] = "auto" => GetGroups(d) # {}
=============================================================================
