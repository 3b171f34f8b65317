---------------------------- MODULE MCTweenChain ----------------------------
(* Small instances of TweenChain for TLC. *)
EXTENDS TweenChain

\* A single stage, three stages, and stages without steps.
SomeLists == {<<2>>, <<1, 2, 1>>, <<0, 0>>}
=============================================================================
