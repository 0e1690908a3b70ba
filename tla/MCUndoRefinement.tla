-------------------------- MODULE MCUndoRefinement --------------------------
(* UndoRefinement for TLC.                                                 *)
EXTENDS UndoRefinement

CONSTANT MaxStack    \* bound: undo_states in the log

StackBound == Len(stack) <= MaxStack
=============================================================================
