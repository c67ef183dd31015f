---------------------------- MODULE ArrayHeapMC ------------------------------
(***************************************************************************)
(* Instances of ArrayHeap for TLC: arrays of one element, three or four    *)
(* references, and a mutator that pushes 1 (a count, or an index that is   *)
(* out of bounds), 0 (an invalid count, or an index), and, where a run     *)
(* asks for it, a word that looks like the reference of an index beyond    *)
(* the first tables.                                                       *)
(***************************************************************************)
EXTENDS ArrayHeap

MCRefBase == -1000

Plain == {0, 1}
WithLookAlike == {0, 1, index_to_ref(ARRAYS_MAX_NUM - 1)}
=============================================================================
