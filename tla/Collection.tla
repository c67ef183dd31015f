------------------------------ MODULE Collection ------------------------------
(***************************************************************************)
(* A collection as the rest of the machine sees it: one step, that sweeps  *)
(* every array arr_gc of ArrayOps does not mark, or that ends the process. *)
(* MarkSweep implements it with the loops of array.c.                      *)
(***************************************************************************)
EXTENDS ArrayOps

VARIABLES
    words,     \* the words of the stack that are read
    heap,      \* the arrays
    outcome    \* "collecting", "done", "aborted" by a word that looks like a
               \* reference, or "no memory" for the marks

Init ==
    /\ outcome = "collecting"
    /\ words \subseteq Word
    /\ IsArrMem(heap)

Collect ==
    LET r == arr_gc(Result(heap, 0), words)
    IN  IF r.ok THEN heap' = r.mem /\ outcome' = "done"
                ELSE heap' = NoArrays /\ outcome' = "aborted"

Refused == heap' = NoArrays /\ outcome' = "no memory"

Next == outcome = "collecting" /\ UNCHANGED words /\ (Collect \/ Refused)

Spec == Init /\ [][Next]_<<words, heap, outcome>>
=============================================================================
