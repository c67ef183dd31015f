----------------------------- MODULE MarkSweepMC ------------------------------
(***************************************************************************)
(* Three slots, arrays of one or two elements, and a reference that no     *)
(* slot has.                                                               *)
(***************************************************************************)
EXTENDS MarkSweep

MCRefBase == -1000
NoWords == {}

Refs == {index_to_ref(i) : i \in 0 .. 3}

Arrays ==
    {<<>>} \cup {<<w>> : w \in Refs \cup {0}}
    \cup {<<r[1], r[2]>> : r \in {p \in Refs \X Refs : p[1] < p[2]}}

AllHeaps ==
    {[size |-> 3, values |-> [i \in 0 .. 2 |-> a[i + 1]]] :
        a \in Arrays \X Arrays \X Arrays}

ShortStacks ==
    {<<w, 0>> : w \in Refs \cup {0}} \cup {<<index_to_ref(2), index_to_ref(0)>>}
    \cup {<<0, index_to_ref(1), index_to_ref(0)>>}
=============================================================================
