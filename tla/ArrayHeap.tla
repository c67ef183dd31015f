------------------------------ MODULE ArrayHeap ------------------------------
(***************************************************************************)
(* The collector at work under a program that uses arrays.                 *)
(*                                                                         *)
(* The mutator is any program that stays in main and never pops its local  *)
(* variables off the stack: each action is the instruction it is named     *)
(* after (src/interpreter.c), chosen freely.  The stack is the sequence    *)
(* stack[0 .. sp] of the CPU, whose first NumLocals words are the local    *)
(* variables of main.  Words other than the results of instructions come   *)
(* from the set PushedWords, which holds whatever arithmetic and constants *)
(* can produce, words that look like references included.                  *)
(*                                                                         *)
(* MaxStack and MaxElements bound the stack and the arrays.                *)
(***************************************************************************)
EXTENDS ArrayOps

CONSTANTS
    NumLocals,     \* local variables of main
    PushedWords,   \* words the mutator pushes
    Refusals,      \* how often the allocator may refuse one allocation
    MaxStack,      \* bound: words on the stack
    MaxElements    \* bound: elements of an array

ASSUME HeapAssumption ==
    /\ NumLocals \in Nat
    /\ PushedWords \subseteq Word
    /\ Refusals \subseteq Nat
    /\ MaxStack \in Nat
    /\ MaxElements \in Nat

VARIABLES
    stack,              \* g_cpu->stack[0 .. sp]
    arr_mem,            \* the arrays
    element_creations,  \* calls of get_free_index since the last collection
    status              \* "running" until destroy_ijvm_now is called

vars == <<stack, arr_mem, element_creations, status>>

-----------------------------------------------------------------------------
(* Which words the collector reads.                                        *)

(* Wrong: the bottom of the stack is left out. *)
StackWordsFromOne(s) == {s[k] : k \in 2 .. Len(s) - 1}

(* The words the first loop of mark_arrays reads: those below sp.          *)
StackWords(s) == {s[k] : k \in 1 .. Len(s) - 1}

(* All the words of a stack. *)
AllWords(s) == {s[k] : k \in 1 .. Len(s)}

-----------------------------------------------------------------------------
Init ==
    /\ stack = [k \in 1 .. NumLocals |-> 0]
    /\ arr_mem = NoArrays
    /\ element_creations = 0
    /\ status = "running"

(* The words above the local variables. *)
Operands == Len(stack) - NumLocals

(* Word number k from the top of the stack, and the stack without k words. *)
Top(k) == stack[Len(stack) - k + 1]
Popped(k) == SubSeq(stack, 1, Len(stack) - k)

Continue(s) ==
    /\ stack' = s
    /\ UNCHANGED <<arr_mem, element_creations, status>>

(* destroy_ijvm_now frees the memory and leaves the process. *)
DestroyNow ==
    /\ stack' = <<>>
    /\ arr_mem' = NoArrays
    /\ status' = "destroyed"
    /\ UNCHANGED element_creations

Running(n) == status = "running" /\ Operands >= n

HasRoom == Len(stack) < MaxStack

exec_op_bipush ==
    /\ Running(0) /\ HasRoom
    /\ \E w \in PushedWords : Continue(Append(stack, w))

exec_op_iload ==
    /\ Running(0) /\ HasRoom
    /\ \E i \in 1 .. NumLocals : Continue(Append(stack, stack[i]))

exec_op_istore ==
    /\ Running(1)
    /\ \E i \in 1 .. NumLocals : Continue([Popped(1) EXCEPT ![i] = Top(1)])

exec_op_pop ==
    /\ Running(1)
    /\ Continue(Popped(1))

exec_op_dup ==
    /\ Running(1) /\ HasRoom
    /\ Continue(Append(stack, Top(1)))

exec_op_swap ==
    /\ Running(2)
    /\ Continue(Popped(2) \o <<Top(1), Top(2)>>)

(* The count leaves the stack before the array is created, so the word     *)
(* under it is the one a collection in arr_create does not read.           *)
exec_op_newarray ==
    /\ Running(1)
    /\ Top(1) <= MaxElements
    /\ \E r \in arr_create(arr_mem, element_creations,
                           StackWords(Popped(1)), Top(1), Refusals) :
          IF r.ok
          THEN /\ stack' = Append(Popped(1), r.ref)
               /\ arr_mem' = r.mem
               /\ element_creations' = r.creations
               /\ UNCHANGED status
          ELSE DestroyNow

exec_op_iaload ==
    /\ Running(2)
    /\ IF InBounds(arr_mem, Top(1), Top(2))
       THEN Continue(Append(Popped(2), arr_get(arr_mem, Top(1), Top(2))))
       ELSE DestroyNow

exec_op_iastore ==
    /\ Running(3)
    /\ IF InBounds(arr_mem, Top(1), Top(2))
       THEN /\ stack' = Popped(3)
            /\ arr_mem' = arr_set(arr_mem, Top(1), Top(2), Top(3))
            /\ UNCHANGED <<element_creations, status>>
       ELSE DestroyNow

(* GC: the counter of get_free_index is not touched. *)
exec_op_gc ==
    /\ Running(0)
    /\ LET r == arr_gc(Result(arr_mem, element_creations), StackWords(stack))
       IN  IF r.ok
           THEN /\ arr_mem' = r.mem
                /\ UNCHANGED <<stack, element_creations, status>>
           ELSE DestroyNow

(* destroy_ijvm_now does not return. *)
Exited ==
    /\ status = "destroyed"
    /\ UNCHANGED vars

Next ==
    \/ exec_op_bipush
    \/ exec_op_iload
    \/ exec_op_istore
    \/ exec_op_pop
    \/ exec_op_dup
    \/ exec_op_swap
    \/ exec_op_newarray
    \/ exec_op_iaload
    \/ exec_op_iastore
    \/ exec_op_gc
    \/ Exited

Spec == Init /\ [][Next]_vars

-----------------------------------------------------------------------------
(* The arrays, the stack and the counter keep their shapes, and the counter*)
(* of get_free_index never passes the period of the collector              *)
(* (marr.c:19-27).                                                         *)
TypeOK ==
    /\ stack \in Seq(Word)
    /\ IsArrMem(arr_mem)
    /\ element_creations \in 0 .. GC_PERIOD
    /\ status \in {"running", "destroyed"}
    /\ status = "running" => Len(stack) >= NumLocals

(* Every array is reached by its own reference, so no two arrays share one.*)
(* The table may have more slots than there are references; the slot is    *)
(* claimed before the test, and the test lets pass indexes whose high bits *)
(* the pattern hides (array.c:55-69).  What saves it is the search for the *)
(* lowest free slot: the first index that is too high is not hidden, and   *)
(* the program ends there.                                                 *)
RefsLeadBack == \A i \in Claimed(arr_mem) : ref_to_index(index_to_ref(i)) = i

(* The single pass of mark_arrays in ascending order is exact on heaps     *)
(* whose links all lead to higher indexes: nothing a program can reach     *)
(* from the words that were read is swept.                                 *)
LinksAscend ==
    \A i \in Claimed(arr_mem) : \A j \in Links(arr_mem, i) : i <= j
AscendingHeapsAreExact ==
    LinksAscend =>
        Reachable(arr_mem, StackWords(stack))
            = Marked(arr_mem, StackWords(stack))

(* Two words below the top, no collection can lose an array: whatever      *)
(* instruction runs, an array that is referenced there, or by an element   *)
(* of an array that is, is still claimed afterwards under the same index,  *)
(* and has the same elements unless the instruction is IASTORE on it.      *)
Protected == Held(arr_mem, {stack[k] : k \in 1 .. Len(stack) - 2})
StoredInto(i) == exec_op_iastore /\ Top(1) = index_to_ref(i)
RootedKeepContents ==
    [][status' = "running" =>
        \A i \in Protected :
            /\ i \in Claimed(arr_mem')
            /\ \/ arr_mem'.values[i] = arr_mem.values[i]
               \/ StoredInto(i) /\ Len(arr_mem'.values[i]) = Len(arr_mem.values[i])
      ]_vars

(* The step is a GC that comes back: it leaves the stack alone. *)
Collects == stack' = stack /\ status' = "running" /\ exec_op_gc

(* GC leaves nothing behind that the program cannot reach any more, be it  *)
(* through links in cycles (docs/isa_extensions.md:51-55).                 *)
CollectorLeavesNoGarbage ==
    [][Collects =>
        Claimed(arr_mem') \subseteq Reachable(arr_mem, AllWords(stack))]_vars

-----------------------------------------------------------------------------
(* What the documentation says, and the code does not do.                  *)

(* docs/isa.md:28: GC will "remove inaccessible arrays, i.e. those whose   *)
(* array references are not in memory anymore": an array whose reference   *)
(* is on the stack survives a collection.                                  *)
StackRefsSurvive ==
    [][Collects =>
        Roots(arr_mem, AllWords(stack)) \subseteq Claimed(arr_mem')]_vars

(* docs/isa_extensions.md:54: the elements of all marked arrays are looped *)
(* over, so an array that can be reached from the words that were read     *)
(* survives a collection.                                                  *)
LinkedRefsSurvive ==
    [][Collects =>
        Reachable(arr_mem, StackWords(stack)) \subseteq Claimed(arr_mem')]_vars

(* docs/isa_extensions.md: a program can freely use words that look like   *)
(* references: a collection never ends it.                                 *)
CollectionsNeverAbort ==
    [][exec_op_gc => status' = "running"]_vars
=============================================================================
