------------------------------ MODULE MarkSweep -------------------------------
(***************************************************************************)
(* A collection step by step: the loops of mark_arrays and sweep_arrays    *)
(* (src/array.c:185-286) over the memory of ArrayHeap, one word of the     *)
(* stack, one element or one slot a step.  It may begin in any heap.       *)
(*                                                                         *)
(* ArrayOps says what the loops come to with least closed sets; here they  *)
(* are shown to (ImplementsCollection).                                    *)
(***************************************************************************)
EXTENDS ArrayHeap

CONSTANTS
    Heaps,    \* the array memories a collection may begin with
    Stacks    \* the stacks it may read

ASSUME CollectionAssumption ==
    /\ \A mem \in Heaps : IsArrMem(mem)
    /\ Stacks \subseteq Seq(Word)

VARIABLES
    marked_arrays,   \* the indexes marked so far
    phase,           \* "allocate", "stack", "elements", "sweep", "done",
                     \* "aborted" or "no memory"
    at,              \* the loop variable: a position of the stack, or an index
    el_i,            \* the element that the second loop looks at next
    before           \* what the collection began with: the arrays, and the
                     \* words of the stack it is to read

gcvars == <<vars, marked_arrays, phase, at, el_i, before>>

GcInit ==
    /\ arr_mem \in Heaps /\ stack \in Stacks
    /\ element_creations = 0 /\ status = "running"
    /\ marked_arrays = {} /\ phase = "allocate" /\ at = 0 /\ el_i = 1
    /\ before = [mem |-> arr_mem, words |-> StackWords(stack)]

(* The process ends in the middle of the collection. *)
Abort(why) ==
    /\ DestroyNow
    /\ phase' = why
    /\ UNCHANGED <<marked_arrays, at, el_i>>

(* The next loop begins at 0. *)
Begin(loop) ==
    /\ phase' = loop /\ at' = 0
    /\ UNCHANGED <<vars, marked_arrays, el_i>>

(* arr_gc: the old marks are freed, calloc clears the new ones. *)
ClearMarks ==
    /\ phase = "allocate"
    /\ \/ /\ marked_arrays' = {} /\ phase' = "stack" /\ at' = 0
          /\ UNCHANGED <<vars, el_i>>
       \/ Abort("no memory")

(* Wrong: a slot without an array is marked as well. *)
MarkedByAny(w) == RefsIn({w})

(* A word of the stack or an element marks the array it refers to. *)
MarkedBy(w) == RefsIn({w}) \cap Claimed(arr_mem)

MarkFromStack ==
    /\ phase = "stack" /\ at < Len(stack) - 1
    /\ IF RefsIn({stack[at + 1]}) \subseteq Slots(arr_mem)
       THEN /\ marked_arrays' = marked_arrays \cup MarkedBy(stack[at + 1])
            /\ at' = at + 1
            /\ UNCHANGED <<vars, phase, el_i>>
       ELSE Abort("aborted")

StackRead == phase = "stack" /\ at >= Len(stack) - 1 /\ Begin("elements")

(* Wrong: a link to the array itself is not passed over. *)
NextElementUnlessSelf(w) == IF RefsIn({w}) = {at} THEN el_i ELSE el_i + 1

NextElement(w) == el_i + 1

(* The second loop looks into the arrays that are marked when it comes to  *)
(* them.  A link of an array to itself is not looked up.                   *)
MarkFromElement ==
    /\ phase = "elements" /\ at \in marked_arrays /\ el_i <= Len(arr_mem.values[at])
    /\ LET w == arr_mem.values[at][el_i]
       IN  IF RefsIn({w}) \ {at} \subseteq Slots(arr_mem)
           THEN /\ marked_arrays' = marked_arrays \cup (MarkedBy(w) \ {at})
                /\ el_i' = NextElement(w)
                /\ UNCHANGED <<vars, phase, at>>
           ELSE Abort("aborted")

(* Wrong: an array is passed over when the one before it was marked. *)
LookedIntoSkipping ==
    \/ at \notin marked_arrays
    \/ at - 1 \in marked_arrays
    \/ el_i > Len(arr_mem.values[at])

(* The array is not marked, or all its elements were looked at. *)
LookedInto == at \notin marked_arrays \/ el_i > Len(arr_mem.values[at])

NextArray ==
    /\ phase = "elements" /\ at < arr_mem.size /\ LookedInto
    /\ at' = at + 1 /\ el_i' = 1
    /\ UNCHANGED <<vars, marked_arrays, phase>>

ElementsRead == phase = "elements" /\ at = arr_mem.size /\ Begin("sweep")

(* Wrong: the mark of the slot before decides. *)
IsSweptByNeighbour(i) == (i - 1) \notin marked_arrays

IsSwept(i) == i \notin marked_arrays

(* arr_remove *)
SweepArray ==
    /\ phase = "sweep" /\ at < arr_mem.size
    /\ arr_mem' = IF IsSwept(at) THEN Claim(arr_mem, at, <<>>) ELSE arr_mem
    /\ at' = at + 1
    /\ UNCHANGED <<stack, element_creations, status, marked_arrays, phase, el_i>>

Collected == phase = "sweep" /\ at = arr_mem.size /\ Begin("done")

GcOver ==
    /\ phase \in {"done", "aborted", "no memory"}
    /\ UNCHANGED <<vars, marked_arrays, phase, at, el_i>>

GcStep ==
    \/ ClearMarks
    \/ MarkFromStack \/ StackRead
    \/ MarkFromElement \/ NextArray \/ ElementsRead
    \/ SweepArray \/ Collected

GcNext == UNCHANGED before /\ (GcStep \/ GcOver)

(* Nothing but the process itself runs the loops. *)
GcSpec == GcInit /\ [][GcNext]_gcvars /\ WF_gcvars(GcStep /\ UNCHANGED before)

-----------------------------------------------------------------------------
(* Where the loops stand.                                                  *)

(* The arrays the second loop looks into. *)
LookedAt == Scanned(before.mem, before.words)

(* The first n words of a stack or of an array. *)
FirstWords(s, n) == {s[k] : k \in 1 .. n}

(* What the second loop has read before element e of array n: the arrays   *)
(* below it that it looks into, and the elements before e.                 *)
WordsBefore(mem, words, n, e) ==
    UNION {FirstWords(mem.values[i],
                      IF i < n THEN Len(mem.values[i])
                      ELSE IF i = n THEN e - 1 ELSE 0) : i \in Scanned(mem, words)}

(* What the first two loops have read so far. *)
WordsRead ==
    IF phase = "stack" THEN FirstWords(stack, at)
    ELSE before.words \cup WordsBefore(before.mem, before.words, at, el_i)

(* The arrays the third loop has swept so far. *)
SweptSoFar ==
    [before.mem EXCEPT !.values = [i \in Slots(before.mem) |->
        IF i < at /\ i \notin marked_arrays THEN <<>> ELSE before.mem.values[i]]]

(* The loop variables stay within the stack, the table and the arrays      *)
(* (array.c:185-263), and a process that has left has nothing.             *)
GcTypeOK ==
    /\ IsArrMem(arr_mem) /\ IsArrMem(before.mem)
    /\ stack \in Seq(Word) /\ before.words \subseteq Word
    /\ marked_arrays \subseteq Claimed(before.mem)
    /\ phase \in {"allocate", "stack", "elements", "sweep", "done",
                   "aborted", "no memory"}
    /\ IF phase \in {"aborted", "no memory"}
       THEN status = "destroyed" /\ arr_mem = NoArrays
       ELSE status = "running" /\ before.words = StackWords(stack)
    /\ phase = "stack" => at = 0 \/ at \in 1 .. Len(stack) - 1
    /\ phase \in {"elements", "sweep"} => at \in 0 .. before.mem.size
    /\ phase = "elements" =>
          IF at \in LookedAt
          THEN el_i \in 1 .. Len(before.mem.values[at]) + 1
          ELSE el_i = 1

(* The marks are at every moment those of the words that were read, none   *)
(* of which names a slot the table does not have; the two loops end with   *)
(* the least closed set of ArrayOps, although the second reads marks that  *)
(* it goes on setting, below and above its index (array.c:211-243); and    *)
(* the third loop takes away the arrays without a mark, one by one.        *)
LoopsOnTrack ==
    /\ phase = "allocate" => arr_mem = before.mem /\ marked_arrays = {} /\ el_i = 1
    /\ phase \in {"stack", "elements"} =>
          /\ arr_mem = before.mem
          /\ RefsIn(WordsRead) \subseteq Slots(before.mem)
          /\ marked_arrays = RefsIn(WordsRead) \cap Claimed(before.mem)
    /\ phase \in {"sweep", "done"} =>
          /\ ~MarkAborts(before.mem, before.words)
          /\ marked_arrays = Marked(before.mem, before.words)
    /\ phase = "stack" => el_i = 1
    /\ phase = "sweep" => arr_mem = SweptSoFar
    /\ phase = "done" => arr_mem = Swept(before.mem, marked_arrays)

-----------------------------------------------------------------------------
(* The loops free exactly the arrays that ArrayOps says, or end the        *)
(* process exactly on the words it says.                                   *)
Atomic == INSTANCE Collection WITH
              words   <- before.words,
              heap    <- IF status = "destroyed" THEN NoArrays
                         ELSE IF phase = "done" THEN arr_mem ELSE before.mem,
              outcome <- IF phase \in {"done", "aborted", "no memory"} THEN phase
                         ELSE "collecting"

ImplementsCollection == Atomic!Spec

(* At no moment of the sweep an array is missing that a word of the stack  *)
(* or an element of such an array refers to, although the sweep begins     *)
(* with a part of what the program can reach unmarked (array.c:211-243).   *)
HeldWhileSweeping ==
    status = "running" =>
        \A i \in Held(before.mem, before.words) :
            /\ i \in Claimed(arr_mem)
            /\ arr_mem.values[i] = before.mem.values[i]

(* A collection ends, on cyclic heaps and on arrays that hold their own    *)
(* reference as well (array.c:232-235).                                    *)
CollectionEnds == <>(phase \in {"done", "aborted", "no memory"})
=============================================================================
