------------------------------ MODULE ArrayOps ------------------------------
(***************************************************************************)
(* The array memory of the machine (src/array.c) on top of the mapped      *)
(* array (src/marr.c), as operators on values: references, claimed slots,  *)
(* the mark and the sweep of the collector, and the creation of an array   *)
(* with every collection that can happen inside it.                        *)
(*                                                                         *)
(* A mapped array is a record [size, values].  The map flag and the value  *)
(* of a slot are always written together (marr.c:117-118, 160-161), so one *)
(* function stands for both: values[i] is the sequence of the elements of  *)
(* array i, and <<>> where the map says the slot is unclaimed (a claimed   *)
(* array has at least one element, array.c:78).                            *)
(*                                                                         *)
(* A definition marked "Wrong:" is the one after it with a slip in it.  No *)
(* specification uses it: it shows which property the slip would break.    *)
(***************************************************************************)
EXTENDS Words, FiniteSets, Sequences

CONSTANTS
    ARRAYS_MIN_NUM,   \* slots of the first table
    ARRAYS_MAX_NUM,   \* indexes a reference can encode (2^20 in the program)
    ARR_REF_BASE,     \* k_index_to_ref as a word: the reference of array 0
    GC_PERIOD         \* 100: calls of get_free_index between collections

ASSUME ArrayAssumption ==
    /\ ARRAYS_MIN_NUM \in Nat \ {0}
    /\ ARRAYS_MAX_NUM \in Nat \ {0}
    /\ ARR_REF_BASE \in Word
    /\ ARR_REF_BASE + 16 * (ARRAYS_MAX_NUM - 1) \in Word
    /\ ~ (0 \in ARR_REF_BASE .. ARR_REF_BASE + 16 * (ARRAYS_MAX_NUM - 1))
    /\ GC_PERIOD \in Nat

-----------------------------------------------------------------------------
(* References                                                              *)

(* Eight bits of an index fall on the eight pattern bits of a reference,   *)
(* which are those of 0xAA.  The or of index_to_ref hides the ones that    *)
(* the pattern has anyway.                                                 *)
HiddenBits == {2 * a + 8 * b + 32 * c + 128 * d : a, b, c, d \in {0, 1}}

(* Wrong: the mask leaves out the lowest bit of the pattern. *)
EncodesUnderShortMask(i) ==
    LET bits == (i \div ARRAYS_MAX_NUM) % 256 IN bits - (bits % 2) \in HiddenBits

(* The test ((uint32_t)arr_ref & 0xFF00000F) ^ k_index_to_ref of arr_store:*)
(* no bit outside the pattern is set.  It accepts more indexes than        *)
(* references can tell apart (2 * ARRAYS_MAX_NUM, say).                    *)
Encodes(i) == (i \div ARRAYS_MAX_NUM) % 256 \in HiddenBits

(* The reference of an index that passes this test.                        *)
index_to_ref(i) == ARR_REF_BASE + 16 * (i % ARRAYS_MAX_NUM)

ref_to_index(w) == (w - ARR_REF_BASE) \div 16

(* The words the test (w & 0xFF00000F) ^ k_index_to_ref accepts. *)
ArrRefs == {index_to_ref(i) : i \in 0 .. ARRAYS_MAX_NUM - 1}

(* The indexes named by those of the given words that look like references. *)
RefsIn(words) == {ref_to_index(w) : w \in words \cap ArrRefs}

-----------------------------------------------------------------------------
(* The mapped array                                                        *)

(* Every mapped array that can exist. *)
IsArrMem(mem) ==
    /\ mem \in [size : Nat, values : {mem.values}]
    /\ mem.values \in [0 .. mem.size - 1 -> Seq(Word)]

NoArrays == [size |-> 0, values |-> [i \in {} |-> <<>>]]

Slots(mem) == 0 .. mem.size - 1

(* marr_check_marked *)
Claimed(mem) == {i \in Slots(mem) : mem.values[i] # <<>>}

(* get_free_index takes the lowest unclaimed index. *)
IsFreeIndex(mem, i) ==
    /\ i \in Slots(mem) \ Claimed(mem)
    /\ \A j \in Slots(mem) \ Claimed(mem) : i <= j

FreeIndex(mem) == CHOOSE i \in Slots(mem) : IsFreeIndex(mem, i)

Resized(mem, n) ==
    [size   |-> n,
     values |-> [i \in 0 .. n - 1 |->
                    IF i \in Slots(mem) THEN mem.values[i] ELSE <<>>]]

-----------------------------------------------------------------------------
(* The collector                                                           *)

Elements(array) == {array[k] : k \in 1 .. Len(array)}

(* The indexes that the elements of array i refer to. *)
Links(mem, i) == RefsIn(Elements(mem.values[i]))

(* First loop of mark_arrays: what the given words refer to. *)
Roots(mem, words) == RefsIn(words) \cap Claimed(mem)

(* S holds the roots, and every array that a member of S links to and that *)
(* lies above this member.                                                 *)
UpwardClosed(mem, words, S) ==
    /\ Roots(mem, words) \subseteq S
    /\ \A i \in S : \A j \in Links(mem, i) \cap Claimed(mem) : j > i => j \in S

(* Wrong: the second loop looks into the roots only. *)
ScannedRoots(mem, words) == Roots(mem, words)

(* Second loop of mark_arrays: it visits the indexes once, in ascending    *)
(* order, and looks into an array if it is marked when its index comes up. *)
(* These are the arrays it looks into: the least upward closed set.        *)
Scanned(mem, words) ==
    {i \in Claimed(mem) :
        \A S \in SUBSET Claimed(mem) : UpwardClosed(mem, words, S) => i \in S}

(* What both loops mark. *)
Marked(mem, words) ==
    Roots(mem, words) \cup
        UNION {Links(mem, i) \cap Claimed(mem) : i \in Scanned(mem, words)}

(* marr_check_marked ends the program when it is asked about an index      *)
(* outside the table: a word that looks like a reference is enough.        *)
MarkAborts(mem, words) ==
    ~ (RefsIn(words) \cup UNION {Links(mem, i) : i \in Scanned(mem, words)}
            \subseteq Slots(mem))

(* Wrong: the first array is never swept. *)
SweptFromOne(mem, marked) ==
    [mem EXCEPT !.values =
        [i \in Slots(mem) |-> IF i \in marked \/ i = 0 THEN mem.values[i] ELSE <<>>]]

(* sweep_arrays *)
Swept(mem, marked) ==
    [mem EXCEPT !.values =
        [i \in Slots(mem) |-> IF i \in marked THEN mem.values[i] ELSE <<>>]]

-----------------------------------------------------------------------------
(* What a program can get at, to compare the collector with.               *)

Closed(mem, words, S) ==
    /\ Roots(mem, words) \subseteq S
    /\ \A i \in S : Links(mem, i) \cap Claimed(mem) \subseteq S

(* The arrays reachable from the words through any chain of links.         *)
Reachable(mem, words) ==
    {i \in Claimed(mem) :
        \A S \in SUBSET Claimed(mem) : Closed(mem, words, S) => i \in S}

(* The arrays that are at most one link away from the words.               *)
Held(mem, words) ==
    Roots(mem, words)
        \cup UNION {Links(mem, i) \cap Claimed(mem) : i \in Roots(mem, words)}

-----------------------------------------------------------------------------
(* Operations that collect on the way.  A result carries the array memory, *)
(* the counter element_creations, and ok, which is FALSE once              *)
(* destroy_ijvm_now was called.  The words are the ones the first loop of  *)
(* mark_arrays reads, and do not change during an operation.               *)

Result(mem, n) == [ok |-> TRUE, mem |-> mem, creations |-> n]

arr_gc(r, words) ==
    IF r.ok /\ ~MarkAborts(r.mem, words)
    THEN [r EXCEPT !.mem = Swept(r.mem, Marked(r.mem, words))]
    ELSE [r EXCEPT !.ok = FALSE]

(* Wrong: the collection comes one call late. *)
CountCreationLate(r, words) ==
    IF r.creations > GC_PERIOD
    THEN arr_gc([r EXCEPT !.creations = 0], words)
    ELSE [r EXCEPT !.creations = @ + 1]

(* The counter of get_free_index. *)
CountCreation(r, words) ==
    IF r.creations >= GC_PERIOD
    THEN arr_gc([r EXCEPT !.creations = 0], words)
    ELSE [r EXCEPT !.creations = @ + 1]

(* An allocation that the allocator refuses a number of times: the first   *)
(* refusal collects and gives up unless something was freed, and so does   *)
(* the second, which finds nothing left to free.                           *)
Allocate(r, refusals, words) ==
    IF refusals = 0 THEN r
    ELSE LET g == arr_gc(r, words)
         IN  [g EXCEPT !.ok = /\ g.ok
                              /\ Claimed(g.mem) # Claimed(r.mem)
                              /\ refusals = 1]

(* marr_resize *)
marr_resize(r, n, refusals, words) ==
    LET a == Allocate(r, refusals, words)
    IN  [a EXCEPT !.mem = Resized(a.mem, n)]

(* arr_store up to the choice of the slot: initialise the table if it is   *)
(* empty, and double it if it is full.                                     *)
MakeRoom(r, refusals, words) ==
    LET init  == IF r.mem.size = 0
                 THEN marr_resize(r, ARRAYS_MIN_NUM, refusals, words)
                 ELSE r
        first == CountCreation(init, words)
    IN  IF Claimed(first.mem) = Slots(first.mem)
        THEN CountCreation(
                marr_resize(first, 2 * first.mem.size, refusals, words), words)
        ELSE first

Claim(mem, i, array) == [mem EXCEPT !.values = [@ EXCEPT ![i] = array]]

(* arr_create, the allocator refusing the array a times and the table b   *)
(* times.  The new array is zeroed.  Its slot is claimed before the test   *)
(* that a reference can encode the index.                                  *)
Created(mem, n, words, count, a, b) ==
    LET r == MakeRoom(Allocate(Result(mem, n), a, words), b, words)
        i == FreeIndex(r.mem)
    IN  IF count > 0 /\ r.ok
        THEN [ok        |-> Encodes(i),
              mem       |-> Claim(r.mem, i, [k \in 1 .. count |-> 0]),
              creations |-> r.creations,
              ref       |-> index_to_ref(i)]
        ELSE [ok |-> FALSE, mem |-> mem, creations |-> n, ref |-> 0]

(* Every result of arr_create, one for each way its two allocations go.    *)
arr_create(mem, n, words, count, Refusals) ==
    {Created(mem, n, words, count, a, b) : a \in Refusals, b \in Refusals}

(* arr_check_bounds *)
InBounds(mem, ref, i) ==
    /\ ref \in ArrRefs
    /\ ref_to_index(ref) \in Claimed(mem)
    /\ i \in 0 .. Len(mem.values[ref_to_index(ref)]) - 1

arr_get(mem, ref, i) == mem.values[ref_to_index(ref)][i + 1]

arr_set(mem, ref, i, val) ==
    LET a == ref_to_index(ref)
    IN  Claim(mem, a, [mem.values[a] EXCEPT ![i + 1] = val])
=============================================================================
