--------------------------- MODULE MarkSweepProofs ---------------------------
(***************************************************************************)
(* The loops of the collector do what ArrayOps says of them in one step,   *)
(* for every heap and every stack a collection may begin with.             *)
(***************************************************************************)
EXTENDS MarkSweep, ArrayOpsProofs

-----------------------------------------------------------------------------
(* What the second loop reads from one step to the next                    *)

LEMMA InWordsBefore ==
    ASSUME NEW mem, NEW words, NEW n \in Int, NEW e \in Int, NEW w,
           Scanned(mem, words) \subseteq Int
    PROVE  w \in WordsBefore(mem, words, n, e) <=>
              \E i \in Scanned(mem, words) :
                 \/ i < n /\ w \in Elements(mem.values[i])
                 \/ i = n /\ \E k \in 1 .. e - 1 : w = mem.values[i][k]
BY DEF WordsBefore, FirstWords, Elements

LEMMA NothingBeforeFirst ==
    ASSUME NEW mem, NEW words, Scanned(mem, words) \subseteq Nat
    PROVE  WordsBefore(mem, words, 0, 1) = {}
<1>1. ASSUME NEW w PROVE w \notin WordsBefore(mem, words, 0, 1)
  BY InWordsBefore
<1> QED
  BY <1>1

LEMMA BeforeNextElement ==
    ASSUME NEW mem, NEW words, NEW n \in Scanned(mem, words), NEW e \in Nat \ {0},
           Scanned(mem, words) \subseteq Nat
    PROVE  WordsBefore(mem, words, n, e + 1)
               = WordsBefore(mem, words, n, e) \cup {mem.values[n][e]}
<1>1. 1 .. (e + 1) - 1 = (1 .. e - 1) \cup {e}
  OBVIOUS
<1>2. ASSUME NEW w
      PROVE  w \in WordsBefore(mem, words, n, e + 1) <=>
                w \in WordsBefore(mem, words, n, e) \/ w = mem.values[n][e]
  BY <1>1, InWordsBefore
<1> QED
  BY <1>2

LEMMA BeforeNextArray ==
    ASSUME NEW mem, NEW words, NEW n \in Nat, NEW e \in Nat,
           Scanned(mem, words) \subseteq Nat,
           n \in Scanned(mem, words) => e - 1 = Len(mem.values[n])
    PROVE  WordsBefore(mem, words, n + 1, 1) = WordsBefore(mem, words, n, e)
<1>1. \A i \in Scanned(mem, words) : i < n + 1 <=> i < n \/ i = n
  OBVIOUS
<1>2. ASSUME NEW w
      PROVE  w \in WordsBefore(mem, words, n + 1, 1) <=>
                w \in WordsBefore(mem, words, n, e)
  BY <1>1, InWordsBefore DEF Elements
<1> QED
  BY <1>2

(* Of an array the loop does not look into no element counts. *)
LEMMA LinksBefore ==
    ASSUME NEW mem, NEW words, NEW n \in Int, NEW e \in Int, NEW j,
           Scanned(mem, words) \subseteq Int, n \notin Scanned(mem, words)
    PROVE  j \in RefsIn(WordsBefore(mem, words, n, e)) <=>
              \E i \in Scanned(mem, words) : i < n /\ j \in Links(mem, i)
BY InWordsBefore DEF RefsIn, Links

-----------------------------------------------------------------------------
(* The inductive invariant                                                 *)

GcInv == GcTypeOK /\ LoopsOnTrack

LEMMA InitGcInv == GcInit => GcInv
<1> SUFFICES ASSUME GcInit PROVE GcInv
  OBVIOUS
<1>1. IsArrMem(arr_mem) /\ stack \in Seq(Word)
  BY CollectionAssumption DEF GcInit
<1>2. StackWords(stack) \subseteq Word
  <2>1. \A k \in 1 .. Len(stack) - 1 : k \in 1 .. Len(stack)
    BY <1>1, LenProperties
  <2> QED
    BY <1>1, <2>1, ElementOfSeq DEF StackWords
<1> QED
  BY <1>1, <1>2 DEF GcInit, GcInv, GcTypeOK, LoopsOnTrack

(* The process leaves: nothing is claimed to hold of the marks any more. *)
LEMMA AbortGcInv ==
    ASSUME GcInv, UNCHANGED before, NEW why \in {"aborted", "no memory"}, Abort(why)
    PROVE  GcInv'
BY NoArraysType, EmptySeq
DEF GcInv, GcTypeOK, LoopsOnTrack, Abort, DestroyNow

LEMMA ClearMarksGcInv ==
    ASSUME GcInv, UNCHANGED before, ClearMarks
    PROVE  GcInv'
<1>1. CASE Abort("no memory")
  BY <1>1, AbortGcInv
<1>2. CASE /\ marked_arrays' = {} /\ phase' = "stack" /\ at' = 0
           /\ UNCHANGED <<vars, el_i>>
  <2>1. WordsRead' = {} /\ RefsIn({}) = {}
    BY <1>2 DEF WordsRead, FirstWords, RefsIn
  <2>2. GcTypeOK'
    BY <1>2 DEF GcInv, GcTypeOK, ClearMarks, vars
  <2>3. LoopsOnTrack'
    BY <1>2, <2>1 DEF GcInv, LoopsOnTrack, ClearMarks, vars
  <2> QED
    BY <2>2, <2>3 DEF GcInv
<1> QED
  BY <1>1, <1>2 DEF ClearMarks

-----------------------------------------------------------------------------
(* The first loop                                                          *)

LEMMA MarkFromStackGcInv ==
    ASSUME GcInv, UNCHANGED before, MarkFromStack
    PROVE  GcInv'
<1> DEFINE w == stack[at + 1]
<1>0. /\ phase = "stack" /\ at < Len(stack) - 1 /\ status = "running"
      /\ at \in Nat /\ Len(stack) \in Nat
      /\ arr_mem = before.mem
  BY LenProperties DEF GcInv, GcTypeOK, LoopsOnTrack, MarkFromStack
<1>1. CASE RefsIn({w}) \subseteq Slots(arr_mem)
  <2>1. /\ marked_arrays' = marked_arrays \cup MarkedBy(w)
        /\ at' = at + 1
        /\ UNCHANGED <<vars, phase, el_i>>
    BY <1>1 DEF MarkFromStack
  <2>2. WordsRead' = WordsRead \cup {w}
    BY <1>0, <2>1 DEF WordsRead, FirstWords, vars
  <2>3. RefsIn(WordsRead') = RefsIn(WordsRead) \cup RefsIn({w})
    BY <2>2, RefsInUnion
  <2>4. GcTypeOK'
    BY <1>0, <2>1 DEF GcInv, GcTypeOK, MarkedBy, vars
  <2>5. LoopsOnTrack'
    BY <1>0, <1>1, <2>1, <2>3 DEF GcInv, LoopsOnTrack, MarkedBy, vars
  <2> QED
    BY <2>4, <2>5 DEF GcInv
<1>2. CASE ~(RefsIn({w}) \subseteq Slots(arr_mem))
  BY <1>2, AbortGcInv DEF MarkFromStack
<1> QED
  BY <1>1, <1>2

(* The first loop has read the words below the top of the stack. *)
LEMMA StackReadWords ==
    ASSUME GcInv, StackRead
    PROVE  WordsRead = before.words
<1>1. /\ phase = "stack" /\ Len(stack) \in Nat /\ at >= Len(stack) - 1
      /\ at = 0 \/ at \in 1 .. Len(stack) - 1
      /\ before.words = StackWords(stack)
  BY LenProperties DEF GcInv, GcTypeOK, StackRead
<1>2. 1 .. at = 1 .. Len(stack) - 1
  BY <1>1
<1> QED
  BY <1>1, <1>2 DEF WordsRead, FirstWords, StackWords

LEMMA StackReadGcInv ==
    ASSUME GcInv, UNCHANGED before, StackRead
    PROVE  GcInv'
<1>1. /\ phase = "stack" /\ phase' = "elements" /\ at' = 0 /\ el_i = 1
      /\ UNCHANGED <<vars, marked_arrays, el_i>>
  BY DEF GcInv, LoopsOnTrack, StackRead, Begin
<1>2. /\ LookedAt' \subseteq Slots(before.mem) /\ IsArrMem(before.mem)
      /\ Slots(before.mem) \subseteq Nat /\ before.mem.size \in Nat
  <2>1. LookedAt' = LookedAt /\ LookedAt \subseteq Claimed(before.mem)
    BY MarkedTypes DEF LookedAt
  <2>2. IsArrMem(before.mem)
    BY DEF GcInv, GcTypeOK
  <2> QED
    BY <2>1, <2>2 DEF IsArrMem, Claimed, Slots
<1>3. WordsRead' = before.words
  BY <1>1, <1>2, NothingBeforeFirst DEF WordsRead, LookedAt
<1>4. WordsRead' = WordsRead
  BY <1>3, StackReadWords
<1>5. GcTypeOK'
  <2>1. 0 \in LookedAt' => 1 \in 1 .. Len(before.mem.values[0]) + 1
    BY <1>2, ArrayIsSeq
  <2> QED
    BY <1>1, <1>2, <2>1 DEF GcInv, GcTypeOK, vars
<1>6. LoopsOnTrack'
  BY <1>1, <1>4 DEF GcInv, LoopsOnTrack, vars
<1> QED
  BY <1>5, <1>6 DEF GcInv

-----------------------------------------------------------------------------
(* The second loop                                                         *)

(* What the invariant says while the loop runs. *)
LEMMA InElements ==
    ASSUME GcInv, phase = "elements"
    PROVE  /\ IsArrMem(before.mem) /\ arr_mem = before.mem
           /\ status = "running"
           /\ before.mem.size \in Nat /\ at \in 0 .. before.mem.size
           /\ el_i \in Nat \ {0}
           /\ LookedAt \subseteq Claimed(before.mem)
           /\ Claimed(before.mem) \subseteq Slots(before.mem)
           /\ Slots(before.mem) = 0 .. before.mem.size - 1
           /\ RefsIn(WordsRead) \subseteq Slots(before.mem)
           /\ marked_arrays = RefsIn(WordsRead) \cap Claimed(before.mem)
           /\ at \in LookedAt => /\ el_i \in 1 .. Len(before.mem.values[at]) + 1
                                 /\ Len(before.mem.values[at]) \in Nat
           /\ at \notin LookedAt => el_i = 1
<1>1. LookedAt \subseteq Claimed(before.mem)
  BY MarkedTypes DEF LookedAt
<1>2. IsArrMem(before.mem) /\ Claimed(before.mem) \subseteq Slots(before.mem)
  BY DEF GcInv, GcTypeOK, Claimed
<1>3. at \in LookedAt => Len(before.mem.values[at]) \in Nat
  BY <1>1, <1>2, ArrayIsSeq
<1> QED
  BY <1>1, <1>2, <1>3 DEF GcInv, GcTypeOK, LoopsOnTrack, IsArrMem, Slots

(* When the loop comes to an index, it is marked exactly if the loop is to *)
(* look into it: marks that are set later cannot change that.              *)
LEMMA MarkedIfLookedAt ==
    ASSUME GcInv, phase = "elements"
    PROVE  at \in marked_arrays <=> at \in LookedAt
<1> DEFINE mem == before.mem
           words == before.words
           linked == \E i \in LookedAt : i < at /\ at \in Links(mem, i)
<1>1. /\ IsArrMem(mem) /\ LookedAt \subseteq Claimed(mem)
      /\ Claimed(mem) \subseteq Int /\ at \in Int /\ el_i \in Int
      /\ marked_arrays = RefsIn(WordsRead) \cap Claimed(mem)
  BY InElements
<1>2. RefsIn(WordsRead) = RefsIn(words) \cup RefsIn(WordsBefore(mem, words, at, el_i))
  BY RefsInUnion DEF WordsRead
<1>3. at \in Claimed(mem) => (at \in LookedAt <=> at \in RefsIn(words) \/ linked)
  BY <1>1, ScannedFromBelow DEF LookedAt, Roots
<1>4. linked => at \in RefsIn(WordsBefore(mem, words, at, el_i))
  BY <1>1, InWordsBefore DEF LookedAt, RefsIn, Links
<1>5. at \notin LookedAt /\ at \in RefsIn(WordsBefore(mem, words, at, el_i)) => linked
  BY <1>1, LinksBefore DEF LookedAt
<1> QED
  BY <1>1, <1>2, <1>3, <1>4, <1>5

LEMMA MarkFromElementGcInv ==
    ASSUME GcInv, UNCHANGED before, MarkFromElement
    PROVE  GcInv'
<1> DEFINE w == arr_mem.values[at][el_i]
<1>0. /\ phase = "elements" /\ at \in marked_arrays
      /\ el_i <= Len(before.mem.values[at]) /\ at \in LookedAt
      /\ arr_mem = before.mem
  BY MarkedIfLookedAt, InElements DEF MarkFromElement
<1>1. CASE RefsIn({w}) \ {at} \subseteq Slots(arr_mem)
  <2>1. /\ marked_arrays' = marked_arrays \cup (MarkedBy(w) \ {at})
        /\ el_i' = el_i + 1
        /\ UNCHANGED <<vars, phase, at>>
    BY <1>1 DEF MarkFromElement, NextElement
  <2>2. LookedAt' = LookedAt
    BY DEF LookedAt
  <2>3. WordsRead' = WordsRead \cup {w}
    BY <1>0, <2>1, BeforeNextElement, InElements DEF WordsRead, LookedAt
  <2>4. RefsIn(WordsRead') = RefsIn(WordsRead) \cup RefsIn({w})
    BY <2>3, RefsInUnion
  <2>5. GcTypeOK'
    BY <1>0, <2>1, <2>2, InElements DEF GcInv, GcTypeOK, MarkedBy, vars
  <2>6. LoopsOnTrack'
    BY <1>0, <1>1, <2>1, <2>4, InElements DEF LoopsOnTrack, MarkedBy, vars
  <2> QED
    BY <2>5, <2>6 DEF GcInv
<1>2. CASE ~(RefsIn({w}) \ {at} \subseteq Slots(arr_mem))
  BY <1>2, AbortGcInv DEF MarkFromElement
<1> QED
  BY <1>1, <1>2

LEMMA NextArrayGcInv ==
    ASSUME GcInv, UNCHANGED before, NextArray
    PROVE  GcInv'
<1>1. /\ phase = "elements" /\ at < before.mem.size
      /\ at \notin LookedAt \/ el_i > Len(before.mem.values[at])
      /\ at' = at + 1 /\ el_i' = 1
      /\ UNCHANGED <<vars, marked_arrays, phase>>
  BY MarkedIfLookedAt, InElements DEF NextArray, LookedInto
<1>2. LookedAt' = LookedAt /\ LookedAt \subseteq Nat
  <2>1. LookedAt \subseteq Nat
    BY InElements, <1>1
  <2> QED
    BY <2>1 DEF LookedAt
<1>3. at \in LookedAt => el_i - 1 = Len(before.mem.values[at])
  <2> SUFFICES ASSUME at \in LookedAt
               PROVE  el_i - 1 = Len(before.mem.values[at])
    OBVIOUS
  <2> DEFINE n == Len(before.mem.values[at])
  <2>1. el_i > n /\ el_i \in 1 .. n + 1 /\ n \in Nat
    BY <1>1, InElements
  <2> HIDE DEF n
  <2>2. el_i - 1 = n
    BY <2>1
  <2> QED
    BY <2>2 DEF n
<1>4. at \in Nat /\ el_i \in Nat
  BY <1>1, InElements
<1>5. WordsRead' = WordsRead
  <2>1. WordsBefore(before.mem, before.words, at + 1, 1)
            = WordsBefore(before.mem, before.words, at, el_i)
    BY <1>2, <1>3, <1>4, BeforeNextArray DEF LookedAt
  <2> QED
    BY <1>1, <2>1 DEF WordsRead
<1>6. GcTypeOK'
  <2>1. at + 1 \in LookedAt => 1 \in 1 .. Len(before.mem.values[at + 1]) + 1
    BY ArrayIsSeq, InElements, <1>1
  <2> QED
    BY <1>1, <1>2, <2>1, InElements DEF GcInv, GcTypeOK, vars
<1>7. LoopsOnTrack'
  BY <1>1, <1>5, InElements DEF LoopsOnTrack, vars
<1> QED
  BY <1>6, <1>7 DEF GcInv

(* At the end of the loop the marks are those of ArrayOps. *)
LEMMA ElementsReadGcInv ==
    ASSUME GcInv, UNCHANGED before, ElementsRead
    PROVE  GcInv'
<1> DEFINE mem == before.mem
           words == before.words
           linked == UNION {Links(mem, i) : i \in LookedAt}
<1>1. /\ phase = "elements" /\ at = mem.size /\ phase' = "sweep" /\ at' = 0
      /\ UNCHANGED <<vars, marked_arrays, el_i>>
      /\ IsArrMem(mem) /\ arr_mem = mem
  BY InElements DEF ElementsRead, Begin
<1>2. /\ LookedAt \subseteq Int /\ at \in Int /\ el_i \in Int
      /\ \A i \in LookedAt : i < at
      /\ at \notin LookedAt
  BY <1>1, InElements
<1>3. ASSUME NEW j
      PROVE  j \in RefsIn(WordsBefore(mem, words, at, el_i)) <=> j \in linked
  BY <1>2, LinksBefore DEF LookedAt
<1>4. RefsIn(WordsRead) = RefsIn(words) \cup linked
  <2>1. RefsIn(WordsBefore(mem, words, at, el_i)) = linked
    BY <1>3
  <2>2. WordsRead = words \cup WordsBefore(mem, words, at, el_i)
    BY <1>1 DEF WordsRead
  <2> QED
    BY <2>1, <2>2, RefsInUnion
<1>5. marked_arrays = Marked(mem, words)
  <2>1. marked_arrays = (RefsIn(words) \cup linked) \cap Claimed(mem)
    BY <1>1, <1>4, InElements
  <2> QED
    BY <2>1 DEF Marked, Roots, LookedAt
<1>6. ~MarkAborts(mem, words)
  <2>1. RefsIn(words) \cup linked \subseteq Slots(mem)
    BY <1>1, <1>4, InElements
  <2> QED
    BY <2>1 DEF MarkAborts, LookedAt
<1>7. arr_mem' = SweptSoFar'
  <2>1. \A i \in Slots(mem) : ~(i < 0)
    BY <1>1 DEF Slots, IsArrMem
  <2>2. SweptSoFar' = [mem EXCEPT !.values = [i \in Slots(mem) |-> mem.values[i]]]
    BY <1>1, <2>1 DEF SweptSoFar
  <2>3. [i \in Slots(mem) |-> mem.values[i]] = mem.values
    BY <1>1 DEF IsArrMem, Slots
  <2>4. [mem EXCEPT !.values = mem.values] = mem
    BY <1>1 DEF IsArrMem
  <2> QED
    BY <1>1, <2>2, <2>3, <2>4 DEF vars
<1>8. GcTypeOK'
  BY <1>1, InElements DEF GcInv, GcTypeOK, vars
<1> QED
  BY <1>1, <1>5, <1>6, <1>7, <1>8 DEF GcInv, LoopsOnTrack

-----------------------------------------------------------------------------
(* The third loop                                                          *)

LEMMA InSweep ==
    ASSUME GcInv, phase = "sweep"
    PROVE  /\ IsArrMem(before.mem) /\ IsArrMem(arr_mem) /\ status = "running"
           /\ before.mem.size \in Nat /\ at \in 0 .. before.mem.size
           /\ ~MarkAborts(before.mem, before.words)
           /\ marked_arrays = Marked(before.mem, before.words)
           /\ arr_mem = SweptSoFar
           /\ arr_mem.size = before.mem.size
           /\ \A i \in Slots(before.mem) : arr_mem.values[i] =
                 IF i < at /\ i \notin marked_arrays THEN <<>> ELSE before.mem.values[i]
<1>1. IsArrMem(before.mem) /\ arr_mem = SweptSoFar
  BY DEF GcInv, GcTypeOK, LoopsOnTrack
<1>2. /\ arr_mem.size = before.mem.size
      /\ arr_mem.values = [i \in Slots(before.mem) |->
              IF i < at /\ i \notin marked_arrays THEN <<>> ELSE before.mem.values[i]]
  BY <1>1 DEF SweptSoFar, IsArrMem
<1> QED
  BY <1>1, <1>2 DEF GcInv, GcTypeOK, LoopsOnTrack, IsArrMem

(* Two memories with the same slots and the same arrays are the same. *)
LEMMA SameMemory ==
    ASSUME NEW mem1, IsArrMem(mem1), NEW mem2, IsArrMem(mem2), mem1.size = mem2.size,
           \A i \in Slots(mem1) : mem1.values[i] = mem2.values[i]
    PROVE  mem1 = mem2
<1>1. mem1.values = mem2.values
  BY DEF IsArrMem, Slots
<1> QED
  BY <1>1 DEF IsArrMem

LEMMA SweepArrayGcInv ==
    ASSUME GcInv, UNCHANGED before, SweepArray
    PROVE  GcInv'
<1> DEFINE mem == before.mem
           left(n, i) == IF i < n /\ i \notin marked_arrays THEN <<>> ELSE mem.values[i]
           next == [mem EXCEPT !.values = [i \in Slots(mem) |-> left(at + 1, i)]]
<1>1. /\ phase = "sweep" /\ at < mem.size /\ at' = at + 1
      /\ arr_mem' = IF at \notin marked_arrays THEN Claim(arr_mem, at, <<>>) ELSE arr_mem
      /\ UNCHANGED <<stack, element_creations, status, marked_arrays, phase, el_i>>
  BY InSweep DEF SweepArray, IsSwept
<1>2. /\ IsArrMem(mem) /\ IsArrMem(arr_mem) /\ mem.size \in Nat /\ at \in Nat
      /\ at \in Slots(arr_mem) /\ Slots(mem) = Slots(arr_mem)
      /\ Slots(mem) = 0 .. mem.size - 1
      /\ arr_mem.size = mem.size
      /\ \A i \in Slots(mem) : arr_mem.values[i] = left(at, i)
  BY <1>1, InSweep DEF Slots
<1>3. /\ IsArrMem(arr_mem') /\ arr_mem'.size = mem.size
      /\ \A i \in Slots(mem) : arr_mem'.values[i] = left(at + 1, i)
  <2>1. \A i \in Slots(mem) : i < at + 1 <=> i < at \/ i = at
    BY <1>2
  <2>2. CASE at \in marked_arrays
    BY <1>1, <1>2, <2>1, <2>2
  <2>3. CASE at \notin marked_arrays
    <3>1. arr_mem' = Claim(arr_mem, at, <<>>)
      BY <1>1, <2>3
    <3>2. /\ IsArrMem(arr_mem') /\ arr_mem'.size = mem.size
          /\ arr_mem'.values = [arr_mem.values EXCEPT ![at] = <<>>]
      <4> DEFINE none == <<>>
      <4>1. none \in Seq(Word)
        BY EmptySeq
      <4> HIDE DEF none
      <4>2. IsArrMem(arr_mem) /\ at \in Slots(arr_mem)
        BY <1>2
      <4>3. /\ IsArrMem(Claim(arr_mem, at, none))
            /\ Claim(arr_mem, at, none).size = arr_mem.size
            /\ Claim(arr_mem, at, none).values = [arr_mem.values EXCEPT ![at] = none]
        BY <4>1, <4>2, ClaimType
      <4> QED
        BY <1>2, <3>1, <4>3 DEF none
    <3>3. DOMAIN arr_mem.values = Slots(mem)
      BY <1>2 DEF IsArrMem
    <3> QED
      BY <1>2, <2>1, <2>3, <3>2, <3>3
  <2> QED
    BY <2>2, <2>3
<1>4. /\ IsArrMem(next) /\ next.size = mem.size
      /\ \A i \in Slots(mem) : next.values[i] = left(at + 1, i)
  <2>1. /\ next.size = mem.size /\ next.values = [i \in Slots(mem) |-> left(at + 1, i)]
        /\ next \in [size : Nat, values : {next.values}]
    BY <1>2 DEF IsArrMem
  <2>2. \A i \in Slots(mem) : left(at + 1, i) \in Seq(Word)
    BY <1>2, ArrayIsSeq, EmptySeq
  <2> QED
    BY <1>2, <2>1, <2>2 DEF IsArrMem
<1>5. next = SweptSoFar'
  BY <1>1 DEF SweptSoFar
<1> HIDE DEF next, left
<1>6. arr_mem' = SweptSoFar'
  BY <1>2, <1>3, <1>4, <1>5, SameMemory DEF Slots
<1>7. GcTypeOK'
  BY <1>1, <1>2, <1>3 DEF GcInv, GcTypeOK
<1> QED
  BY <1>1, <1>6, <1>7 DEF GcInv, LoopsOnTrack

LEMMA CollectedGcInv ==
    ASSUME GcInv, UNCHANGED before, Collected
    PROVE  GcInv'
<1> DEFINE mem == before.mem
<1>1. /\ phase = "sweep" /\ at = mem.size /\ phase' = "done"
      /\ UNCHANGED <<vars, marked_arrays, el_i>>
  BY InSweep DEF Collected, Begin
<1>2. \A i \in Slots(mem) : i < at
  BY <1>1, InSweep DEF Slots
<1>3. arr_mem = Swept(mem, marked_arrays)
  <2>1. \A i \in Slots(mem) :
           (IF i < at /\ i \notin marked_arrays THEN <<>> ELSE mem.values[i])
              = (IF i \in marked_arrays THEN mem.values[i] ELSE <<>>)
    BY <1>2
  <2> QED
    BY <1>1, <2>1, InSweep DEF SweptSoFar, Swept
<1>4. GcTypeOK'
  BY <1>1 DEF GcInv, GcTypeOK, vars
<1> QED
  BY <1>1, <1>3, <1>4 DEF GcInv, LoopsOnTrack, vars

-----------------------------------------------------------------------------
(* What holds of every collection                                          *)

LEMMA NextGcInv == GcInv /\ [GcNext]_gcvars => GcInv'
<1> SUFFICES ASSUME GcInv, [GcNext]_gcvars PROVE GcInv'
  OBVIOUS
<1>1. CASE UNCHANGED gcvars
  <2>1. WordsRead' = WordsRead /\ SweptSoFar' = SweptSoFar /\ LookedAt' = LookedAt
    BY <1>1 DEF gcvars, vars, WordsRead, SweptSoFar, LookedAt
  <2> QED
    BY <1>1, <2>1 DEF gcvars, vars, GcInv, GcTypeOK, LoopsOnTrack
<1>2. CASE UNCHANGED before /\ GcStep
  BY <1>2, ClearMarksGcInv, MarkFromStackGcInv, StackReadGcInv, MarkFromElementGcInv,
     NextArrayGcInv, ElementsReadGcInv, SweepArrayGcInv, CollectedGcInv
  DEF GcStep
<1>3. CASE UNCHANGED before /\ GcOver
  BY <1>1, <1>3 DEF GcOver, gcvars
<1> QED
  BY <1>1, <1>2, <1>3 DEF GcNext

(* A collection is its loops, run by nobody but the process itself. *)
LEMMA GcSafety == GcSpec => GcInit /\ [][GcNext]_gcvars
BY PTL DEF GcSpec

LEMMA GcInvariance == GcSpec => []GcInv
BY InitGcInv, NextGcInv, GcSafety, PTL

(* The loop variables stay within the stack, the table and the arrays, on  *)
(* every heap and every stack.                                             *)
THEOREM GcTypeCorrect == GcSpec => []GcTypeOK
BY GcInvariance, PTL DEF GcInv

(* At every moment the marks are those of the words that were read, and    *)
(* the loops end with the least closed set of ArrayOps.                    *)
THEOREM LoopsStayOnTrack == GcSpec => []LoopsOnTrack
BY GcInvariance, PTL DEF GcInv

(* At no moment of a collection an array is missing, or has other elements,*)
(* that a word of the stack or an element of such an array refers to.      *)
LEMMA OnTrackHolds == GcInv => HeldWhileSweeping
<1> SUFFICES ASSUME GcInv, status = "running",
                    NEW i \in Held(before.mem, before.words)
             PROVE  i \in Claimed(arr_mem) /\ arr_mem.values[i] = before.mem.values[i]
  BY DEF HeldWhileSweeping
<1> DEFINE mem == before.mem
<1>1. /\ IsArrMem(mem) /\ i \in Claimed(mem) /\ i \in Marked(mem, before.words)
      /\ i \in Slots(mem)
  BY HeldIsMarked DEF GcInv, GcTypeOK, Claimed
<1>2. CASE phase \in {"allocate", "stack", "elements"}
  BY <1>1, <1>2 DEF GcInv, LoopsOnTrack
<1>3. CASE phase = "sweep"
  <2>1. arr_mem.size = mem.size /\ arr_mem.values[i] = mem.values[i]
    BY <1>1, <1>3, InSweep
  <2> QED
    BY <1>1, <2>1 DEF Claimed, Slots
<1>4. CASE phase = "done"
  BY <1>1, <1>4, SweptType DEF GcInv, LoopsOnTrack
<1> QED
  BY <1>2, <1>3, <1>4 DEF GcInv, GcTypeOK

THEOREM NothingHeldIsSwept == GcSpec => []HeldWhileSweeping
BY GcInvariance, OnTrackHolds, PTL

-----------------------------------------------------------------------------
(* The loops implement a collection in one step                            *)

(* Collection and MarkSweep mean the same by ArrayOps. *)
LEMMA SameCollector ==
    ASSUME NEW r, NEW words
    PROVE  Atomic!arr_gc(r, words) = arr_gc(r, words)
BY DEF Atomic!arr_gc, Atomic!MarkAborts, Atomic!Marked, Atomic!Swept, Atomic!Scanned,
       Atomic!UpwardClosed, Atomic!Roots, Atomic!Links, Atomic!Elements, Atomic!RefsIn,
       Atomic!ref_to_index, Atomic!ArrRefs, Atomic!index_to_ref, Atomic!Claimed,
       Atomic!Slots,
       arr_gc, MarkAborts, Marked, Swept, Scanned, UpwardClosed, Roots, Links,
       Elements, RefsIn, ref_to_index, ArrRefs, index_to_ref, Claimed, Slots

(* The arrays and the outcome that Collection sees. *)
heapSeen ==
    IF status = "destroyed" THEN NoArrays
    ELSE IF phase = "done" THEN arr_mem ELSE before.mem
outcomeSeen ==
    IF phase \in {"done", "aborted", "no memory"} THEN phase ELSE "collecting"

LEMMA InitSeen == GcInit => Atomic!Init
<1> SUFFICES ASSUME GcInit PROVE Atomic!Init
  OBVIOUS
<1>1. GcTypeOK /\ phase = "allocate" /\ status = "running"
  BY InitGcInv DEF GcInit, GcInv
<1> QED
  BY <1>1 DEF GcTypeOK, Atomic!Init, Atomic!IsArrMem, IsArrMem, Atomic!Word, Word,
              Atomic!WordMin, WordMin

LEMMA CollectSeen ==
    ASSUME IF arr_gc(Result(heapSeen, 0), before.words).ok
           THEN /\ heapSeen' = arr_gc(Result(heapSeen, 0), before.words).mem
                /\ outcomeSeen' = "done"
           ELSE heapSeen' = NoArrays /\ outcomeSeen' = "aborted",
           outcomeSeen = "collecting", UNCHANGED before
    PROVE  Atomic!Next
<1>1. Atomic!Collect
  BY SameCollector DEF heapSeen, outcomeSeen, Atomic!Collect, Atomic!Result, Result,
                       Atomic!NoArrays, NoArrays
<1> QED
  BY <1>1 DEF Atomic!Next, outcomeSeen

(* While a collection runs, the program has nothing but what it began with.*)
LEMMA SeenWhileRunning ==
    ASSUME GcInv, phase \in {"allocate", "stack", "elements", "sweep"}
    PROVE  /\ heapSeen = before.mem /\ outcomeSeen = "collecting"
           /\ IsArrMem(before.mem)
           /\ LET r == arr_gc(Result(before.mem, 0), before.words)
              IN  /\ r.ok <=> ~MarkAborts(before.mem, before.words)
                  /\ r.ok => r.mem = Swept(before.mem, Marked(before.mem, before.words))
BY DEF GcInv, GcTypeOK, heapSeen, outcomeSeen, arr_gc, Result

(* A word that names no slot ends the process in both. *)
LEMMA AbortSeen ==
    ASSUME GcInv, UNCHANGED before, phase \in {"stack", "elements"}, Abort("aborted"),
           MarkAborts(before.mem, before.words)
    PROVE  Atomic!Next
<1>1. heapSeen' = NoArrays /\ outcomeSeen' = "aborted"
  BY DEF Abort, DestroyNow, heapSeen, outcomeSeen
<1> QED
  BY <1>1, SeenWhileRunning, CollectSeen

LEMMA StackAbortSeen ==
    ASSUME GcInv, UNCHANGED before, MarkFromStack, Abort("aborted"),
           ~(RefsIn({stack[at + 1]}) \subseteq Slots(arr_mem))
    PROVE  Atomic!Next
<1>1. /\ phase = "stack" /\ at < Len(stack) - 1 /\ at \in Nat /\ Len(stack) \in Nat
      /\ before.words = StackWords(stack) /\ arr_mem = before.mem
  BY LenProperties DEF GcInv, GcTypeOK, LoopsOnTrack, MarkFromStack
<1>2. at + 1 \in 1 .. Len(stack) - 1
  BY <1>1
<1>3. RefsIn({stack[at + 1]}) \subseteq RefsIn(before.words)
  BY <1>1, <1>2 DEF StackWords, RefsIn
<1>4. MarkAborts(before.mem, before.words)
  BY <1>1, <1>3 DEF MarkAborts
<1> QED
  BY <1>1, <1>4, AbortSeen

LEMMA ElementAbortSeen ==
    ASSUME GcInv, UNCHANGED before, MarkFromElement, Abort("aborted"),
           ~(RefsIn({arr_mem.values[at][el_i]}) \ {at} \subseteq Slots(arr_mem))
    PROVE  Atomic!Next
<1> DEFINE w == arr_mem.values[at][el_i]
<1>1. /\ phase = "elements" /\ at \in LookedAt /\ arr_mem = before.mem
      /\ el_i \in 1 .. Len(before.mem.values[at])
  BY MarkedIfLookedAt, InElements DEF MarkFromElement
<1>2. RefsIn({w}) \subseteq Links(before.mem, at)
  BY <1>1 DEF Links, Elements, RefsIn
<1>3. MarkAborts(before.mem, before.words)
  BY <1>1, <1>2 DEF MarkAborts, LookedAt
<1> QED
  BY <1>1, <1>3, AbortSeen

(* A step that leaves everything Collection sees as it was. *)
StutterSeen == UNCHANGED <<before.words, heapSeen, outcomeSeen>>

LEMMA GcStepSeen ==
    ASSUME GcInv, UNCHANGED before, GcStep
    PROVE  Atomic!Next \/ StutterSeen
<1> USE DEF StutterSeen
<1>1. CASE ClearMarks
  <2>1. CASE Abort("no memory")
    BY <1>1, <2>1, SeenWhileRunning
    DEF ClearMarks, Abort, DestroyNow, heapSeen, outcomeSeen, Atomic!Next,
        Atomic!Refused, Atomic!NoArrays, NoArrays
  <2>2. CASE phase' = "stack" /\ UNCHANGED vars
    BY <1>1, <2>2 DEF ClearMarks, heapSeen, outcomeSeen, vars
  <2> QED
    BY <1>1, <2>1, <2>2 DEF ClearMarks
<1>2. CASE MarkFromStack
  <2>1. CASE RefsIn({stack[at + 1]}) \subseteq Slots(arr_mem)
    BY <1>2, <2>1 DEF MarkFromStack, heapSeen, outcomeSeen, vars
  <2>2. CASE ~(RefsIn({stack[at + 1]}) \subseteq Slots(arr_mem))
    BY <1>2, <2>2, StackAbortSeen DEF MarkFromStack
  <2> QED
    BY <2>1, <2>2
<1>3. CASE MarkFromElement
  <2> DEFINE w == arr_mem.values[at][el_i]
  <2>1. CASE RefsIn({w}) \ {at} \subseteq Slots(arr_mem)
    BY <1>3, <2>1 DEF MarkFromElement, heapSeen, outcomeSeen, vars
  <2>2. CASE ~(RefsIn({w}) \ {at} \subseteq Slots(arr_mem))
    BY <1>3, <2>2, ElementAbortSeen DEF MarkFromElement
  <2> QED
    BY <2>1, <2>2
<1>4. CASE StackRead \/ NextArray \/ ElementsRead
  BY <1>4 DEF StackRead, NextArray, ElementsRead, Begin, heapSeen, outcomeSeen, vars
<1>5. CASE SweepArray
  BY <1>5, InSweep DEF SweepArray, heapSeen, outcomeSeen
<1>6. CASE Collected
  <2>1. /\ phase = "sweep" /\ phase' = "done" /\ arr_mem' = arr_mem
        /\ status' = status /\ status = "running"
    BY <1>6, InSweep DEF Collected, Begin, vars
  <2>2. /\ ~MarkAborts(before.mem, before.words)
        /\ arr_mem' = Swept(before.mem, Marked(before.mem, before.words))
    BY <1>6, <2>1, CollectedGcInv DEF GcInv, LoopsOnTrack
  <2>3. heapSeen' = arr_mem' /\ outcomeSeen' = "done"
    BY <2>1 DEF heapSeen, outcomeSeen
  <2> QED
    BY <2>1, <2>2, <2>3, SeenWhileRunning, CollectSeen
<1> QED
  BY <1>1, <1>2, <1>3, <1>4, <1>5, <1>6 DEF GcStep

(* The loops free exactly the arrays ArrayOps says, or end the process     *)
(* exactly on the words it says: seen from outside, a collection is one    *)
(* step.                                                                   *)
THEOREM LoopsImplementCollection == GcSpec => ImplementsCollection
<1>1. GcInv /\ [GcNext]_gcvars =>
        [Atomic!Next]_<<before.words, heapSeen, outcomeSeen>>
  <2> SUFFICES ASSUME GcInv, [GcNext]_gcvars
               PROVE  Atomic!Next \/ StutterSeen
    BY DEF StutterSeen
  <2>1. CASE UNCHANGED gcvars \/ (UNCHANGED before /\ GcOver)
    BY <2>1 DEF gcvars, vars, GcOver, StutterSeen, heapSeen, outcomeSeen
  <2> QED
    BY <2>1, GcStepSeen DEF GcNext
<1>2. GcSpec => [][Atomic!Next]_<<before.words, heapSeen, outcomeSeen>>
  BY <1>1, GcInvariance, GcSafety, PTL
<1> QED
  BY <1>2, InitSeen, GcSafety, PTL
  DEF ImplementsCollection, Atomic!Spec, heapSeen, outcomeSeen
=============================================================================
