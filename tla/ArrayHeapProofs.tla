--------------------------- MODULE ArrayHeapProofs ---------------------------
(***************************************************************************)
(* The properties of ArrayHeap, for every size of the tables, every period *)
(* of the collector, every choice of words and every allocator.            *)
(***************************************************************************)
EXTENDS ArrayHeap, ArrayOpsProofs

-----------------------------------------------------------------------------
(* The stack                                                               *)

LEMMA TopIsWord ==
    ASSUME NEW s \in Seq(Word), NEW k \in 1 .. Len(s)
    PROVE  s[Len(s) - k + 1] \in Word
<1>1. Len(s) - k + 1 \in 1 .. Len(s)
  BY LenProperties
<1> QED
  BY <1>1, ElementOfSeq

LEMMA PoppedIsSeq ==
    ASSUME NEW s \in Seq(Word), NEW k \in 0 .. Len(s)
    PROVE  /\ SubSeq(s, 1, Len(s) - k) \in Seq(Word)
           /\ Len(SubSeq(s, 1, Len(s) - k)) = Len(s) - k
           /\ \A i \in 1 .. Len(s) - k : SubSeq(s, 1, Len(s) - k)[i] = s[i]
BY LenProperties, SubSeqProperties

(* The instructions find their operands, and leave a stack of words. *)
LEMMA OperandsAreWords ==
    ASSUME TypeOK, NEW n \in Nat, Running(n), NEW k \in 1 .. n
    PROVE  /\ Top(k) \in Word
           /\ Popped(k) \in Seq(Word)
           /\ Len(Popped(k)) = Len(stack) - k
           /\ Len(Popped(k)) >= NumLocals + (n - k)
           /\ \A i \in 1 .. Len(stack) - k : Popped(k)[i] = stack[i]
<1>1. stack \in Seq(Word) /\ Len(stack) \in Nat /\ NumLocals \in Nat
  BY HeapAssumption, LenProperties DEF TypeOK
<1>2. k \in 1 .. Len(stack) /\ Len(stack) - k >= NumLocals + (n - k)
  BY <1>1 DEF Running, Operands
<1> QED
  BY <1>1, <1>2, TopIsWord, PoppedIsSeq DEF Top, Popped

-----------------------------------------------------------------------------
(* Type correctness and references                                         *)

(* The inductive invariant: below ARRAYS_MAX_NUM an index is the lowest    *)
(* one of its reference, and the next one fails the test of arr_store.     *)
LowIndexes == Claimed(arr_mem) \subseteq 0 .. ARRAYS_MAX_NUM - 1

IInv == TypeOK /\ LowIndexes

LEMMA InitIInv == Init => IInv
<1> SUFFICES ASSUME Init PROVE IInv
  OBVIOUS
<1>1. 0 \in Word
  BY WordMaxAssumption DEF Word, WordMin
<1>2. stack \in Seq(Word) /\ Len(stack) = NumLocals
  BY <1>1, HeapAssumption, IsASeq, LenProperties DEF Init
<1>3. IsArrMem(arr_mem) /\ Claimed(arr_mem) = {}
  BY NoArraysType DEF Init, NoArrays, Claimed, Slots
<1> QED
  BY <1>2, <1>3, HeapAssumption, ArrayAssumption
  DEF IInv, TypeOK, LowIndexes, Init

(* An instruction that only touches the stack. *)
LEMMA ContinueIInv ==
    ASSUME IInv, status = "running", NEW s \in Seq(Word), Len(s) >= NumLocals,
           Continue(s)
    PROVE  IInv'
BY DEF IInv, TypeOK, LowIndexes, Continue

LEMMA DestroyIInv ==
    ASSUME IInv, DestroyNow
    PROVE  IInv'
<1>1. Claimed(NoArrays) = {}
  BY DEF Claimed, Slots, NoArrays
<1> QED
  BY <1>1, NoArraysType, EmptySeq
  DEF IInv, TypeOK, LowIndexes, DestroyNow

LEMMA NextIInv == IInv /\ [Next]_vars => IInv'
<1> SUFFICES ASSUME IInv, [Next]_vars PROVE IInv'
  OBVIOUS
<1> USE DEF IInv
<1>0. /\ stack \in Seq(Word) /\ Len(stack) \in Nat /\ NumLocals \in Nat
      /\ IsArrMem(arr_mem) /\ element_creations \in 0 .. GC_PERIOD
  BY HeapAssumption, LenProperties DEF TypeOK
<1>1. CASE exec_op_bipush
  <2>1. PICK w \in PushedWords : Continue(Append(stack, w))
    BY <1>1 DEF exec_op_bipush
  <2>2. Append(stack, w) \in Seq(Word) /\ Len(Append(stack, w)) >= NumLocals
    BY <1>0, <1>1, HeapAssumption, AppendProperties
    DEF exec_op_bipush, Running, Operands
  <2> QED
    BY <1>1, <2>1, <2>2, ContinueIInv DEF exec_op_bipush, Running
<1>2. CASE exec_op_iload
  <2>1. PICK i \in 1 .. NumLocals : Continue(Append(stack, stack[i]))
    BY <1>2 DEF exec_op_iload
  <2>2. stack[i] \in Word
    BY <1>0, <1>2, ElementOfSeq DEF exec_op_iload, Running, Operands
  <2>3. /\ Append(stack, stack[i]) \in Seq(Word)
        /\ Len(Append(stack, stack[i])) >= NumLocals
    BY <1>0, <1>2, <2>2, AppendProperties DEF exec_op_iload, Running, Operands
  <2> QED
    BY <1>2, <2>1, <2>3, ContinueIInv DEF exec_op_iload, Running
<1>3. CASE exec_op_istore
  <2>1. PICK i \in 1 .. NumLocals : Continue([Popped(1) EXCEPT ![i] = Top(1)])
    BY <1>3 DEF exec_op_istore
  <2>2. /\ Top(1) \in Word /\ Popped(1) \in Seq(Word)
        /\ i \in 1 .. Len(Popped(1)) /\ Len(Popped(1)) >= NumLocals
    BY <1>0, <1>3, OperandsAreWords DEF exec_op_istore
  <2>3. /\ [Popped(1) EXCEPT ![i] = Top(1)] \in Seq(Word)
        /\ Len([Popped(1) EXCEPT ![i] = Top(1)]) >= NumLocals
    BY <2>2, ExceptSeq
  <2> QED
    BY <1>3, <2>1, <2>3, ContinueIInv DEF exec_op_istore, Running
<1>4. CASE exec_op_pop
  <2>1. Popped(1) \in Seq(Word) /\ Len(Popped(1)) >= NumLocals
    BY <1>0, <1>4, OperandsAreWords DEF exec_op_pop
  <2> QED
    BY <1>4, <2>1, ContinueIInv DEF exec_op_pop, Running
<1>5. CASE exec_op_dup
  <2>1. Top(1) \in Word
    BY <1>0, <1>5, OperandsAreWords DEF exec_op_dup
  <2>2. /\ Append(stack, Top(1)) \in Seq(Word)
        /\ Len(Append(stack, Top(1))) >= NumLocals
    BY <1>0, <1>5, <2>1, AppendProperties DEF exec_op_dup, Running, Operands
  <2> QED
    BY <1>5, <2>2, ContinueIInv DEF exec_op_dup, Running
<1>6. CASE exec_op_swap
  <2> DEFINE s == Popped(2) \o <<Top(1), Top(2)>>
  <2>1. /\ Top(1) \in Word /\ Top(2) \in Word /\ Popped(2) \in Seq(Word)
        /\ Len(Popped(2)) >= NumLocals
    BY <1>0, <1>6, OperandsAreWords DEF exec_op_swap
  <2>2. <<Top(1), Top(2)>> \in Seq(Word) /\ Len(<<Top(1), Top(2)>>) = 2
    BY <2>1
  <2>3. s \in Seq(Word) /\ Len(s) >= NumLocals
    BY <1>0, <2>1, <2>2, ConcatProperties, LenProperties
  <2> QED
    BY <1>6, <2>3, ContinueIInv DEF exec_op_swap, Running
<1>7. CASE exec_op_newarray
  <2>1. PICK r \in arr_create(arr_mem, element_creations,
                              StackWords(Popped(1)), Top(1), Refusals) :
           IF r.ok
           THEN /\ stack' = Append(Popped(1), r.ref)
                /\ arr_mem' = r.mem
                /\ element_creations' = r.creations
                /\ UNCHANGED status
           ELSE DestroyNow
    BY <1>7 DEF exec_op_newarray
  <2>2. /\ Top(1) \in Int /\ Popped(1) \in Seq(Word)
        /\ Len(Popped(1)) >= NumLocals
    BY <1>0, <1>7, OperandsAreWords, WordMaxAssumption
    DEF exec_op_newarray, Word, WordMin
  <2>3. CASE r.ok
    <3>1. /\ IsArrMem(r.mem) /\ r.creations \in 0 .. GC_PERIOD
          /\ r.ref \in Word
          /\ \E i \in 0 .. ARRAYS_MAX_NUM - 1 :
                Claimed(r.mem) \subseteq Claimed(arr_mem) \cup {i}
      BY <1>0, <2>2, <2>3, CreateResult DEF LowIndexes
    <3>2. LowIndexes'
      <4>1. PICK i \in 0 .. ARRAYS_MAX_NUM - 1 :
               Claimed(arr_mem') \subseteq Claimed(arr_mem) \cup {i}
        BY <2>1, <2>3, <3>1
      <4> QED
        BY <4>1 DEF LowIndexes
    <3>3. /\ Append(Popped(1), r.ref) \in Seq(Word)
          /\ Len(Append(Popped(1), r.ref)) >= NumLocals
      BY <1>0, <2>2, <3>1, AppendProperties, LenProperties
    <3> QED
      BY <2>1, <2>3, <3>1, <3>2, <3>3 DEF TypeOK
  <2>4. CASE ~r.ok
    BY <2>1, <2>4, DestroyIInv
  <2> QED
    BY <2>3, <2>4
<1>8. CASE exec_op_iaload
  <2>1. CASE InBounds(arr_mem, Top(1), Top(2))
    <3> DEFINE w == arr_get(arr_mem, Top(1), Top(2))
    <3>1. w \in Word
      BY <1>0, <2>1, GetType
    <3>2. Popped(2) \in Seq(Word) /\ Len(Popped(2)) >= NumLocals
      BY <1>0, <1>8, OperandsAreWords DEF exec_op_iaload
    <3> HIDE DEF w
    <3>3. /\ Append(Popped(2), w) \in Seq(Word)
          /\ Len(Append(Popped(2), w)) >= NumLocals
      BY <1>0, <3>1, <3>2, AppendProperties, LenProperties
    <3> QED
      BY <1>8, <2>1, <3>3, ContinueIInv DEF exec_op_iaload, Running, w
  <2> QED
    BY <1>8, <2>1, DestroyIInv DEF exec_op_iaload
<1>9. CASE exec_op_iastore
  <2>1. CASE InBounds(arr_mem, Top(1), Top(2))
    <3>1. /\ Top(3) \in Word /\ Popped(3) \in Seq(Word)
          /\ Len(Popped(3)) >= NumLocals
      BY <1>0, <1>9, OperandsAreWords DEF exec_op_iastore
    <3>2. /\ IsArrMem(arr_mem')
          /\ Claimed(arr_mem') = Claimed(arr_mem)
      BY <1>0, <1>9, <2>1, <3>1, SetType DEF exec_op_iastore
    <3> QED
      BY <1>9, <2>1, <3>1, <3>2 DEF exec_op_iastore, TypeOK, LowIndexes
  <2> QED
    BY <1>9, <2>1, DestroyIInv DEF exec_op_iastore
<1>10. CASE exec_op_gc
  <2> DEFINE start == Result(arr_mem, element_creations)
             r == arr_gc(start, StackWords(stack))
  <2>1. IsResult(start) /\ start.mem = arr_mem
    BY <1>0 DEF IsResult, Result
  <2> HIDE DEF start
  <2>2. IsStep(start, r, StackWords(stack))
    BY <2>1, CollectIsStep
  <2>3. CASE r.ok
    <3>1. arr_mem' = r.mem /\ UNCHANGED <<stack, element_creations, status>>
      BY <1>10, <2>3 DEF exec_op_gc, start
    <3>2. IsArrMem(r.mem) /\ Claimed(r.mem) \subseteq Claimed(arr_mem)
      BY <2>1, <2>2, <2>3 DEF IsStep, IsResult
    <3> QED
      BY <3>1, <3>2 DEF TypeOK, LowIndexes
  <2>4. CASE ~r.ok
    BY <1>10, <2>4, DestroyIInv DEF exec_op_gc, start
  <2> QED
    BY <2>3, <2>4
<1>11. CASE Exited \/ UNCHANGED vars
  BY <1>11 DEF Exited, vars, TypeOK, LowIndexes
<1> QED
  BY <1>1, <1>2, <1>3, <1>4, <1>5, <1>6, <1>7, <1>8, <1>9, <1>10, <1>11
  DEF Next

(* The memory keeps its shape, and the counter of get_free_index never     *)
(* passes the period of the collector.                                     *)
THEOREM TypeCorrect == Spec => []TypeOK
BY InitIInv, NextIInv, PTL DEF Spec, IInv

(* Every array is reached by its own reference: the search for the lowest *)
(* free index meets the first index that the test of arr_store refuses     *)
(* before it meets one that the test lets pass without a reference.        *)
THEOREM ReferencesLeadBack == Spec => []RefsLeadBack
<1>1. IInv => RefsLeadBack
  BY RefOfIndex DEF IInv, LowIndexes, RefsLeadBack
<1> QED
  BY <1>1, InitIInv, NextIInv, PTL DEF Spec

-----------------------------------------------------------------------------
(* What the collector keeps and what it frees                              *)

(* Instructions that leave the arrays alone. *)
LEMMA UnchangedKeeps ==
    ASSUME UNCHANGED arr_mem, NEW i \in Protected
    PROVE  i \in Claimed(arr_mem') /\ arr_mem'.values[i] = arr_mem.values[i]
BY HeldIsMarked DEF Protected

LEMMA StepKeepsRooted ==
    ASSUME IInv, Next, status' = "running", NEW i \in Protected
    PROVE  /\ i \in Claimed(arr_mem')
           /\ \/ arr_mem'.values[i] = arr_mem.values[i]
              \/ StoredInto(i) /\ Len(arr_mem'.values[i]) = Len(arr_mem.values[i])
<1> DEFINE deep == {stack[k] : k \in 1 .. Len(stack) - 2}
<1>0. /\ stack \in Seq(Word) /\ Len(stack) \in Nat /\ NumLocals \in Nat
      /\ IsArrMem(arr_mem) /\ element_creations \in 0 .. GC_PERIOD
      /\ i \in Held(arr_mem, deep) /\ i \in Claimed(arr_mem)
      /\ TypeOK
  BY HeapAssumption, LenProperties, HeldIsMarked DEF IInv, TypeOK, Protected
<1>1. CASE exec_op_newarray
  <2>1. Top(1) \in Int /\ Len(Popped(1)) = Len(stack) - 1
        /\ \A k \in 1 .. Len(stack) - 1 : Popped(1)[k] = stack[k]
    BY <1>0, <1>1, OperandsAreWords, WordMaxAssumption
    DEF exec_op_newarray, Word, WordMin
  <2>2. StackWords(Popped(1)) = deep
    BY <1>0, <2>1 DEF StackWords
  <2>3. PICK r \in arr_create(arr_mem, element_creations, deep, Top(1), Refusals) :
           IF r.ok THEN arr_mem' = r.mem ELSE DestroyNow
    BY <1>1, <2>2 DEF exec_op_newarray
  <2>4. r.ok
    BY <2>3 DEF DestroyNow
  <2>5. Keeps(arr_mem, r.mem, deep)
    BY <1>0, <2>1, <2>4, CreateResult DEF IInv, LowIndexes
  <2> QED
    BY <1>0, <2>3, <2>4, <2>5 DEF Keeps
<1>2. CASE exec_op_gc
  <2> DEFINE start == Result(arr_mem, element_creations)
             r == arr_gc(start, StackWords(stack))
  <2>1. IsResult(start) /\ start.mem = arr_mem
    BY <1>0 DEF IsResult, Result
  <2>2. r.ok /\ arr_mem' = r.mem
    BY <1>2 DEF exec_op_gc, DestroyNow
  <2> HIDE DEF start
  <2>3. Keeps(arr_mem, r.mem, StackWords(stack))
    BY <2>1, <2>2, CollectIsStep DEF IsStep
  <2>4. deep \subseteq StackWords(stack)
    BY <1>0 DEF StackWords
  <2>5. i \in Held(arr_mem, StackWords(stack))
    BY <1>0, <2>4, HeldByFewer
  <2> QED
    BY <2>2, <2>3, <2>5 DEF Keeps
<1>3. CASE exec_op_iastore
  <2> DEFINE a == ref_to_index(Top(1))
  <2>1. InBounds(arr_mem, Top(1), Top(2))
        /\ arr_mem' = arr_set(arr_mem, Top(1), Top(2), Top(3))
    BY <1>3 DEF exec_op_iastore, DestroyNow
  <2>2. Top(3) \in Word
    BY <1>0, <1>3, OperandsAreWords DEF exec_op_iastore
  <2>3. /\ Claimed(arr_mem') = Claimed(arr_mem)
        /\ Len(arr_mem'.values[a]) = Len(arr_mem.values[a])
        /\ \A j \in Claimed(arr_mem) : j # a => arr_mem'.values[j] = arr_mem.values[j]
    BY <1>0, <2>1, <2>2, SetType
  <2>4. CASE i = a
    <3>1. Top(1) = index_to_ref(a)
      BY <2>1, RefOfIndex, ArrayAssumption DEF InBounds, ArrRefs
    <3> QED
      BY <1>0, <1>3, <2>3, <2>4, <3>1 DEF StoredInto
  <2> QED
    BY <1>0, <2>3, <2>4
<1>4. CASE exec_op_iaload
  BY <1>4, UnchangedKeeps DEF exec_op_iaload, Continue, DestroyNow
<1>5. CASE \/ exec_op_bipush \/ exec_op_iload \/ exec_op_istore \/ exec_op_pop
           \/ exec_op_dup \/ exec_op_swap \/ Exited
  <2>1. UNCHANGED arr_mem
    BY <1>5 DEF exec_op_bipush, exec_op_iload, exec_op_istore, exec_op_pop,
                exec_op_dup, exec_op_swap, Exited, Continue, vars
  <2> QED
    BY <2>1, UnchangedKeeps
<1> QED
  BY <1>1, <1>2, <1>3, <1>4, <1>5 DEF Next

(* Two words below the top, no collection loses an array or changes its    *)
(* elements, wherever in an instruction it happens.                        *)
THEOREM RootedArraysAreKept == Spec => RootedKeepContents
<1>1. IInv /\ [Next]_vars =>
        [status' = "running" =>
            \A i \in Protected :
                /\ i \in Claimed(arr_mem')
                /\ \/ arr_mem'.values[i] = arr_mem.values[i]
                   \/ StoredInto(i)
                        /\ Len(arr_mem'.values[i]) = Len(arr_mem.values[i])]_vars
  BY StepKeepsRooted
<1> QED
  BY <1>1, InitIInv, NextIInv, PTL DEF Spec, RootedKeepContents

(* A GC that comes back has freed every array the program cannot reach.    *)
LEMMA CollectsGarbage ==
    ASSUME IInv, Collects
    PROVE  Claimed(arr_mem') \subseteq Reachable(arr_mem, AllWords(stack))
<1> DEFINE start == Result(arr_mem, element_creations)
           r == arr_gc(start, StackWords(stack))
<1>1. r.ok /\ arr_mem' = r.mem
  BY DEF Collects, exec_op_gc, DestroyNow
<1>2. IsArrMem(arr_mem) /\ start.mem = arr_mem /\ start.ok = TRUE
  BY DEF IInv, TypeOK, Result
<1>3. r.mem = Swept(arr_mem, Marked(arr_mem, StackWords(stack)))
  BY <1>1, <1>2 DEF arr_gc, Result
<1>4. Claimed(arr_mem') \subseteq Marked(arr_mem, StackWords(stack))
  BY <1>1, <1>2, <1>3, SweptType
<1>5. StackWords(stack) \subseteq AllWords(stack)
  BY LenProperties DEF IInv, TypeOK, StackWords, AllWords
<1> QED
  BY <1>4, <1>5, MarkedIsReachable, ReachableByFewer

THEOREM NoGarbageIsLeft == Spec => CollectorLeavesNoGarbage
<1>1. IInv /\ [Next]_vars =>
        [Collects =>
            Claimed(arr_mem') \subseteq Reachable(arr_mem, AllWords(stack))]_vars
  BY CollectsGarbage
<1> QED
  BY <1>1, InitIInv, NextIInv, PTL DEF Spec, CollectorLeavesNoGarbage

(* On a heap whose links all lead to higher indexes the single pass of     *)
(* mark_arrays marks exactly what is reachable from the words it read.     *)
THEOREM SinglePassIsExactUpward == Spec => []AscendingHeapsAreExact
<1>1. IInv => AscendingHeapsAreExact
  BY AscendingIsExact DEF IInv, TypeOK, AscendingHeapsAreExact, LinksAscend
<1> QED
  BY <1>1, InitIInv, NextIInv, PTL DEF Spec
=============================================================================
