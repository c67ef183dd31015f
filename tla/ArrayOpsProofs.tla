--------------------------- MODULE ArrayOpsProofs ----------------------------
(***************************************************************************)
(* Facts about the operators of ArrayOps: what they preserve of the shape  *)
(* of the array memory, what the collector keeps, and when its single pass *)
(* finds all that is reachable.                                            *)
(***************************************************************************)
EXTENDS ArrayOps, SequenceTheorems, WellFoundedInduction, TLAPS

-----------------------------------------------------------------------------
(* References                                                              *)

(* The reference of an index that is not too high names that index, and   *)
(* no other (array.c:24-36).                                               *)
LEMMA RefOfIndex ==
    ASSUME NEW i \in 0 .. ARRAYS_MAX_NUM - 1
    PROVE  ref_to_index(index_to_ref(i)) = i
<1>1. i \in Int /\ ARRAYS_MAX_NUM \in Nat \ {0} /\ 0 <= i /\ i < ARRAYS_MAX_NUM
  BY ArrayAssumption
<1>2. i % ARRAYS_MAX_NUM = i
  BY <1>1
<1>3. (16 * i) \div 16 = i
  BY <1>1
<1>4. index_to_ref(i) - ARR_REF_BASE = 16 * i
  BY <1>1, <1>2, ArrayAssumption DEF index_to_ref, Word, WordMin
<1> QED
  BY <1>3, <1>4 DEF ref_to_index

(* The lowest index that is too high fails the test of arr_store, and      *)
(* while no array has one, the search for a free slot gets no higher.      *)
LEMMA FreeIndexEncodes ==
    ASSUME NEW mem, IsArrMem(mem), Claimed(mem) \subseteq 0 .. ARRAYS_MAX_NUM - 1,
           NEW i, IsFreeIndex(mem, i), Encodes(i)
    PROVE  i \in 0 .. ARRAYS_MAX_NUM - 1
<1>1. ARRAYS_MAX_NUM \in Nat \ {0} /\ mem.size \in Nat
  BY ArrayAssumption DEF IsArrMem
<1>2. i \in Nat /\ i < mem.size
  BY <1>1 DEF IsFreeIndex, Slots
<1>3. i <= ARRAYS_MAX_NUM
  BY <1>1, <1>2 DEF IsFreeIndex, Slots
<1>4. i # ARRAYS_MAX_NUM
  <2>1. ARRAYS_MAX_NUM \div ARRAYS_MAX_NUM = 1
    BY <1>1
  <2>2. 1 \notin HiddenBits
    BY DEF HiddenBits
  <2> QED
    BY <2>1, <2>2 DEF Encodes
<1> QED
  BY <1>1, <1>2, <1>3, <1>4

(* An encodable reference is a word, and never the 0 that stands for none. *)
LEMMA RefIsWord ==
    ASSUME NEW i \in 0 .. ARRAYS_MAX_NUM - 1
    PROVE  index_to_ref(i) \in Word /\ index_to_ref(i) # 0
<1> DEFINE base == ARR_REF_BASE
           last == ARR_REF_BASE + 16 * (ARRAYS_MAX_NUM - 1)
<1>1. base \in Int /\ last \in Int /\ base \in Word /\ last \in Word
  BY ArrayAssumption, WordMaxAssumption DEF Word, WordMin
<1>2. index_to_ref(i) \in base .. last
  BY <1>1, ArrayAssumption DEF index_to_ref
<1>3. base .. last \subseteq Word
  BY <1>1, WordMaxAssumption DEF Word, WordMin
<1> QED
  BY <1>2, <1>3, ArrayAssumption

(* The indexes that words name are those a reference can encode. *)
LEMMA RefsInBound ==
    ASSUME NEW words
    PROVE  RefsIn(words) \subseteq 0 .. ARRAYS_MAX_NUM - 1
BY RefOfIndex, ArrayAssumption DEF RefsIn, ArrRefs

-----------------------------------------------------------------------------
(* Shapes                                                                  *)

(* What an operation that may collect returns. *)
IsResult(r) ==
    /\ r \in [ok : BOOLEAN, mem : {r.mem}, creations : 0 .. GC_PERIOD]
    /\ IsArrMem(r.mem)

LEMMA NoArraysType == IsArrMem(NoArrays)
BY DEF IsArrMem, NoArrays

LEMMA ArrayIsSeq ==
    ASSUME NEW mem, IsArrMem(mem), NEW i \in Slots(mem)
    PROVE  mem.values[i] \in Seq(Word) /\ Len(mem.values[i]) \in Nat
<1>1. mem.values[i] \in Seq(Word)
  BY DEF IsArrMem, Slots
<1> QED
  BY <1>1, LenProperties

LEMMA ClaimType ==
    ASSUME NEW mem, IsArrMem(mem), NEW i \in Slots(mem), NEW a \in Seq(Word)
    PROVE  /\ IsArrMem(Claim(mem, i, a))
           /\ Claim(mem, i, a).size = mem.size
           /\ Claim(mem, i, a).values = [mem.values EXCEPT ![i] = a]
BY DEF IsArrMem, Claim, Slots

LEMMA SweptType ==
    ASSUME NEW mem, IsArrMem(mem), NEW marked
    PROVE  /\ IsArrMem(Swept(mem, marked))
           /\ Swept(mem, marked).size = mem.size
           /\ Claimed(Swept(mem, marked)) = Claimed(mem) \cap marked
           /\ \A i \in Claimed(mem) \cap marked :
                 Swept(mem, marked).values[i] = mem.values[i]
<1> DEFINE swept(i) == IF i \in marked THEN mem.values[i] ELSE <<>>
           new == Swept(mem, marked)
<1>1. /\ new = [size |-> mem.size, values |-> [i \in Slots(mem) |-> swept(i)]]
  BY DEF Swept, IsArrMem
<1>2. /\ new.size = mem.size
      /\ new.values = [i \in Slots(mem) |-> swept(i)]
  BY <1>1
<1>3. \A i \in Slots(mem) : swept(i) \in Seq(Word)
  BY EmptySeq DEF IsArrMem, Slots
<1>4. IsArrMem(new)
  BY <1>1, <1>2, <1>3 DEF IsArrMem, Slots
<1>5. \A i \in Slots(mem) : new.values[i] = swept(i)
  BY <1>2
<1>6. Claimed(new) = Claimed(mem) \cap marked
  BY <1>2, <1>5 DEF Claimed, Slots
<1> QED
  BY <1>2, <1>4, <1>5, <1>6 DEF Claimed

LEMMA ResizedType ==
    ASSUME NEW mem, IsArrMem(mem), NEW n \in Nat, n >= mem.size
    PROVE  /\ IsArrMem(Resized(mem, n))
           /\ Resized(mem, n).size = n
           /\ Claimed(Resized(mem, n)) = Claimed(mem)
           /\ \A i \in Slots(mem) : Resized(mem, n).values[i] = mem.values[i]
<1> DEFINE val(i) == IF i \in Slots(mem) THEN mem.values[i] ELSE <<>>
           new == Resized(mem, n)
<1>1. new = [size |-> n, values |-> [i \in 0 .. n - 1 |-> val(i)]]
  BY DEF Resized
<1>2. new.size = n /\ new.values = [i \in 0 .. n - 1 |-> val(i)]
  BY <1>1
<1>3. \A i \in 0 .. n - 1 : val(i) \in Seq(Word)
  BY EmptySeq DEF IsArrMem, Slots
<1>4. IsArrMem(new)
  BY <1>1, <1>2, <1>3 DEF IsArrMem
<1>5. \A i \in 0 .. n - 1 : new.values[i] = val(i)
  BY <1>2
<1>6. Slots(mem) \subseteq Slots(new) /\ Slots(new) = 0 .. n - 1
  BY <1>2 DEF Slots, IsArrMem
<1>7. Claimed(new) = Claimed(mem)
  BY <1>5, <1>6 DEF Claimed
<1> QED
  BY <1>2, <1>4, <1>5, <1>6, <1>7

-----------------------------------------------------------------------------
(* What the collector marks                                                *)

LEMMA MarkedTypes ==
    ASSUME NEW mem, NEW words
    PROVE  /\ Roots(mem, words) \subseteq Scanned(mem, words)
           /\ Roots(mem, words) \subseteq Marked(mem, words)
           /\ Scanned(mem, words) \subseteq Claimed(mem)
           /\ Marked(mem, words) \subseteq Claimed(mem)
BY DEF Roots, Scanned, Marked, UpwardClosed

(* From one array memory to another, what the words hold is still there,   *)
(* under the same indexes and with the same elements.                      *)
Keeps(mem1, mem2, words) ==
    \A i \in Held(mem1, words) :
        i \in Claimed(mem2) /\ mem2.values[i] = mem1.values[i]

LEMMA HeldIsMarked ==
    ASSUME NEW mem, NEW words
    PROVE  Held(mem, words) \subseteq Marked(mem, words) \cap Claimed(mem)
BY MarkedTypes DEF Held, Marked

(* What words held before, they hold after. *)
LEMMA KeepsHeld ==
    ASSUME NEW mem1, NEW mem2, NEW words, Keeps(mem1, mem2, words)
    PROVE  Held(mem1, words) \subseteq Held(mem2, words)
<1>1. \A i \in Roots(mem1, words) :
         i \in Roots(mem2, words) /\ Links(mem2, i) = Links(mem1, i)
  BY DEF Keeps, Held, Roots, Links
<1>2. SUFFICES ASSUME NEW i \in Roots(mem1, words),
                      NEW j \in Links(mem1, i) \cap Claimed(mem1)
               PROVE  j \in Held(mem2, words)
  BY <1>1 DEF Held
<1>3. j \in Claimed(mem2)
  BY DEF Keeps, Held
<1> QED
  BY <1>1, <1>3 DEF Held

LEMMA KeepsTransitive ==
    ASSUME NEW mem1, NEW mem2, NEW mem3, NEW words,
           Keeps(mem1, mem2, words), Keeps(mem2, mem3, words)
    PROVE  Keeps(mem1, mem3, words)
BY KeepsHeld DEF Keeps

(* Fewer words hold less. *)
LEMMA HeldByFewer ==
    ASSUME NEW mem, NEW words, NEW fewer, fewer \subseteq words
    PROVE  Held(mem, fewer) \subseteq Held(mem, words)
BY DEF Held, Roots, RefsIn

LEMMA KeepsItself ==
    ASSUME NEW mem, NEW words
    PROVE  Keeps(mem, mem, words)
BY HeldIsMarked DEF Keeps

-----------------------------------------------------------------------------
(* What the operations return and keep                                     *)

(* The step of an operation that may collect from a result to a result: it *)
(* keeps the shapes and, if the program survives it, what the words hold,  *)
(* claims nothing, and never shrinks the table.                            *)
IsStep(r1, r2, words) ==
    /\ IsResult(r2)
    /\ r2.ok => /\ r1.ok
                /\ Keeps(r1.mem, r2.mem, words)
                /\ Claimed(r2.mem) \subseteq Claimed(r1.mem)
    /\ r2.mem.size >= r1.mem.size

LEMMA StepsCompose ==
    ASSUME NEW r1, NEW r2, NEW r3, NEW words, IsResult(r1),
           IsStep(r1, r2, words), IsStep(r2, r3, words)
    PROVE  IsStep(r1, r3, words)
<1>1. r3.ok => Keeps(r1.mem, r3.mem, words)
  BY KeepsTransitive DEF IsStep
<1>2. r3.mem.size >= r1.mem.size
  BY DEF IsStep, IsResult, IsArrMem
<1> QED
  BY <1>1, <1>2 DEF IsStep

LEMMA NoStep ==
    ASSUME NEW r, NEW words, IsResult(r)
    PROVE  IsStep(r, r, words)
BY KeepsItself DEF IsStep, IsResult, IsArrMem

(* arr_gc (array.c:270-286). *)
LEMMA CollectIsStep ==
    ASSUME NEW r, NEW words, IsResult(r)
    PROVE  /\ IsStep(r, arr_gc(r, words), words)
           /\ arr_gc(r, words).mem.size = r.mem.size
<1> DEFINE new == arr_gc(r, words)
           marked == Marked(r.mem, words)
<1>1. CASE r.ok /\ ~MarkAborts(r.mem, words)
  <2>1. new = [r EXCEPT !.mem = Swept(r.mem, marked)]
    BY <1>1 DEF arr_gc
  <2>2. new.ok = r.ok /\ new.mem = Swept(r.mem, marked) /\ IsResult(new)
    BY <2>1, SweptType DEF IsResult
  <2>3. Keeps(r.mem, new.mem, words)
    BY <2>2, SweptType, HeldIsMarked DEF Keeps, IsResult
  <2> QED
    BY <1>1, <2>2, <2>3, SweptType DEF IsStep, IsResult, IsArrMem
<1>2. CASE ~(r.ok /\ ~MarkAborts(r.mem, words))
  <2>1. new = [r EXCEPT !.ok = FALSE]
    BY <1>2 DEF arr_gc
  <2>2. new.ok = FALSE /\ new.mem = r.mem /\ IsResult(new)
    BY <2>1 DEF IsResult
  <2> QED
    BY <2>2 DEF IsStep, IsResult, IsArrMem
<1> QED
  BY <1>1, <1>2

(* The counter of get_free_index (marr.c:19-27). *)
LEMMA CountCreationStep ==
    ASSUME NEW r, NEW words, IsResult(r)
    PROVE  /\ IsStep(r, CountCreation(r, words), words)
           /\ CountCreation(r, words).mem.size = r.mem.size
<1> DEFINE reset == [r EXCEPT !.creations = 0]
           more == [r EXCEPT !.creations = @ + 1]
<1>1. CASE r.creations >= GC_PERIOD
  <2>1. IsResult(reset) /\ reset.ok = r.ok /\ reset.mem = r.mem
    BY ArrayAssumption DEF IsResult
  <2>2. /\ IsStep(reset, arr_gc(reset, words), words)
        /\ arr_gc(reset, words).mem.size = reset.mem.size
    BY <2>1, CollectIsStep
  <2> QED
    BY <1>1, <2>1, <2>2 DEF IsStep, CountCreation
<1>2. CASE ~(r.creations >= GC_PERIOD)
  <2>1. IsResult(more) /\ more.ok = r.ok /\ more.mem = r.mem
    BY <1>2, ArrayAssumption DEF IsResult
  <2> QED
    BY <1>2, <2>1, NoStep DEF IsStep, CountCreation
<1> QED
  BY <1>1, <1>2

(* An allocation the allocator refuses (array.c:85-94, marr.c:73-83). *)
LEMMA AllocateStep ==
    ASSUME NEW r, NEW refusals, NEW words, IsResult(r)
    PROVE  /\ IsStep(r, Allocate(r, refusals, words), words)
           /\ Allocate(r, refusals, words).mem.size = r.mem.size
<1> DEFINE g == arr_gc(r, words)
           ok == g.ok /\ Claimed(g.mem) # Claimed(r.mem) /\ refusals = 1
           new == [g EXCEPT !.ok = ok]
<1>1. CASE refusals = 0
  BY <1>1, NoStep DEF Allocate
<1>2. CASE refusals # 0
  <2>1. IsStep(r, g, words) /\ g.mem.size = r.mem.size
    BY CollectIsStep
  <2>2. new.mem = g.mem /\ new.ok = ok /\ IsResult(new)
    BY <2>1 DEF IsStep, IsResult
  <2> QED
    BY <1>2, <2>1, <2>2 DEF IsStep, Allocate
<1> QED
  BY <1>1, <1>2

LEMMA ResizeStep ==
    ASSUME NEW r, NEW n \in Nat, NEW refusals, NEW words,
           IsResult(r), n >= r.mem.size
    PROVE  /\ IsStep(r, marr_resize(r, n, refusals, words), words)
           /\ marr_resize(r, n, refusals, words).mem.size = n
<1> DEFINE a == Allocate(r, refusals, words)
           new == [a EXCEPT !.mem = Resized(a.mem, n)]
<1>1. IsStep(r, a, words) /\ a.mem.size = r.mem.size
  BY AllocateStep
<1>2. /\ IsArrMem(a.mem)
      /\ new.mem = Resized(a.mem, n)
      /\ new.ok = a.ok
      /\ new \in [ok : BOOLEAN, mem : {new.mem}, creations : 0 .. GC_PERIOD]
  BY <1>1 DEF IsStep, IsResult
<1>3. /\ IsArrMem(new.mem)
      /\ new.mem.size = n
      /\ Claimed(new.mem) = Claimed(a.mem)
      /\ \A i \in Claimed(a.mem) : new.mem.values[i] = a.mem.values[i]
  BY <1>1, <1>2, ResizedType DEF Claimed
<1>4. Keeps(a.mem, new.mem, words)
  BY <1>3, HeldIsMarked DEF Keeps
<1>5. IsStep(a, new, words)
  BY <1>1, <1>2, <1>3, <1>4 DEF IsStep, IsResult
<1>6. IsStep(r, new, words)
  BY <1>1, <1>5, StepsCompose
<1> QED
  BY <1>3, <1>6 DEF marr_resize

(* A set of numbers that is not empty has a least one: get_free_index      *)
(* finds a slot if there is one (marr.c:28-35).                            *)
LEMMA LeastElement ==
    ASSUME NEW S \in SUBSET Nat, S # {}
    PROVE  \E i \in S : \A j \in S : i <= j
<1> DEFINE R == {ss \in Nat \X Nat : ss[1] < ss[2]}
<1>1. IsWellFoundedOn(R, Nat)
  BY NatLessThanWellFounded DEF OpToRel
<1> HIDE DEF R
<1>2. PICK i \in S : \A j \in S : <<j, i>> \notin R
  BY <1>1, WFMin
<1>3. \A j \in S : ~ (j < i)
  BY <1>2 DEF R
<1> QED
  BY <1>3

LEMMA FreeIndexExists ==
    ASSUME NEW mem, IsArrMem(mem), Claimed(mem) # Slots(mem)
    PROVE  IsFreeIndex(mem, FreeIndex(mem))
<1> DEFINE unclaimed == Slots(mem) \ Claimed(mem)
<1>1. unclaimed \in SUBSET Nat /\ unclaimed # {}
  BY DEF Slots, Claimed, IsArrMem
<1>2. PICK i \in unclaimed : \A j \in unclaimed : i <= j
  BY <1>1, LeastElement
<1> QED
  BY <1>2 DEF IsFreeIndex, FreeIndex

(* arr_store before it takes the slot (array.c:43-60): if the program      *)
(* survives, there is a slot to take.                                      *)
LEMMA MakeRoomStep ==
    ASSUME NEW r, NEW refusals, NEW words, IsResult(r)
    PROVE  /\ IsStep(r, MakeRoom(r, refusals, words), words)
           /\ LET mem == MakeRoom(r, refusals, words).mem
              IN  MakeRoom(r, refusals, words).ok => Claimed(mem) # Slots(mem)
<1> DEFINE init  == IF r.mem.size = 0
                    THEN marr_resize(r, ARRAYS_MIN_NUM, refusals, words)
                    ELSE r
           first == CountCreation(init, words)
           grown == marr_resize(first, 2 * first.mem.size, refusals, words)
           second == CountCreation(grown, words)
<1>1. IsStep(r, init, words) /\ init.mem.size > 0
  <2>1. r.mem.size \in Nat /\ ARRAYS_MIN_NUM \in Nat \ {0}
    BY ArrayAssumption DEF IsResult, IsArrMem
  <2>2. CASE r.mem.size = 0
    BY <2>1, <2>2, ResizeStep
  <2>3. CASE r.mem.size # 0
    BY <2>1, <2>3, NoStep
  <2> QED
    BY <2>2, <2>3
<1> HIDE DEF init
<1>2. IsStep(init, first, words) /\ first.mem.size = init.mem.size
  BY <1>1, CountCreationStep DEF IsStep
<1> HIDE DEF first
<1>3. IsStep(r, first, words) /\ first.mem.size \in Nat \ {0}
  <2>1. IsStep(r, first, words)
    BY <1>1, <1>2, StepsCompose
  <2>2. first.mem.size \in Nat
    BY <2>1 DEF IsStep, IsResult, IsArrMem
  <2> QED
    BY <1>1, <1>2, <2>1, <2>2
<1>4. CASE Claimed(first.mem) = Slots(first.mem)
  <2>1. 2 * first.mem.size \in Nat /\ 2 * first.mem.size > first.mem.size
    BY <1>3
  <2>2. IsStep(first, grown, words) /\ grown.mem.size = 2 * first.mem.size
    <3>1. IsResult(first) /\ 2 * first.mem.size >= first.mem.size
      BY <1>3, <2>1 DEF IsStep
    <3> QED
      BY <2>1, <3>1, ResizeStep
  <2>3. IsStep(grown, second, words) /\ second.mem.size = grown.mem.size
    BY <2>2, CountCreationStep DEF IsStep
  <2> HIDE DEF grown, second
  <2>4. IsStep(first, second, words)
    BY <1>3, <2>2, <2>3, StepsCompose DEF IsStep
  <2>5. IsStep(r, second, words)
    BY <1>3, <2>4, StepsCompose
  <2>6. second.ok => first.mem.size \in Slots(second.mem) \ Claimed(second.mem)
    BY <1>3, <2>1, <2>2, <2>3, <2>4 DEF IsStep, Slots, Claimed
  <2> QED
    BY <1>4, <2>5, <2>6 DEF MakeRoom, init, first, grown, second
<1>5. CASE Claimed(first.mem) # Slots(first.mem)
  BY <1>3, <1>5 DEF MakeRoom, init, first
<1> QED
  BY <1>4, <1>5

(* Claiming a slot that is not in use disturbs no other array, and makes   *)
(* its index the only one that is claimed anew (marr.c:117-118).           *)
LEMMA ClaimFree ==
    ASSUME NEW mem, IsArrMem(mem), NEW i \in Slots(mem) \ Claimed(mem),
           NEW a \in Seq(Word), NEW words
    PROVE  /\ IsArrMem(Claim(mem, i, a))
           /\ Keeps(mem, Claim(mem, i, a), words)
           /\ Claimed(Claim(mem, i, a)) \subseteq Claimed(mem) \cup {i}
<1>1. \A j \in Slots(mem) : j # i => Claim(mem, i, a).values[j] = mem.values[j]
  <2>1. Claim(mem, i, a).values = [mem.values EXCEPT ![i] = a]
    BY ClaimType
  <2>2. DOMAIN mem.values = Slots(mem)
    BY DEF IsArrMem, Slots
  <2> QED
    BY <2>1, <2>2
<1>2. Claimed(Claim(mem, i, a)) \subseteq Claimed(mem) \cup {i}
  BY <1>1, ClaimType DEF Claimed, Slots
<1>3. \A j \in Claimed(mem) : j \in Claimed(Claim(mem, i, a))
                              /\ Claim(mem, i, a).values[j] = mem.values[j]
  BY <1>1, ClaimType DEF Claimed, Slots
<1> QED
  BY <1>2, <1>3, ClaimType, HeldIsMarked DEF Keeps

(* arr_create (array.c:73-99): when it comes back, the table has kept its  *)
(* shape and what the words hold, and the reference it returns encodes the *)
(* one index that is claimed anew.                                         *)
LEMMA CreateResult ==
    ASSUME NEW mem, IsArrMem(mem), NEW n \in 0 .. GC_PERIOD, NEW words,
           NEW count \in Int, NEW Refusals,
           Claimed(mem) \subseteq 0 .. ARRAYS_MAX_NUM - 1,
           NEW r \in arr_create(mem, n, words, count, Refusals), r.ok
    PROVE  /\ IsArrMem(r.mem)
           /\ r.creations \in 0 .. GC_PERIOD
           /\ r.ref \in Word
           /\ Keeps(mem, r.mem, words)
           /\ \E i \in 0 .. ARRAYS_MAX_NUM - 1 :
                 /\ r.ref = index_to_ref(i)
                 /\ Claimed(r.mem) \subseteq Claimed(mem) \cup {i}
<1> DEFINE zeros == [k \in 1 .. count |-> 0]
<1>1. PICK a \in Refusals, b \in Refusals :
         r = Created(mem, n, words, count, a, b)
  BY DEF arr_create
<1> DEFINE made == MakeRoom(Allocate(Result(mem, n), a, words), b, words)
           i == FreeIndex(made.mem)
<1>2. /\ count > 0 /\ made.ok /\ Encodes(i)
      /\ r.mem = Claim(made.mem, i, zeros)
      /\ r.creations = made.creations
      /\ r.ref = index_to_ref(i)
  BY <1>1 DEF Created
<1>3. /\ IsStep(Result(mem, n), made, words)
      /\ Claimed(made.mem) # Slots(made.mem)
  <2> DEFINE start == Result(mem, n)
             alloc == Allocate(start, a, words)
  <2>1. IsResult(start)
    BY DEF IsResult, Result
  <2> HIDE DEF start
  <2>2. IsStep(start, alloc, words)
    BY <2>1, AllocateStep
  <2>3. IsResult(alloc)
    BY <2>2 DEF IsStep
  <2> HIDE DEF alloc
  <2>4. /\ IsStep(alloc, MakeRoom(alloc, b, words), words)
        /\ MakeRoom(alloc, b, words).ok =>
              Claimed(MakeRoom(alloc, b, words).mem) # Slots(MakeRoom(alloc, b, words).mem)
    BY <2>3, MakeRoomStep
  <2>5. IsStep(start, MakeRoom(alloc, b, words), words)
    BY <2>1, <2>2, <2>4, StepsCompose
  <2> QED
    BY <1>2, <2>4, <2>5 DEF start, alloc
<1> HIDE DEF made
<1>4. /\ IsArrMem(made.mem)
      /\ made.creations \in 0 .. GC_PERIOD
      /\ Keeps(mem, made.mem, words)
      /\ Claimed(made.mem) \subseteq Claimed(mem)
  BY <1>2, <1>3 DEF IsStep, IsResult, Result
<1>5. i \in Slots(made.mem) \ Claimed(made.mem) /\ i \in 0 .. ARRAYS_MAX_NUM - 1
  <2>1. IsFreeIndex(made.mem, i)
    BY <1>3, <1>4, FreeIndexExists
  <2> QED
    BY <1>2, <1>4, <2>1, FreeIndexEncodes DEF IsFreeIndex
<1> HIDE DEF i
<1>6. zeros \in Seq(Word)
  <2>1. 0 \in Word
    BY WordMaxAssumption DEF Word, WordMin
  <2> QED
    BY <1>2, <2>1, IsASeq
<1> HIDE DEF zeros
<1>7. /\ IsArrMem(r.mem)
      /\ Keeps(made.mem, r.mem, words)
      /\ Claimed(r.mem) \subseteq Claimed(made.mem) \cup {i}
  BY <1>2, <1>4, <1>5, <1>6, ClaimFree
<1>8. Keeps(mem, r.mem, words)
  BY <1>4, <1>7, KeepsTransitive
<1>9. r.ref \in Word
  BY <1>2, <1>5, RefIsWord
<1> QED
  BY <1>2, <1>4, <1>5, <1>7, <1>8, <1>9

(* arr_get and arr_set behind arr_check_bounds (array.c:105-155).          *)
LEMMA GetType ==
    ASSUME NEW mem, IsArrMem(mem), NEW ref, NEW i, InBounds(mem, ref, i)
    PROVE  arr_get(mem, ref, i) \in Word
<1>1. mem.values[ref_to_index(ref)] \in Seq(Word)
  BY DEF InBounds, Claimed, Slots, IsArrMem
<1>2. i + 1 \in 1 .. Len(mem.values[ref_to_index(ref)])
  BY <1>1, LenProperties DEF InBounds
<1> QED
  BY <1>1, <1>2, ElementOfSeq DEF arr_get

LEMMA SetType ==
    ASSUME NEW mem, IsArrMem(mem), NEW ref, NEW i, NEW val \in Word,
           InBounds(mem, ref, i)
    PROVE  LET new == arr_set(mem, ref, i, val)
               a   == ref_to_index(ref)
           IN  /\ IsArrMem(new)
               /\ Claimed(new) = Claimed(mem)
               /\ Len(new.values[a]) = Len(mem.values[a])
               /\ \A j \in Claimed(mem) : j # a => new.values[j] = mem.values[j]
<1> DEFINE a == ref_to_index(ref)
           array == [mem.values[a] EXCEPT ![i + 1] = val]
           new == arr_set(mem, ref, i, val)
<1>1. mem.values[a] \in Seq(Word) /\ a \in Slots(mem) /\ mem.values[a] # <<>>
  BY DEF InBounds, Claimed, Slots, IsArrMem
<1>2. i + 1 \in 1 .. Len(mem.values[a])
  BY <1>1, LenProperties DEF InBounds
<1>3. array \in Seq(Word) /\ Len(array) = Len(mem.values[a])
  BY <1>1, <1>2, ExceptSeq
<1>4. array # <<>>
  BY <1>2, <1>3, EmptySeq
<1>5. new = Claim(mem, a, array)
  BY DEF arr_set
<1> HIDE DEF a, array, new
<1>6. /\ IsArrMem(new)
      /\ new.size = mem.size
      /\ new.values = [mem.values EXCEPT ![a] = array]
  BY <1>1, <1>3, <1>5, ClaimType
<1>7. /\ new.values[a] = array
      /\ \A j \in Slots(mem) : j # a => new.values[j] = mem.values[j]
  BY <1>1, <1>6 DEF IsArrMem, Slots
<1>8. Claimed(new) = Claimed(mem)
  BY <1>1, <1>4, <1>6, <1>7 DEF Claimed, Slots
<1> QED
  BY <1>3, <1>6, <1>7, <1>8 DEF a, new, Claimed

-----------------------------------------------------------------------------
(* How far the single pass of mark_arrays gets                             *)

(* Everything marked is reachable (array.c:197-248).                       *)
LEMMA MarkedIsReachable ==
    ASSUME NEW mem, NEW words
    PROVE  Marked(mem, words) \subseteq Reachable(mem, words)
<1>1. SUFFICES ASSUME NEW i \in Marked(mem, words),
                      NEW S \in SUBSET Claimed(mem), Closed(mem, words, S)
               PROVE  i \in S
  BY MarkedTypes DEF Reachable
<1>2. UpwardClosed(mem, words, S)
  BY <1>1 DEF Closed, UpwardClosed
<1>3. Scanned(mem, words) \subseteq S
  BY <1>2 DEF Scanned
<1> QED
  BY <1>1, <1>3 DEF Marked, Closed

LEMMA ReachableByFewer ==
    ASSUME NEW mem, NEW words, NEW fewer, fewer \subseteq words
    PROVE  Reachable(mem, fewer) \subseteq Reachable(mem, words)
<1>1. ASSUME NEW S, Closed(mem, words, S)
      PROVE  Closed(mem, fewer, S)
  BY <1>1 DEF Closed, Roots, RefsIn
<1> QED
  BY <1>1 DEF Reachable

(* If no link leads to a lower index, everything reachable is marked.      *)
LEMMA AscendingIsExact ==
    ASSUME NEW mem, NEW words, IsArrMem(mem),
           \A i \in Claimed(mem) : \A j \in Links(mem, i) : i <= j
    PROVE  Reachable(mem, words) = Marked(mem, words)
<1> DEFINE scanned == Scanned(mem, words)
           marked == Marked(mem, words)
<1>1. Claimed(mem) \subseteq Int
  BY DEF Claimed, Slots, IsArrMem
<1>2. \A i \in scanned : Links(mem, i) \cap Claimed(mem) \subseteq scanned
  <2>1. SUFFICES ASSUME NEW i \in scanned,
                        NEW j \in Links(mem, i) \cap Claimed(mem)
                 PROVE  j \in scanned
    OBVIOUS
  <2>2. i \in Claimed(mem) /\ i <= j /\ i \in Int /\ j \in Int
    BY <1>1, MarkedTypes
  <2>3. CASE i = j
    BY <2>3
  <2>4. CASE j > i
    BY <2>4 DEF Scanned, UpwardClosed
  <2> QED
    BY <2>2, <2>3, <2>4
<1>3. marked \subseteq scanned
  BY <1>2, MarkedTypes DEF Marked
<1>4. \A i \in marked : Links(mem, i) \cap Claimed(mem) \subseteq marked
  BY <1>3 DEF Marked
<1>5. Closed(mem, words, marked)
  BY <1>4, MarkedTypes DEF Closed
<1>6. Reachable(mem, words) \subseteq marked
  BY <1>5, MarkedTypes DEF Reachable
<1> QED
  BY <1>6, MarkedIsReachable
-----------------------------------------------------------------------------
(* How the loops of mark_arrays come to the marks                          *)

(* The references of several sets of words are those of each of them. *)
LEMMA RefsInUnion ==
    ASSUME NEW A, NEW B
    PROVE  RefsIn(A \cup B) = RefsIn(A) \cup RefsIn(B)
BY DEF RefsIn

(* The arrays the second loop looks into are closed upwards themselves. *)
LEMMA ScannedIsUpwardClosed ==
    ASSUME NEW mem, NEW words
    PROVE  UpwardClosed(mem, words, Scanned(mem, words))
BY MarkedTypes DEF Scanned, UpwardClosed

(* It looks into an array exactly when the words, or a link of an array    *)
(* below it that is looked into, lead there: so the mark says so when the  *)
(* loop comes to the index, and later marks cannot change it.              *)
LEMMA ScannedFromBelow ==
    ASSUME NEW mem, IsArrMem(mem), NEW words, NEW at \in Claimed(mem)
    PROVE  at \in Scanned(mem, words) <=>
              \/ at \in Roots(mem, words)
              \/ \E i \in Scanned(mem, words) : i < at /\ at \in Links(mem, i)
<1> DEFINE scanned == Scanned(mem, words)
           reached == \/ at \in Roots(mem, words)
                      \/ \E i \in scanned : i < at /\ at \in Links(mem, i)
<1>1. Claimed(mem) \subseteq Int /\ scanned \subseteq Claimed(mem)
  BY MarkedTypes DEF Claimed, Slots, IsArrMem
<1>2. ASSUME reached PROVE at \in scanned
  BY <1>1, <1>2, MarkedTypes, ScannedIsUpwardClosed DEF UpwardClosed
<1>3. ASSUME ~reached PROVE at \notin scanned
  <2>1. UpwardClosed(mem, words, scanned \ {at})
    BY <1>1, <1>3, ScannedIsUpwardClosed DEF UpwardClosed
  <2> QED
    BY <1>1, <2>1 DEF Scanned
<1> QED
  BY <1>2, <1>3
=============================================================================
