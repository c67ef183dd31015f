-------------------------- MODULE InterpreterProofs --------------------------
(***************************************************************************)
(* The machine keeps its types, its registers and its references for every *)
(* program, every input and every choice of the constants.                 *)
(*                                                                         *)
(* The instructions are proved on "machines", the records they compute     *)
(* with: a Good machine has the right shapes, references that can be       *)
(* encoded and registers inside the stack, and each operator an            *)
(* instruction is made of (a pop, a push with its growths and collections, *)
(* a jump, a creation of an array or of a connection) leads from a Good    *)
(* machine to a Good one.  The inductive invariant IInv adds nothing to    *)
(* the three invariants but that the program is one that was loaded.  The  *)
(* registers stay inside the stack only because the number of local        *)
(* variables fits into 16 bits and the initial stack is larger, which      *)
(* takes the scan of main that computes it: MainScanIsScan.                *)
(*                                                                         *)
(* The last part is about the collector inside the machine.                *)
(***************************************************************************)
EXTENDS Interpreter, ArrayOpsProofs

-----------------------------------------------------------------------------
(* Words and bytes                                                         *)

LEMMA BytesAreWords == Byte \subseteq Word
BY WordMaxAssumption DEF Byte, Word, WordMin

LEMMA Signed8Word ==
    ASSUME NEW b \in Byte
    PROVE  Signed8(b) \in -128 .. 127 /\ Signed8(b) \in Word
BY WordMaxAssumption DEF Byte, Signed8, Word, WordMin

LEMMA ShortRange ==
    ASSUME NEW b1 \in Byte, NEW b2 \in Byte
    PROVE  /\ Short(b1, b2) \in Int
           /\ -32768 <= Short(b1, b2) /\ Short(b1, b2) <= 32767
BY DEF Byte, Short, Signed16

LEMMA Unsigned16Range ==
    ASSUME NEW s \in Int, -32768 <= s, s <= 32767
    PROVE  Unsigned16(s) \in Nat /\ Unsigned16(s) <= 65535
BY DEF Unsigned16

LEMMA ToWordWord ==
    ASSUME NEW w \in Word, NEW d \in -128 .. 127
    PROVE  ToWord(w + d) \in Word
BY WordMaxAssumption DEF ToWord, Word, WordMin

-----------------------------------------------------------------------------
(* Machines                                                                *)

IsCpu(c) ==
    /\ c \in [pc : Int, sp : Int, lv : Int, nv : Int, fp : Int,
              stack_size : 0 .. WordMax, stack : {c.stack},
              error_flag : BOOLEAN, halt_flag : BOOLEAN]
    /\ c.stack \in [0 .. c.stack_size - 1 -> Word]

(* The registers of a machine that may push next. *)
InStack(c) ==
    /\ c.pc >= 0
    /\ c.sp >= -1
    /\ c.lv \in 0 .. c.stack_size - 1
    /\ c.fp \in 0 .. c.stack_size - 1
    /\ c.nv \in 0 .. WordMax

IsMachine(m) ==
    /\ m \in [ok : BOOLEAN, cpu : {m.cpu}, mem : {m.mem},
              creations : 0 .. GC_PERIOD, net : {m.net}]
    /\ IsCpu(m.cpu)
    /\ IsArrMem(m.mem)
    /\ IsNetConn(m.net)

(* The indexes of a machine at work are below the first one that no        *)
(* reference encodes.                                                      *)
Encodable(m) ==
    /\ \A i \in Claimed(m.mem) : i < ARRAYS_MAX_NUM
    /\ status = "running" => \A i \in Open(m.net) : i < NET_REFS

Good(m) == IsMachine(m) /\ Encodable(m) /\ InStack(m.cpu)

(* The words up to an index of the stack. *)
WordsUpTo(c, top) == {c.stack[k] : k \in {j \in 0 .. c.stack_size - 1 : j <= top}}

(* The same of the state; the one connection too many is at the first      *)
(* index that no reference encodes.                                        *)
LowIndexes ==
    /\ \A i \in Claimed(arr_mem) : i < ARRAYS_MAX_NUM
    /\ status # "recursing" => \A i \in Open(net_conn) : i < NET_REFS
    /\ status = "recursing" => Open(net_conn) = {NET_REFS}

IInv ==
    /\ TypeOK
    /\ RegistersInStack
    /\ LowIndexes
    /\ program \in Programs

(* The part of a machine that ArrayOps knows of. *)
ArraysOf(m) == [ok |-> m.ok, mem |-> m.mem, creations |-> m.creations]

LEMMA ArraysOfIsResult ==
    ASSUME NEW m, IsMachine(m)
    PROVE  IsResult(ArraysOf(m))
BY DEF IsMachine, IsResult, ArraysOf

(* From a machine to one that only differs in its arrays. *)
Collected(m, a, words) ==
    /\ IsMachine(a)
    /\ a.cpu = m.cpu
    /\ a.net = m.net
    /\ a.ok => /\ m.ok
               /\ Keeps(m.mem, a.mem, words)
               /\ Claimed(a.mem) \subseteq Claimed(m.mem)

(* a is m with the arrays of r. *)
WithArrays(m, r, a) ==
    /\ a \in [ok : BOOLEAN, cpu : {m.cpu}, mem : {r.mem},
              creations : {r.creations}, net : {m.net}]
    /\ a.ok = r.ok

LEMMA CollectedIfArrays ==
    ASSUME NEW m, IsMachine(m), NEW a, NEW r, NEW words,
           IsStep(ArraysOf(m), r, words), WithArrays(m, r, a)
    PROVE  Collected(m, a, words)
BY DEF IsMachine, IsResult, IsStep, ArraysOf, Collected, WithArrays

LEMMA GcOfMachine ==
    ASSUME NEW m, IsMachine(m), NEW words
    PROVE  /\ WithArrays(m, arr_gc(ArraysOf(m), words), arr_gc(m, words))
           /\ Collected(m, arr_gc(m, words), words)
<1> DEFINE r == arr_gc(ArraysOf(m), words)
           a == arr_gc(m, words)
           ok == m.ok /\ ~MarkAborts(m.mem, words)
           mem == Swept(m.mem, Marked(m.mem, words))
<1>1. WithArrays(m, r, a)
  <2>1. CASE ok
    <3>1. a = [m EXCEPT !.mem = mem] /\ r = [ArraysOf(m) EXCEPT !.mem = mem]
      BY <2>1 DEF arr_gc, ArraysOf
    <3> HIDE DEF a, r, mem
    <3> QED
      BY <3>1 DEF IsMachine, ArraysOf, WithArrays
  <2>2. CASE ~ok
    <3>1. a = [m EXCEPT !.ok = FALSE] /\ r = [ArraysOf(m) EXCEPT !.ok = FALSE]
      BY <2>2 DEF arr_gc, ArraysOf
    <3> HIDE DEF a, r
    <3> QED
      BY <3>1 DEF IsMachine, ArraysOf, WithArrays
  <2> QED
    BY <2>1, <2>2
<1>2. IsStep(ArraysOf(m), r, words)
  BY ArraysOfIsResult, CollectIsStep
<1> QED
  BY <1>1, <1>2, CollectedIfArrays

LEMMA CountCreationOfMachine ==
    ASSUME NEW m, IsMachine(m), NEW words
    PROVE  Collected(m, CountCreation(m, words), words)
<1> DEFINE reset == [m EXCEPT !.creations = 0]
           more == [m EXCEPT !.creations = @ + 1]
<1>1. CASE m.creations >= GC_PERIOD
  <2>1. IsMachine(reset) /\ reset.cpu = m.cpu /\ reset.net = m.net
        /\ reset.mem = m.mem /\ reset.ok = m.ok
    BY ArrayAssumption DEF IsMachine
  <2>2. CountCreation(m, words) = arr_gc(reset, words)
    BY <1>1 DEF CountCreation
  <2> HIDE DEF reset
  <2>3. Collected(reset, arr_gc(reset, words), words)
    BY <2>1, GcOfMachine
  <2> QED
    BY <2>1, <2>2, <2>3 DEF Collected
<1>2. CASE ~(m.creations >= GC_PERIOD)
  <2>1. IsMachine(more) /\ more.cpu = m.cpu /\ more.net = m.net
        /\ more.mem = m.mem /\ more.ok = m.ok
    BY <1>2, ArrayAssumption DEF IsMachine
  <2>2. CountCreation(m, words) = more
    BY <1>2 DEF CountCreation
  <2> HIDE DEF more
  <2> QED
    BY <2>1, <2>2, KeepsItself DEF Collected
<1> QED
  BY <1>1, <1>2

LEMMA AllocateOfMachine ==
    ASSUME NEW m, IsMachine(m), NEW refusals, NEW words
    PROVE  Collected(m, Allocate(m, refusals, words), words)
<1> DEFINE g == arr_gc(m, words)
           ok == g.ok /\ Claimed(g.mem) # Claimed(m.mem) /\ refusals = 1
           new == [g EXCEPT !.ok = ok]
<1>1. CASE refusals = 0
  BY <1>1, KeepsItself DEF Allocate, Collected, IsMachine
<1>2. CASE refusals # 0
  <2>1. Collected(m, g, words)
    BY GcOfMachine
  <2>2. Allocate(m, refusals, words) = new
    BY <1>2 DEF Allocate
  <2>3. ok \in BOOLEAN
    OBVIOUS
  <2>4. ok => g.ok
    OBVIOUS
  <2> HIDE DEF g, ok
  <2>5. IsMachine(new) /\ new.cpu = g.cpu /\ new.net = g.net
        /\ new.mem = g.mem /\ new.ok = ok
    BY <2>1, <2>3 DEF Collected, IsMachine
  <2> HIDE DEF new
  <2> QED
    BY <2>1, <2>2, <2>4, <2>5 DEF Collected
<1> QED
  BY <1>1, <1>2

-----------------------------------------------------------------------------
(* The stack                                                               *)

(* The registers that no growth of the stack touches. *)
SameRegisters(c1, c2) ==
    /\ c2.pc = c1.pc /\ c2.lv = c1.lv /\ c2.nv = c1.nv /\ c2.fp = c1.fp
    /\ c2.error_flag = c1.error_flag /\ c2.halt_flag = c1.halt_flag

(* From a machine to one whose stack has room for the word at sp.          *)
Grown(m, r, words) ==
    /\ IsMachine(r)
    /\ r.net = m.net
    /\ SameRegisters(m.cpu, r.cpu) /\ r.cpu.sp = m.cpu.sp
    /\ r.ok => /\ m.ok
               /\ m.cpu.sp < r.cpu.stack_size
               /\ m.cpu.stack_size <= r.cpu.stack_size
               /\ \A k \in 0 .. m.cpu.stack_size - 1 : r.cpu.stack[k] = m.cpu.stack[k]
               /\ Keeps(m.mem, r.mem, words)
               /\ Claimed(r.mem) \subseteq Claimed(m.mem)

(* octuple_stack_size, repeated (cpu.c:49-80). *)
LEMMA OctupleOfMachine ==
    ASSUME NEW m, IsMachine(m), m.cpu.sp >= m.cpu.stack_size,
           NEW refusals, NEW junk \in Junk
    PROVE  Grown(m, octuple_stack_size(m, refusals, junk), GcWords(m.cpu, junk))
<1> DEFINE words == GcWords(m.cpu, junk)
           a == Allocate(m, refusals, words)
           sizes == {n \in Octuples(m.cpu.stack_size, m.cpu.sp) : n <= STACK_MAX_SIZE}
           r == octuple_stack_size(m, refusals, junk)
<1>0. m.cpu.stack_size \in Nat /\ m.cpu.sp \in Int
  BY WordMaxAssumption DEF IsMachine, IsCpu
<1>1. CASE sizes = {}
  <2>1. r = [m EXCEPT !.ok = FALSE]
    BY <1>1 DEF octuple_stack_size
  <2> HIDE DEF r
  <2>2. IsMachine(r) /\ r.cpu = m.cpu /\ r.net = m.net /\ ~r.ok
    BY <2>1 DEF IsMachine
  <2> QED
    BY <2>2 DEF Grown, SameRegisters, r
<1>2. CASE sizes # {}
  <2> DEFINE n == CHOOSE n \in sizes : TRUE
             stack == [k \in 0 .. n - 1 |-> StackAt(m.cpu, k, junk)]
  <2>1. r = [a EXCEPT !.cpu.stack_size = n, !.cpu.stack = stack]
    BY <1>2 DEF octuple_stack_size
  <2>2. n \in sizes
    BY <1>2
  <2>3. n \in Octuples(m.cpu.stack_size, m.cpu.sp) /\ n <= STACK_MAX_SIZE
    BY <2>2
  <2> HIDE DEF n
  <2>4. n \in Nat /\ n > m.cpu.sp
    BY <1>0, <2>3 DEF Octuples
  <2>5. n \in 0 .. WordMax /\ m.cpu.stack_size <= n
    BY <1>0, <2>3, <2>4, MachineAssumption, WordMaxAssumption
  <2>6. stack \in [0 .. n - 1 -> Word]
    <3>1. m.cpu.stack \in [0 .. m.cpu.stack_size - 1 -> Word] /\ junk \in Word
      BY MachineAssumption DEF IsMachine, IsCpu
    <3> QED
      BY <3>1 DEF StackAt
  <2>7. Collected(m, a, words)
    BY AllocateOfMachine
  <2>8. \A k \in 0 .. m.cpu.stack_size - 1 : stack[k] = m.cpu.stack[k]
    BY <1>0, <2>5 DEF StackAt
  <2> HIDE DEF a, stack, r, words
  <2>9. /\ IsMachine(r)
        /\ r.net = a.net /\ r.ok = a.ok /\ r.mem = a.mem
        /\ SameRegisters(m.cpu, r.cpu) /\ r.cpu.sp = m.cpu.sp
        /\ r.cpu.stack_size = n /\ r.cpu.stack = stack
    BY <2>1, <2>5, <2>6, <2>7 DEF Collected, IsMachine, IsCpu, SameRegisters
  <2>10. Grown(m, r, words)
    BY <2>4, <2>5, <2>7, <2>8, <2>9 DEF Collected, Grown
  <2> QED
    BY <2>10 DEF r, words
<1> QED
  BY <1>1, <1>2

(* What stack_push leaves behind (cpu.c:16-29). *)
Pushed(m, r, w) ==
    /\ IsMachine(r)
    /\ r.net = m.net
    /\ SameRegisters(m.cpu, r.cpu) /\ r.cpu.sp = m.cpu.sp + 1
    /\ r.ok => /\ m.ok
               /\ r.cpu.sp < r.cpu.stack_size
               /\ m.cpu.stack_size <= r.cpu.stack_size
               /\ \A k \in 0 .. m.cpu.stack_size - 1 :
                     k <= m.cpu.sp => r.cpu.stack[k] = m.cpu.stack[k]
               /\ r.cpu.sp >= 0 => r.cpu.stack[r.cpu.sp] = w
               /\ Keeps(m.mem, r.mem, WordsUpTo(m.cpu, m.cpu.sp))
               /\ Claimed(r.mem) \subseteq Claimed(m.mem)

LEMMA KeepsByFewer ==
    ASSUME NEW mem1, NEW mem2, NEW words, NEW fewer, fewer \subseteq words,
           Keeps(mem1, mem2, words)
    PROVE  Keeps(mem1, mem2, fewer)
BY HeldByFewer DEF Keeps

LEMMA StackPush ==
    ASSUME NEW m, IsMachine(m), NEW w \in Word, NEW r \in stack_push(m, w)
    PROVE  Pushed(m, r, w)
<1> DEFINE up == [m EXCEPT !.cpu.sp = @ + 1]
<1>0. m.cpu.stack_size \in Nat /\ m.cpu.sp \in Int
  BY WordMaxAssumption DEF IsMachine, IsCpu
<1>1. /\ IsMachine(up) /\ up.ok = m.ok /\ up.mem = m.mem /\ up.net = m.net
      /\ SameRegisters(m.cpu, up.cpu) /\ up.cpu.sp = m.cpu.sp + 1
      /\ up.cpu.stack_size = m.cpu.stack_size /\ up.cpu.stack = m.cpu.stack
  BY DEF IsMachine, IsCpu, SameRegisters
<1>2. PICK g \in WithRoom(up) : r = WithTop(g, w)
  BY DEF stack_push
<1> HIDE DEF up
<1> DEFINE deep == WordsUpTo(m.cpu, m.cpu.sp)
<1>3. Grown(up, g, deep)
  <2>1. CASE up.cpu.sp < up.cpu.stack_size \/ ~up.ok
    <3>1. g = up
      BY <1>2, <2>1 DEF WithRoom
    <3> QED
      BY <1>0, <1>1, <2>1, <3>1, KeepsItself DEF Grown, SameRegisters
  <2>2. CASE ~(up.cpu.sp < up.cpu.stack_size \/ ~up.ok)
    <3>1. PICK refusals \in Refusals, junk \in Junk :
             g = octuple_stack_size(up, refusals, junk)
      BY <1>2, <2>2 DEF WithRoom
    <3>2. Grown(up, g, GcWords(up.cpu, junk))
      BY <1>0, <1>1, <2>2, <3>1, OctupleOfMachine
    <3>3. deep \subseteq GcWords(up.cpu, junk)
      BY <1>0, <1>1, <2>2 DEF GcWords, WordsUpTo, StackAt
    <3> QED
      BY <3>2, <3>3, KeepsByFewer DEF Grown
  <2> QED
    BY <2>1, <2>2
<1>4. CASE ~g.ok
  <2>1. r = g
    BY <1>2, <1>4 DEF WithTop
  <2> QED
    BY <1>1, <1>3, <1>4, <2>1 DEF Grown, Pushed, SameRegisters
<1>5. CASE g.ok
  <2>1. r = [g EXCEPT !.cpu.stack[g.cpu.sp] = w]
    BY <1>2, <1>5 DEF WithTop
  <2>2. /\ IsMachine(r) /\ r.ok = g.ok /\ r.mem = g.mem /\ r.net = g.net
        /\ SameRegisters(g.cpu, r.cpu) /\ r.cpu.sp = g.cpu.sp
        /\ r.cpu.stack_size = g.cpu.stack_size
        /\ r.cpu.stack = [g.cpu.stack EXCEPT ![g.cpu.sp] = w]
    BY <1>3, <2>1 DEF Grown, IsMachine, IsCpu, SameRegisters
  <2>3. /\ g.cpu.sp = m.cpu.sp + 1
        /\ g.cpu.stack \in [0 .. g.cpu.stack_size - 1 -> Word]
        /\ g.cpu.stack_size \in Nat /\ g.cpu.sp < g.cpu.stack_size
    <3>1. IsMachine(g) /\ g.cpu.sp = up.cpu.sp /\ up.cpu.sp < g.cpu.stack_size
      BY <1>3, <1>5 DEF Grown
    <3>2. /\ g.cpu.stack \in [0 .. g.cpu.stack_size - 1 -> Word]
          /\ g.cpu.stack_size \in 0 .. WordMax
      BY <3>1 DEF IsMachine, IsCpu
    <3> QED
      BY <1>1, <3>1, <3>2, WordMaxAssumption
  <2>4. \A k \in 0 .. m.cpu.stack_size - 1 :
           k <= m.cpu.sp => r.cpu.stack[k] = m.cpu.stack[k]
    <3>1. /\ up.cpu.stack_size <= g.cpu.stack_size
          /\ \A k \in 0 .. up.cpu.stack_size - 1 : g.cpu.stack[k] = up.cpu.stack[k]
      BY <1>3, <1>5 DEF Grown
    <3> QED
      BY <1>0, <1>1, <2>2, <2>3, <3>1
  <2>5. r.cpu.sp >= 0 => r.cpu.stack[r.cpu.sp] = w
    BY <1>0, <2>2, <2>3
  <2> QED
    BY <1>1, <1>3, <1>5, <2>2, <2>3, <2>4, <2>5 DEF Grown, Pushed, SameRegisters
<1> QED
  BY <1>4, <1>5
-----------------------------------------------------------------------------
(* From one state to the next                                              *)

LEMMA RefusedArrays ==
    /\ IsArrMem(NoArrays) /\ Claimed(NoArrays) = {}
    /\ IsNetConn(NoConns) /\ Open(NoConns) = {}
<1>1. Claimed(NoArrays) = {} /\ Open(NoConns) = {} /\ NetSlots(NoConns) = {}
  BY DEF Claimed, Slots, NoArrays, Open, NetSlots, NoConns
<1>2. IsNetConn(NoConns)
  BY <1>1 DEF IsNetConn, NoConns
<1> QED
  BY <1>1, <1>2, NoArraysType

(* The state as a machine. *)
LEMMA MachineIsGood ==
    ASSUME IInv
    PROVE  /\ Good(Machine) /\ Machine.ok
           /\ Machine.cpu = cpu /\ Machine.mem = arr_mem
           /\ Machine.net = net_conn
           /\ cpu.sp < cpu.stack_size
<1>1. /\ Machine.ok /\ Machine.cpu = cpu /\ Machine.mem = arr_mem
      /\ Machine.net = net_conn /\ Machine.creations = element_creations
      /\ Machine \in [ok : BOOLEAN, cpu : {cpu}, mem : {arr_mem},
                       creations : {element_creations}, net : {net_conn}]
  BY DEF Machine
<1> HIDE DEF Machine
<1>2. IsCpu(cpu)
  BY DEF IInv, TypeOK, IsCpu
<1>3. InStack(cpu) /\ cpu.sp < cpu.stack_size
  BY WordMaxAssumption DEF IInv, TypeOK, RegistersInStack, InStack
<1>4. IsMachine(Machine)
  BY <1>1, <1>2 DEF IInv, TypeOK, IsMachine
<1>5. Encodable(Machine)
  BY <1>1 DEF IInv, LowIndexes, Encodable
<1> QED
  BY <1>1, <1>3, <1>4, <1>5 DEF Good

(* The stack of the state, and what its registers may be. *)
LEMMA StackFacts ==
    ASSUME IInv
    PROVE  /\ cpu.stack_size \in Nat /\ cpu.stack_size <= WordMax
           /\ cpu.stack \in [0 .. cpu.stack_size - 1 -> Word]
           /\ cpu.pc \in Nat
           /\ cpu.sp \in Int /\ cpu.sp >= -1 /\ cpu.sp < cpu.stack_size
           /\ cpu.lv \in Nat /\ cpu.lv < cpu.stack_size
           /\ cpu.fp \in Nat /\ cpu.fp < cpu.stack_size
           /\ cpu.nv \in Nat /\ cpu.nv <= WordMax
<1>1. /\ cpu.stack_size \in 0 .. WordMax /\ cpu.nv \in 0 .. WordMax
      /\ cpu.stack \in [0 .. cpu.stack_size - 1 -> Word]
      /\ cpu.pc \in Nat /\ cpu.lv \in Nat /\ cpu.fp \in Nat
  BY DEF IInv, TypeOK
<1>2. RegistersInStack
  BY DEF IInv
<1> QED
  BY <1>1, <1>2, WordMaxAssumption DEF RegistersInStack

LEMMA ArraysAreLow ==
    ASSUME IInv
    PROVE  Claimed(arr_mem) \subseteq 0 .. ARRAYS_MAX_NUM - 1
<1>1. \A i \in Claimed(arr_mem) : i \in Nat /\ i < ARRAYS_MAX_NUM
  BY DEF IInv, TypeOK, LowIndexes, Claimed, Slots, IsArrMem
<1> QED
  BY <1>1, ArrayAssumption

(* What memory holds before it is written is a word. *)
LEMMA JunkIsWord == Junk \subseteq Word
BY MachineAssumption

LEMMA DestroyIInv ==
    ASSUME IInv, UNCHANGED program, next_op_wide' \in BOOLEAN, DestroyNow
    PROVE  IInv'
<1>1. status' = "destroyed" /\ Claimed(arr_mem') = {} /\ Open(net_conn') = {}
  BY RefusedArrays DEF DestroyNow
<1>2. LowIndexes'
  BY <1>1 DEF LowIndexes
<1> QED
  BY <1>2, RefusedArrays DEF IInv, TypeOK, RegistersInStack, DestroyNow

LEMMA CorruptIInv ==
    ASSUME IInv, status = "running", UNCHANGED program, next_op_wide' \in BOOLEAN,
           Corrupt
    PROVE  IInv'
BY DEF IInv, TypeOK, RegistersInStack, LowIndexes, Corrupt

LEMMA BecomeIInv ==
    ASSUME IInv, NEW op, Fetch(op), NEW m,
           m.ok => Good(m) /\ m.cpu.sp < m.cpu.stack_size,
           Become(m)
    PROVE  IInv'
<1>0. UNCHANGED program /\ next_op_wide' \in BOOLEAN
  BY DEF Fetch
<1>1. CASE m.ok
  <2>1. /\ cpu' = m.cpu /\ arr_mem' = m.mem /\ element_creations' = m.creations
        /\ net_conn' = m.net /\ UNCHANGED status
    BY <1>1 DEF Become
  <2>2. IsCpu(cpu') /\ InStack(cpu') /\ cpu'.sp < cpu'.stack_size
    BY <1>1, <2>1 DEF Good, IsMachine
  <2>3. IsArrMem(arr_mem') /\ IsNetConn(net_conn')
        /\ element_creations' \in 0 .. GC_PERIOD
    BY <1>1, <2>1 DEF Good, IsMachine
  <2>4. LowIndexes'
    <3>1. status' = "running"
      BY <2>1 DEF Fetch
    <3>2. \A i \in Claimed(arr_mem') : i < ARRAYS_MAX_NUM
      BY <1>1, <2>1 DEF Good, Encodable
    <3>3. \A i \in Open(net_conn') : i < NET_REFS
      BY <1>1, <2>1 DEF Good, Encodable, Fetch
    <3> QED
      BY <3>1, <3>2, <3>3 DEF LowIndexes
  <2>5. /\ cpu' \in [pc : Nat, sp : Int, lv : Nat, nv : 0 .. WordMax, fp : Nat,
                stack_size : 0 .. WordMax, stack : {cpu'.stack},
                error_flag : BOOLEAN, halt_flag : BOOLEAN]
        /\ cpu'.stack \in [0 .. cpu'.stack_size - 1 -> Word]
    BY <2>2 DEF IsCpu, InStack
  <2>6. RegistersInStack'
    BY <2>2 DEF IsCpu, InStack, RegistersInStack
  <2>7. TypeOK'
    BY <1>0, <2>1, <2>3, <2>5 DEF IInv, TypeOK
  <2> QED
    BY <1>0, <2>4, <2>6, <2>7 DEF IInv
<1>2. CASE ~m.ok
  BY <1>0, <1>2, DestroyIInv DEF Become
<1> QED
  BY <1>1, <1>2

LEMMA PushingIInv ==
    ASSUME IInv, NEW op, Fetch(op), NEW m, Good(m), NEW w \in Word,
           Pushing(m, w)
    PROVE  IInv'
<1>1. PICK r \in stack_push(m, w) : Become(r)
  BY DEF Pushing
<1>2. Pushed(m, r, w)
  BY <1>1, StackPush DEF Good
<1>3. r.ok => Good(r) /\ r.cpu.sp < r.cpu.stack_size
  <2> SUFFICES ASSUME r.ok PROVE Good(r) /\ r.cpu.sp < r.cpu.stack_size
    OBVIOUS
  <2>1. Encodable(r)
    BY <1>2 DEF Pushed, Good, Encodable
  <2>2. IsCpu(m.cpu) /\ IsCpu(r.cpu)
    BY <1>2 DEF Pushed, Good, IsMachine
  <2>3. /\ m.cpu.stack_size \in Nat /\ r.cpu.stack_size \in Nat
        /\ m.cpu.sp \in Int /\ m.cpu.stack_size <= r.cpu.stack_size
        /\ r.cpu.sp = m.cpu.sp + 1
    BY <1>2, <2>2, WordMaxAssumption DEF Pushed, IsCpu
  <2>4. SameRegisters(m.cpu, r.cpu) /\ InStack(m.cpu)
    BY <1>2 DEF Pushed, Good
  <2>5. InStack(r.cpu)
    BY <2>3, <2>4 DEF SameRegisters, InStack
  <2> QED
    BY <1>2, <2>1, <2>5 DEF Pushed, Good
<1> QED
  BY <1>1, <1>3, BecomeIInv

(* The machine after the opcode, its argument and its operands. *)
LEMMA AdvancedIsGood ==
    ASSUME IInv, NEW n \in Nat, NEW k \in Nat, cpu.sp - k >= -1
    PROVE  LET m == Advanced(n, k)
           IN  /\ Good(m) /\ m.ok
               /\ m.cpu.sp = cpu.sp - k
               /\ m.cpu.sp < m.cpu.stack_size
               /\ m.cpu.stack_size = cpu.stack_size /\ m.cpu.stack = cpu.stack
               /\ m.mem = arr_mem /\ m.net = net_conn
<1> DEFINE m == Advanced(n, k)
<1>1. m = [Machine EXCEPT !.cpu.pc = @ + 1 + n, !.cpu.sp = @ - k]
  BY DEF Advanced
<1> HIDE DEF m
<1>2. IsMachine(Machine) /\ IsCpu(cpu) /\ InStack(cpu) /\ Encodable(Machine)
  BY MachineIsGood DEF Good, IsMachine
<1>3. /\ m.ok = Machine.ok /\ m.mem = arr_mem /\ m.net = net_conn
      /\ m.creations = Machine.creations
      /\ m.cpu = [cpu EXCEPT !.pc = @ + 1 + n, !.sp = @ - k]
      /\ m \in [ok : BOOLEAN, cpu : {m.cpu}, mem : {m.mem},
                 creations : 0 .. GC_PERIOD, net : {m.net}]
  BY <1>1, <1>2, MachineIsGood DEF IsMachine
<1>4. /\ IsCpu(m.cpu)
      /\ m.cpu.pc = cpu.pc + 1 + n /\ m.cpu.sp = cpu.sp - k
      /\ m.cpu.lv = cpu.lv /\ m.cpu.nv = cpu.nv /\ m.cpu.fp = cpu.fp
      /\ m.cpu.stack_size = cpu.stack_size /\ m.cpu.stack = cpu.stack
  <2> DEFINE pc == cpu.pc + 1 + n
             sp == cpu.sp - k
  <2>1. m.cpu = [cpu EXCEPT !.pc = pc, !.sp = sp]
    BY <1>2, <1>3 DEF IsCpu
  <2>2. pc \in Int /\ sp \in Int
    BY <1>2 DEF IsCpu
  <2> HIDE DEF pc, sp
  <2>3. /\ IsCpu(m.cpu)
        /\ m.cpu.pc = pc /\ m.cpu.sp = sp
        /\ m.cpu.lv = cpu.lv /\ m.cpu.nv = cpu.nv /\ m.cpu.fp = cpu.fp
        /\ m.cpu.stack_size = cpu.stack_size /\ m.cpu.stack = cpu.stack
    BY <1>2, <2>1, <2>2 DEF IsCpu
  <2> QED
    BY <2>3 DEF pc, sp
<1>5. InStack(m.cpu) /\ m.cpu.sp < m.cpu.stack_size
  BY <1>2, <1>4, StackFacts DEF InStack
<1>6. IsMachine(m) /\ Encodable(m)
  BY <1>2, <1>3, <1>4, MachineIsGood DEF IsMachine, Encodable
<1> QED
  BY <1>3, <1>4, <1>5, <1>6, MachineIsGood DEF m, Good
-----------------------------------------------------------------------------
(* Code, constants and operands                                            *)

LEMMA ProgramIsCode ==
    ASSUME IInv
    PROVE  /\ program.code \in Seq(Byte) /\ CodeSize \in Nat
           /\ CodeSize <= WordMax
           /\ program.consts \in Seq(Word) /\ Len(program.consts) \in Nat
           /\ cpu.pc \in Nat
           /\ \A i \in 0 .. CodeSize - 1 : CodeByte(i) \in Byte
<1>1. /\ program.code \in Seq(Byte) /\ program.consts \in Seq(Word)
      /\ CodeSize <= WordMax /\ cpu.pc \in Nat
  BY MachineAssumption DEF IInv, TypeOK, CodeSize
<1>2. Len(program.code) \in Nat /\ Len(program.consts) \in Nat
  BY <1>1, LenProperties
<1>3. \A i \in 0 .. CodeSize - 1 : CodeByte(i) \in Byte
  BY <1>1, <1>2, ElementOfSeq DEF CodeByte, CodeSize
<1> QED
  BY <1>1, <1>2, <1>3 DEF CodeSize

LEMMA ArgByte ==
    ASSUME IInv, NEW n \in Nat, HasArgs(n), NEW k \in 1 .. n
    PROVE  arg_byte(k) \in Byte
<1>1. cpu.pc + k \in 0 .. CodeSize - 1
  BY ProgramIsCode DEF HasArgs
<1> QED
  BY <1>1, ProgramIsCode DEF arg_byte

LEMMA ArgShort ==
    ASSUME IInv, NEW n \in Nat, HasArgs(n), NEW k \in 1 .. n - 1
    PROVE  /\ arg_short(k) \in Int
           /\ -32768 <= arg_short(k) /\ arg_short(k) <= 32767
           /\ Unsigned16(arg_short(k)) \in Nat
           /\ Unsigned16(arg_short(k)) <= 65535
<1>1. /\ cpu.pc + k \in 0 .. CodeSize - 1
      /\ cpu.pc + k + 1 \in 0 .. CodeSize - 1
  BY ProgramIsCode DEF HasArgs
<1>2. CodeByte(cpu.pc + k) \in Byte /\ CodeByte(cpu.pc + k + 1) \in Byte
  BY <1>1, ProgramIsCode
<1>3. arg_short(k) = Short(CodeByte(cpu.pc + k), CodeByte(cpu.pc + k + 1))
  BY DEF arg_short, CodeShort
<1>4. /\ arg_short(k) \in Int
      /\ -32768 <= arg_short(k) /\ arg_short(k) <= 32767
  BY <1>2, <1>3, ShortRange
<1> QED
  BY <1>4, Unsigned16Range

LEMMA ConstantIsWord ==
    ASSUME IInv, NEW i, IsConstant(i)
    PROVE  get_constant(i) \in Word
<1>1. i + 1 \in 1 .. Len(program.consts)
  BY ProgramIsCode DEF IsConstant
<1> QED
  BY <1>1, ProgramIsCode, ElementOfSeq DEF get_constant

(* stack_pop hits the stack, whatever the frame. *)
LEMMA OperandsInStack ==
    ASSUME IInv, NEW n \in Nat, CanPop(n)
    PROVE  /\ cpu.sp \in Int /\ cpu.sp - n >= -1
           /\ \A k \in 1 .. n : /\ cpu.sp - k + 1 \in 0 .. cpu.stack_size - 1
                                /\ Top(k) \in Word
<1>1. /\ cpu.sp \in -1 .. cpu.stack_size - 1 /\ cpu.sp - n >= -1
      /\ cpu.stack_size \in Nat
      /\ cpu.stack \in [0 .. cpu.stack_size - 1 -> Word]
  BY StackFacts DEF CanPop
<1>2. \A j \in 0 .. cpu.stack_size - 1 : cpu.stack[j] \in Word
  BY <1>1
<1>3. ASSUME NEW k \in 1 .. n
      PROVE  cpu.sp - k + 1 \in 0 .. cpu.stack_size - 1 /\ Top(k) \in Word
  <2>1. cpu.sp - k + 1 \in 0 .. cpu.stack_size - 1
    BY <1>1
  <2> QED
    BY <1>2, <2>1 DEF Top
<1> QED
  BY <1>1, <1>3

LEMMA StackAtIsWord ==
    ASSUME IInv, NEW k, NEW junk \in Junk
    PROVE  StackAt(cpu, k, junk) \in Word
BY StackFacts, JunkIsWord DEF StackAt

-----------------------------------------------------------------------------
(* Constants, stack and arithmetic                                         *)

LEMMA FetchStays ==
    ASSUME NEW op, Fetch(op)
    PROVE  UNCHANGED program /\ next_op_wide' \in BOOLEAN
BY DEF Fetch

(* An instruction that is refused. *)
LEMMA RefusedIInv ==
    ASSUME IInv, NEW op, Fetch(op), DestroyNow
    PROVE  IInv'
BY FetchStays, DestroyIInv

(* An instruction that only moves pc and sp. *)
LEMMA AdvancingIInv ==
    ASSUME IInv, NEW op, Fetch(op), NEW n \in Nat, NEW k \in Nat,
           cpu.sp - k >= -1, Become(Advanced(n, k))
    PROVE  IInv'
<1> DEFINE m == Advanced(n, k)
<1>1. Good(m) /\ m.cpu.sp < m.cpu.stack_size
  BY AdvancedIsGood
<1>2. Become(m)
  OBVIOUS
<1> HIDE DEF m
<1> QED
  BY <1>1, <1>2, BecomeIInv

(* An instruction that moves pc and sp, and pushes a word. *)
LEMMA AdvancingPushIInv ==
    ASSUME IInv, NEW op, Fetch(op), NEW n \in Nat, NEW k \in Nat,
           cpu.sp - k >= -1, NEW w \in Word, Pushing(Advanced(n, k), w)
    PROVE  IInv'
<1> DEFINE m == Advanced(n, k)
<1>1. Good(m)
  BY AdvancedIsGood
<1>2. Pushing(m, w)
  OBVIOUS
<1> HIDE DEF m
<1> QED
  BY <1>1, <1>2, PushingIInv

LEMMA NothingPopped ==
    ASSUME IInv
    PROVE  cpu.sp - 0 >= -1 /\ cpu.sp \in Int
BY DEF IInv, TypeOK, RegistersInStack

LEMMA NopIInv == ASSUME IInv, exec_op_nop PROVE IInv'
BY NothingPopped, AdvancingIInv DEF exec_op_nop

LEMMA BipushIInv == ASSUME IInv, exec_op_bipush PROVE IInv'
<1>1. CASE HasArgs(1)
  <2>1. Signed8(arg_byte(1)) \in Word
    BY <1>1, ArgByte, Signed8Word
  <2> QED
    BY <1>1, <2>1, NothingPopped, AdvancingPushIInv DEF exec_op_bipush
<1> QED
  BY <1>1, RefusedIInv DEF exec_op_bipush

LEMMA LdcIInv == ASSUME IInv, exec_op_ldc_w PROVE IInv'
<1> DEFINE i == Unsigned16(arg_short(1))
<1>1. CASE HasArgs(2) /\ IsConstant(i)
  <2>1. get_constant(i) \in Word
    BY <1>1, ConstantIsWord
  <2> QED
    BY <1>1, <2>1, NothingPopped, AdvancingPushIInv DEF exec_op_ldc_w
<1> QED
  BY <1>1, RefusedIInv DEF exec_op_ldc_w

LEMMA PopIInv == ASSUME IInv, exec_op_pop \/ exec_op_out PROVE IInv'
<1>1. PICK op : Fetch(op) /\ Ending(CanPop(1), Advanced(0, 1))
  BY DEF exec_op_pop, exec_op_out
<1>2. CASE CanPop(1)
  BY <1>1, <1>2, OperandsInStack, AdvancingIInv DEF Ending
<1> QED
  BY <1>1, <1>2, RefusedIInv DEF Ending

LEMMA DupIInv == ASSUME IInv, exec_op_dup PROVE IInv'
<1>1. PICK junk \in Junk : Pushing(Advanced(0, 0), StackAt(cpu, cpu.sp, junk))
  BY DEF exec_op_dup
<1> QED
  BY <1>1, StackAtIsWord, NothingPopped, AdvancingPushIInv DEF exec_op_dup

LEMMA BinaryIInv ==
    ASSUME IInv, NEW op, NEW word, Binary(op, word)
    PROVE  IInv'
<1>1. CASE CanPop(2)
  <2>1. PICK w \in Word : Pushing(Advanced(0, 2), w)
    BY <1>1 DEF Binary
  <2> QED
    BY <1>1, <2>1, OperandsInStack, AdvancingPushIInv DEF Binary
<1> QED
  BY <1>1, RefusedIInv DEF Binary

LEMMA InIInv == ASSUME IInv, exec_op_in PROVE IInv'
<1>1. PICK c \in Chars \cup {0} : Pushing(Advanced(0, 0), c)
  BY DEF exec_op_in
<1>2. c \in Word
  <2>1. Chars \subseteq Byte
    BY MachineAssumption
  <2>2. 0 \in Byte
    BY DEF Byte
  <2> QED
    BY <2>1, <2>2, BytesAreWords
<1> QED
  BY <1>1, <1>2, NothingPopped, AdvancingPushIInv DEF exec_op_in

LEMMA WideIInv == ASSUME IInv, exec_op_wide PROVE IInv'
BY NothingPopped, AdvancingIInv DEF exec_op_wide
-----------------------------------------------------------------------------
(* Instructions that write the stack or the registers directly             *)

LEMMA StackWritten ==
    ASSUME NEW m, Good(m), NEW s \in [0 .. m.cpu.stack_size - 1 -> Word]
    PROVE  LET r == [m EXCEPT !.cpu.stack = s]
           IN  /\ Good(r) /\ r.ok = m.ok
               /\ r.cpu.sp = m.cpu.sp /\ r.cpu.stack_size = m.cpu.stack_size
<1> DEFINE r == [m EXCEPT !.cpu.stack = s]
<1>1. IsMachine(m) /\ IsCpu(m.cpu) /\ InStack(m.cpu) /\ Encodable(m)
  BY DEF Good, IsMachine
<1>2. /\ r.ok = m.ok /\ r.mem = m.mem /\ r.net = m.net
      /\ r.cpu = [m.cpu EXCEPT !.stack = s]
      /\ r \in [ok : BOOLEAN, cpu : {r.cpu}, mem : {r.mem},
                 creations : 0 .. GC_PERIOD, net : {r.net}]
  BY <1>1 DEF IsMachine
<1> HIDE DEF r
<1>3. /\ IsCpu(r.cpu) /\ InStack(r.cpu)
      /\ r.cpu.sp = m.cpu.sp /\ r.cpu.stack_size = m.cpu.stack_size
  BY <1>1, <1>2 DEF IsCpu, InStack
<1>4. Good(r)
  BY <1>1, <1>2, <1>3 DEF Good, IsMachine, Encodable
<1> QED
  BY <1>2, <1>3, <1>4 DEF r

LEMMA SwapIInv == ASSUME IInv, exec_op_swap PROVE IInv'
<1> DEFINE m == Advanced(0, 0)
           s == [cpu.stack EXCEPT ![cpu.sp] = Top(2), ![cpu.sp - 1] = Top(1)]
           r == [m EXCEPT !.cpu.stack = s]
<1>1. /\ Good(m) /\ m.cpu.stack = cpu.stack /\ m.cpu.stack_size = cpu.stack_size
      /\ m.cpu.sp < m.cpu.stack_size
  BY NothingPopped, AdvancedIsGood
<1>2. CASE CanPop(2)
  <2>1. Top(1) \in Word /\ Top(2) \in Word
    BY <1>2, OperandsInStack
  <2>2. s \in [0 .. m.cpu.stack_size - 1 -> Word]
    BY <1>1, <2>1 DEF Good, IsMachine, IsCpu
  <2>3. Become(r)
    <3>1. Become([m EXCEPT !.cpu.stack =
                     [@ EXCEPT ![cpu.sp] = Top(2), ![cpu.sp - 1] = Top(1)]])
      BY <1>2 DEF exec_op_swap, Ending
    <3> QED
      BY <1>1, <3>1
  <2> HIDE DEF m, s
  <2>4. Good(r) /\ r.cpu.sp < r.cpu.stack_size
    BY <1>1, <2>2, StackWritten
  <2> HIDE DEF r
  <2> QED
    BY <2>3, <2>4, BecomeIInv DEF exec_op_swap
<1> QED
  BY <1>2, RefusedIInv DEF exec_op_swap, Ending

(* update_local_variable, inside the memory of the stack or not. *)
LEMMA UpdateLocalIInv ==
    ASSUME IInv, NEW op, Fetch(op), NEW m, Good(m),
           m.cpu.sp < m.cpu.stack_size, NEW i, NEW w \in Word,
           UpdateLocal(m, i, w)
    PROVE  IInv'
<1> DEFINE s == [m.cpu.stack EXCEPT ![cpu.lv + i] = w]
           r == [m EXCEPT !.cpu.stack = s]
<1>1. CASE cpu.lv + i < cpu.stack_size
  <2>1. s \in [0 .. m.cpu.stack_size - 1 -> Word]
    BY DEF Good, IsMachine, IsCpu
  <2>2. Become(r)
    BY <1>1 DEF UpdateLocal
  <2> HIDE DEF s
  <2>3. Good(r) /\ r.cpu.sp < r.cpu.stack_size
    BY <2>1, StackWritten
  <2> HIDE DEF r
  <2> QED
    BY <2>2, <2>3, BecomeIInv
<1> QED
  BY <1>1, FetchStays, CorruptIInv DEF UpdateLocal, Fetch

LEMMA IloadIInv == ASSUME IInv, exec_op_iload PROVE IInv'
<1>1. CASE HasArgs(IndexBytes) /\ IsLocal(UnsignedIndex)
  <2>1. PICK junk \in Junk :
           Pushing(Advanced(IndexBytes, 0),
                   StackAt(cpu, cpu.lv + UnsignedIndex, junk))
    BY <1>1 DEF exec_op_iload
  <2>2. IndexBytes \in Nat
    BY DEF IndexBytes
  <2> QED
    BY <2>1, <2>2, StackAtIsWord, NothingPopped, AdvancingPushIInv
    DEF exec_op_iload
<1> QED
  BY <1>1, RefusedIInv DEF exec_op_iload

LEMMA IstoreIInv == ASSUME IInv, exec_op_istore PROVE IInv'
<1>1. CASE CanPop(1) /\ HasArgs(IndexBytes) /\ IsLocal(UnsignedIndex)
  <2> DEFINE m == Advanced(IndexBytes, 1)
  <2>1. IndexBytes \in Nat /\ cpu.sp - 1 >= -1 /\ Top(1) \in Word
    BY <1>1, OperandsInStack DEF IndexBytes
  <2>2. Good(m) /\ m.cpu.sp < m.cpu.stack_size
    BY <2>1, AdvancedIsGood
  <2>3. UpdateLocal(m, UnsignedIndex, Top(1))
    BY <1>1 DEF exec_op_istore
  <2> HIDE DEF m
  <2> QED
    BY <2>1, <2>2, <2>3, UpdateLocalIInv DEF exec_op_istore
<1> QED
  BY <1>1, RefusedIInv DEF exec_op_istore

LEMMA IincIInv == ASSUME IInv, exec_op_iinc PROVE IInv'
<1>1. CASE HasArgs(IndexBytes + 1) /\ IsLocal(SignedIndex)
  <2> DEFINE m == Advanced(IndexBytes + 1, 0)
             d == Signed8(arg_byte(IndexBytes + 1))
  <2>1. IndexBytes + 1 \in Nat /\ IndexBytes + 1 \in 1 .. IndexBytes + 1
    BY DEF IndexBytes
  <2>2. Good(m) /\ m.cpu.sp < m.cpu.stack_size
    BY <2>1, NothingPopped, AdvancedIsGood
  <2>3. d \in -128 .. 127
    BY <1>1, <2>1, ArgByte, Signed8Word
  <2> HIDE DEF m, d
  <2>4. PICK junk \in Junk :
           UpdateLocal(m, SignedIndex,
                       ToWord(StackAt(cpu, cpu.lv + SignedIndex, junk) + d))
    BY <1>1 DEF exec_op_iinc, m, d
  <2>5. ToWord(StackAt(cpu, cpu.lv + SignedIndex, junk) + d) \in Word
    BY <2>3, StackAtIsWord, ToWordWord
  <2> QED
    BY <2>2, <2>4, <2>5, UpdateLocalIInv DEF exec_op_iinc
<1> QED
  BY <1>1, RefusedIInv DEF exec_op_iinc

LEMMA JumpIInv ==
    ASSUME IInv, NEW op, Fetch(op), NEW m, Good(m),
           m.cpu.sp < m.cpu.stack_size, NEW offset \in Int, Jump(m, offset)
    PROVE  IInv'
<1> DEFINE pc == m.cpu.pc + offset
           r == [m EXCEPT !.cpu.pc = pc]
<1>1. CASE pc >= 0 /\ offset < CodeSize
  <2>1. Become(r)
    BY <1>1 DEF Jump, Ending
  <2>2. IsMachine(m) /\ IsCpu(m.cpu) /\ InStack(m.cpu) /\ Encodable(m)
    BY DEF Good, IsMachine
  <2>3. pc \in Int
    BY <2>2 DEF IsCpu
  <2> HIDE DEF pc
  <2>4. /\ r.ok = m.ok /\ r.mem = m.mem /\ r.net = m.net
        /\ r.cpu = [m.cpu EXCEPT !.pc = pc]
        /\ r \in [ok : BOOLEAN, cpu : {r.cpu}, mem : {r.mem},
                   creations : 0 .. GC_PERIOD, net : {r.net}]
    BY <2>2 DEF IsMachine
  <2> HIDE DEF r
  <2>5. /\ IsCpu(r.cpu) /\ InStack(r.cpu)
        /\ r.cpu.sp = m.cpu.sp /\ r.cpu.stack_size = m.cpu.stack_size
    BY <1>1, <2>2, <2>3, <2>4 DEF IsCpu, InStack
  <2>6. Good(r)
    BY <2>2, <2>4, <2>5 DEF Good, IsMachine, Encodable
  <2> QED
    BY <2>1, <2>5, <2>6, BecomeIInv
<1> QED
  BY <1>1, RefusedIInv DEF Jump, Ending

LEMMA BranchOffsetInt ==
    ASSUME IInv, HasArgs(2)
    PROVE  BranchOffset \in Int
<1>1. arg_short(1) \in Int
  BY ArgShort
<1> QED
  BY <1>1 DEF BranchOffset, Signed16

LEMMA BranchIInv ==
    ASSUME IInv, NEW op, NEW k \in Nat, NEW taken, Branch(op, k, taken)
    PROVE  IInv'
<1> DEFINE m == Advanced(2, k)
<1>1. CASE HasArgs(2) /\ CanPop(k)
  <2>1. cpu.sp - k >= -1
    BY <1>1, OperandsInStack
  <2>2. Good(m) /\ m.cpu.sp < m.cpu.stack_size
    BY <2>1, AdvancedIsGood
  <2>3. Jump(m, BranchOffset) \/ Become(m)
    BY <1>1 DEF Branch
  <2>4. BranchOffset \in Int
    BY <1>1, BranchOffsetInt
  <2> HIDE DEF m
  <2> QED
    BY <2>2, <2>3, <2>4, JumpIInv, BecomeIInv DEF Branch
<1> QED
  BY <1>1, RefusedIInv DEF Branch

LEMMA GotoIInv == ASSUME IInv, exec_op_goto PROVE IInv'
<1> DEFINE m == Advanced(2, 0)
<1>1. CASE HasArgs(2)
  <2>1. Good(m) /\ m.cpu.sp < m.cpu.stack_size
    BY NothingPopped, AdvancedIsGood
  <2>2. Jump(m, BranchOffset)
    BY <1>1 DEF exec_op_goto
  <2>3. BranchOffset \in Int
    BY <1>1, BranchOffsetInt
  <2> HIDE DEF m
  <2> QED
    BY <2>1, <2>2, <2>3, JumpIInv DEF exec_op_goto
<1> QED
  BY <1>1, RefusedIInv DEF exec_op_goto
-----------------------------------------------------------------------------
(* Flags                                                                   *)

LEMMA FlagIInv ==
    ASSUME IInv, NEW op, Fetch(op),
           \/ Become([Advanced(0, 0) EXCEPT !.cpu.error_flag = TRUE])
           \/ Become([Advanced(0, 0) EXCEPT !.cpu.halt_flag = TRUE])
    PROVE  IInv'
<1> DEFINE m == Advanced(0, 0)
           error == [m EXCEPT !.cpu.error_flag = TRUE]
           halt == [m EXCEPT !.cpu.halt_flag = TRUE]
<1>1. Good(m) /\ m.cpu.sp < m.cpu.stack_size
  BY NothingPopped, AdvancedIsGood
<1>2. Become(error) \/ Become(halt)
  OBVIOUS
<1> HIDE DEF m
<1>3. ASSUME NEW r,
             /\ r \in [ok : BOOLEAN, cpu : {r.cpu}, mem : {m.mem},
                       creations : {m.creations}, net : {m.net}]
             /\ \/ r.cpu = [m.cpu EXCEPT !.error_flag = TRUE]
                \/ r.cpu = [m.cpu EXCEPT !.halt_flag = TRUE]
      PROVE  Good(r) /\ r.cpu.sp < r.cpu.stack_size
  <2>1. IsMachine(m) /\ IsCpu(m.cpu) /\ InStack(m.cpu) /\ Encodable(m)
    BY <1>1 DEF Good, IsMachine
  <2>2. IsCpu(r.cpu) /\ InStack(r.cpu) /\ r.cpu.sp < r.cpu.stack_size
    BY <1>1, <1>3, <2>1 DEF IsCpu, InStack
  <2> QED
    BY <1>3, <2>1, <2>2 DEF Good, IsMachine, Encodable
<1>4. \A r \in {error, halt} :
         /\ r \in [ok : BOOLEAN, cpu : {r.cpu}, mem : {m.mem},
                   creations : {m.creations}, net : {m.net}]
         /\ \/ r.cpu = [m.cpu EXCEPT !.error_flag = TRUE]
            \/ r.cpu = [m.cpu EXCEPT !.halt_flag = TRUE]
  BY <1>1 DEF Good, IsMachine
<1> HIDE DEF error, halt
<1> QED
  BY <1>2, <1>3, <1>4, BecomeIInv

LEMMA FlagsIInv ==
    ASSUME IInv, exec_op_err \/ exec_op_halt \/ InvalidOpcode
    PROVE  IInv'
BY FlagIInv DEF exec_op_err, exec_op_halt, InvalidOpcode

-----------------------------------------------------------------------------
(* Calls and returns                                                       *)

(* IRETURN checks what it restores. *)
LEMMA ReturnedIsGood ==
    ASSUME IInv, NEW junk \in Junk, IsFrame(Returned(junk).cpu)
    PROVE  /\ Good(Returned(junk))
           /\ Returned(junk).mem = arr_mem
           /\ Returned(junk).cpu.stack = cpu.stack
           /\ Returned(junk).cpu.stack_size = cpu.stack_size
<1> DEFINE m == Returned(junk)
           at(k) == StackAt(cpu, cpu.fp + k, junk)
           lv == StackAt(cpu, cpu.fp, junk)
           sp == cpu.fp - 1 - cpu.nv
<1>1. /\ at(3) \in Int /\ at(2) \in Int /\ at(1) \in Word /\ lv \in Int
  BY StackAtIsWord DEF Word
<1>2. IsMachine(Machine) /\ IsCpu(cpu) /\ Encodable(Machine) /\ Machine.cpu = cpu
  BY MachineIsGood DEF Good, IsMachine
<1>3. sp \in Int
  BY <1>2 DEF IsCpu
<1> DEFINE pc == at(3)
           fp == at(2)
           nv == at(1)
<1>4. m = [Machine EXCEPT !.cpu.pc = pc, !.cpu.fp = fp, !.cpu.nv = nv,
                          !.cpu.lv = lv, !.cpu.sp = sp]
  BY DEF Returned
<1>5. pc \in Int /\ fp \in Int /\ nv \in Word /\ nv \in Int
  BY <1>1 DEF Word
<1>6. IsFrame(m.cpu)
  OBVIOUS
<1> HIDE DEF m, pc, fp, nv, lv, sp
<1>7. /\ m.ok = Machine.ok /\ m.mem = Machine.mem /\ m.net = Machine.net
      /\ m.cpu = [cpu EXCEPT !.pc = pc, !.fp = fp, !.nv = nv, !.lv = lv, !.sp = sp]
      /\ m \in [ok : BOOLEAN, cpu : {m.cpu}, mem : {m.mem},
                 creations : 0 .. GC_PERIOD, net : {m.net}]
  BY <1>2, <1>4 DEF IsMachine
<1>8. IsCpu(m.cpu) /\ m.cpu.nv = nv
  BY <1>1, <1>2, <1>3, <1>5, <1>7, ZenonT(30) DEF IsCpu
<1>9. InStack(m.cpu)
  BY <1>5, <1>6, <1>8, WordMaxAssumption DEF IsCpu, IsFrame, InStack, Word
<1>10. m.cpu.stack = cpu.stack /\ m.cpu.stack_size = cpu.stack_size
  BY <1>2, <1>7 DEF IsCpu
<1>11. Good(m)
  BY <1>2, <1>7, <1>8, <1>9 DEF Good, IsMachine, Encodable
<1> QED
  BY <1>7, <1>10, <1>11, MachineIsGood DEF m

LEMMA IreturnIInv == ASSUME IInv, exec_op_ireturn PROVE IInv'
<1>1. PICK junk \in Junk :
         IF CanPop(1) /\ cpu.fp >= cpu.lv /\ IsFrame(Returned(junk).cpu)
         THEN Pushing(Returned(junk), Top(1))
         ELSE DestroyNow
  BY DEF exec_op_ireturn
<1>2. CASE CanPop(1) /\ IsFrame(Returned(junk).cpu)
  <2>1. Good(Returned(junk)) /\ Top(1) \in Word
    BY <1>2, ReturnedIsGood, OperandsInStack
  <2> QED
    BY <1>1, <2>1, PushingIInv, RefusedIInv DEF exec_op_ireturn
<1> QED
  BY <1>1, <1>2, RefusedIInv DEF exec_op_ireturn

Framed(m, r, fp, lv, nv, s) ==
    r = [m EXCEPT !.cpu.fp = fp, !.cpu.nv = nv, !.cpu.lv = lv, !.cpu.stack = s]

LEMMA FramedIsGood ==
    ASSUME NEW m, IsMachine(m), Encodable(m), m.cpu.pc >= 0, m.cpu.sp >= -1,
           NEW fp \in 0 .. m.cpu.stack_size - 1,
           NEW lv \in 0 .. m.cpu.stack_size - 1,
           NEW nv \in 0 .. WordMax,
           NEW s \in [0 .. m.cpu.stack_size - 1 -> Word],
           NEW r, Framed(m, r, fp, lv, nv, s)
    PROVE  /\ Good(r)
           /\ r.cpu.sp = m.cpu.sp /\ r.cpu.stack_size = m.cpu.stack_size
<1>1. IsCpu(m.cpu) /\ fp \in Int /\ lv \in Int /\ nv \in Int
  BY DEF IsMachine
<1>2. /\ r.mem = m.mem /\ r.net = m.net
      /\ r.cpu = [m.cpu EXCEPT !.fp = fp, !.nv = nv, !.lv = lv, !.stack = s]
      /\ r \in [ok : BOOLEAN, cpu : {r.cpu}, mem : {r.mem},
                 creations : 0 .. GC_PERIOD, net : {r.net}]
  BY DEF IsMachine, Framed
<1>3. /\ IsCpu(r.cpu)
      /\ r.cpu.fp = fp /\ r.cpu.lv = lv /\ r.cpu.nv = nv /\ r.cpu.pc = m.cpu.pc
      /\ r.cpu.sp = m.cpu.sp /\ r.cpu.stack_size = m.cpu.stack_size
  BY <1>1, <1>2, ZenonT(30) DEF IsCpu
<1>4. InStack(r.cpu)
  BY <1>3 DEF InStack
<1> QED
  BY <1>2, <1>3, <1>4 DEF Good, IsMachine, Encodable

(* A frame that begins in the stack leaves the registers inside it. *)
LEMMA EnteredIsGood ==
    ASSUME NEW m, IsMachine(m), Encodable(m), m.cpu.pc >= 0, m.ok,
           m.cpu.sp < m.cpu.stack_size,
           NEW args \in Nat, args <= 65535, NEW locals \in Nat, locals <= 65535,
           NEW r, r = Entered(m, args, locals), r.ok
    PROVE  Good(r) /\ r.cpu.sp < r.cpu.stack_size
<1> DEFINE fp == m.cpu.sp - 3
           lv == fp - args - locals
           nv == args + locals
           stack == [k \in DOMAIN m.cpu.stack |->
                       IF k \in lv + args .. fp - 1 THEN 0 ELSE m.cpu.stack[k]]
<1>1. lv >= 0
  <2> SUFFICES ASSUME ~(lv >= 0) PROVE FALSE
    OBVIOUS
  <2>1. r = [m EXCEPT !.ok = FALSE]
    BY DEF Entered
  <2> QED
    BY <2>1 DEF IsMachine
<1>2. Framed(m, r, fp, lv, nv, stack)
  BY <1>1 DEF Entered, Framed
<1>3. IsCpu(m.cpu) /\ m.cpu.sp \in Int /\ m.cpu.stack_size \in Nat
  BY WordMaxAssumption DEF IsMachine, IsCpu
<1>4. /\ fp \in Int /\ lv \in Int /\ nv \in Int
      /\ fp \in 0 .. m.cpu.stack_size - 1 /\ lv \in 0 .. m.cpu.stack_size - 1
      /\ m.cpu.sp >= -1
  BY <1>1, <1>3
<1>5. nv \in 0 .. WordMax
  BY MachineAssumption, WordMaxAssumption
<1> HIDE DEF fp, lv, nv
<1>6. stack \in [0 .. m.cpu.stack_size - 1 -> Word]
  <2>1. /\ DOMAIN m.cpu.stack = 0 .. m.cpu.stack_size - 1
        /\ \A k \in 0 .. m.cpu.stack_size - 1 : m.cpu.stack[k] \in Word
    BY <1>3 DEF IsCpu
  <2>2. 0 \in Word
    BY WordMaxAssumption DEF Word, WordMin
  <2> QED
    BY <2>1, <2>2
<1> HIDE DEF stack
<1>7. Good(r) /\ r.cpu.sp = m.cpu.sp /\ r.cpu.stack_size = m.cpu.stack_size
  BY <1>2, <1>4, <1>5, <1>6, FramedIsGood
<1> QED
  BY <1>7

(* What INVOKEVIRTUAL reads of the code, and pushes. *)
LEMMA CallOperands ==
    ASSUME IInv, HasArgs(2), IsConstant(arg_short(1)),
           get_constant(arg_short(1)) >= 0,
           get_constant(arg_short(1)) + 4 <= CodeSize
    PROVE  LET target == get_constant(arg_short(1))
           IN  /\ target \in Int
               /\ Unsigned16(CodeShort(target)) \in Nat
               /\ Unsigned16(CodeShort(target)) <= 65535
               /\ Unsigned16(CodeShort(target + 2)) \in Nat
               /\ Unsigned16(CodeShort(target + 2)) <= 65535
               /\ cpu.lv \in Word /\ cpu.nv \in Word /\ cpu.fp \in Word
               /\ cpu.pc + 3 \in Word
<1> DEFINE target == get_constant(arg_short(1))
<1>1. target \in Int
  BY ConstantIsWord DEF Word
<1>2. /\ target \in 0 .. CodeSize - 1 /\ target + 1 \in 0 .. CodeSize - 1
      /\ target + 2 \in 0 .. CodeSize - 1 /\ target + 2 + 1 \in 0 .. CodeSize - 1
  BY <1>1, ProgramIsCode
<1> HIDE DEF target
<1>3. ASSUME NEW i, CodeByte(i) \in Byte, CodeByte(i + 1) \in Byte
      PROVE  Unsigned16(CodeShort(i)) \in Nat /\ Unsigned16(CodeShort(i)) <= 65535
  BY <1>3, ShortRange, Unsigned16Range DEF CodeShort
<1>4. /\ CodeByte(target) \in Byte /\ CodeByte(target + 1) \in Byte
      /\ CodeByte(target + 2) \in Byte /\ CodeByte(target + 2 + 1) \in Byte
  BY <1>2, ProgramIsCode
<1>5. cpu.pc + 3 <= WordMax /\ cpu.pc + 3 \in Nat
  <2>1. cpu.pc + 1 + 2 <= CodeSize
    BY DEF HasArgs
  <2>2. cpu.pc \in Nat /\ CodeSize \in Nat /\ CodeSize <= WordMax
    BY ProgramIsCode
  <2> QED
    BY <2>1, <2>2, WordMaxAssumption
<1>6. \A w \in Nat : w <= WordMax => w \in Word
  BY WordMaxAssumption DEF Word, WordMin
<1>7. cpu.lv <= WordMax /\ cpu.fp <= WordMax
  BY StackFacts, WordMaxAssumption
<1>8. /\ Unsigned16(CodeShort(target)) \in Nat
      /\ Unsigned16(CodeShort(target)) <= 65535
      /\ Unsigned16(CodeShort(target + 2)) \in Nat
      /\ Unsigned16(CodeShort(target + 2)) <= 65535
  BY <1>3, <1>4
<1>9. cpu.lv \in Word /\ cpu.nv \in Word /\ cpu.fp \in Word /\ cpu.pc + 3 \in Word
  BY <1>5, <1>6, <1>7, StackFacts
<1> QED
  BY <1>1, <1>8, <1>9 DEF target

(* The machine that has jumped to the method and made room for its locals. *)
LEMMA CallMachine ==
    ASSUME IInv, NEW target \in Int, NEW locals \in Nat
    PROVE  LET m == [Machine EXCEPT !.cpu.pc = target + 4, !.cpu.sp = @ + locals]
           IN  /\ IsMachine(m) /\ Encodable(m) /\ m.cpu.pc = target + 4
               /\ m.mem = arr_mem /\ m.cpu.sp = cpu.sp + locals
               /\ m.cpu.stack = cpu.stack /\ m.cpu.stack_size = cpu.stack_size
<1> DEFINE pc == target + 4
           sp == cpu.sp + locals
           m  == [Machine EXCEPT !.cpu.pc = target + 4, !.cpu.sp = @ + locals]
<1>1. pc \in Int /\ sp \in Int
  BY StackFacts
<1>2. m = [Machine EXCEPT !.cpu.pc = pc, !.cpu.sp = sp]
  BY MachineIsGood
<1> HIDE DEF m, pc, sp
<1>3. /\ IsMachine(Machine) /\ IsCpu(cpu) /\ Machine.cpu = cpu
      /\ Machine.mem = arr_mem /\ Encodable(Machine)
  BY MachineIsGood DEF Good, IsMachine
<1>4. /\ m.mem = Machine.mem /\ m.net = Machine.net
      /\ m.cpu = [cpu EXCEPT !.pc = pc, !.sp = sp]
      /\ m \in [ok : BOOLEAN, cpu : {m.cpu}, mem : {m.mem},
                 creations : 0 .. GC_PERIOD, net : {m.net}]
  BY <1>2, <1>3 DEF IsMachine
<1>5. /\ IsCpu(m.cpu) /\ m.cpu.pc = pc /\ m.cpu.sp = sp
      /\ m.cpu.stack = cpu.stack /\ m.cpu.stack_size = cpu.stack_size
  BY <1>1, <1>3, <1>4 DEF IsCpu
<1>6. IsMachine(m) /\ Encodable(m)
  BY <1>3, <1>4, <1>5 DEF IsMachine, Encodable
<1> QED
  BY <1>3, <1>4, <1>5, <1>6 DEF m, pc, sp

LEMMA InvokeIInv == ASSUME IInv, exec_op_invokevirtual PROVE IInv'
<1> DEFINE target == get_constant(arg_short(1))
           args   == Unsigned16(CodeShort(target))
           locals == Unsigned16(CodeShort(target + 2))
           m      == [Machine EXCEPT !.cpu.pc = target + 4, !.cpu.sp = @ + locals]
<1>1. CASE HasArgs(2) /\ IsConstant(arg_short(1)) /\ target >= 0 /\ target + 4 <= CodeSize
  <2>1. PICK m1 \in stack_push(m, cpu.lv) :
        \E m2 \in stack_push(m1, cpu.nv) :
        \E m3 \in stack_push(m2, cpu.fp) :
        \E m4 \in stack_push(m3, cpu.pc + 3) : Become(Entered(m4, args, locals))
    BY <1>1 DEF exec_op_invokevirtual
  <2>2. PICK m2 \in stack_push(m1, cpu.nv) :
         \E m3 \in stack_push(m2, cpu.fp) :
         \E m4 \in stack_push(m3, cpu.pc + 3) : Become(Entered(m4, args, locals))
    BY <2>1
  <2>3. PICK m3 \in stack_push(m2, cpu.fp) :
         \E m4 \in stack_push(m3, cpu.pc + 3) : Become(Entered(m4, args, locals))
    BY <2>2
  <2>4. PICK m4 \in stack_push(m3, cpu.pc + 3) : Become(Entered(m4, args, locals))
    BY <2>3
  <2>5. /\ target \in Int /\ target >= 0
        /\ args \in Nat /\ args <= 65535 /\ locals \in Nat /\ locals <= 65535
    BY <1>1, CallOperands
  <2>6. cpu.lv \in Word /\ cpu.nv \in Word /\ cpu.fp \in Word /\ cpu.pc + 3 \in Word
    BY <1>1, CallOperands
  <2> HIDE DEF target, args, locals
  <2>7. /\ IsMachine(m) /\ Encodable(m) /\ m.cpu.pc = target + 4
        /\ m.mem = arr_mem /\ m.cpu.sp = cpu.sp + locals
        /\ m.cpu.stack = cpu.stack /\ m.cpu.stack_size = cpu.stack_size
    <3>1. target \in Int /\ locals \in Nat
      BY <2>5
    <3> QED
      BY <3>1, CallMachine, Zenon
  <2> HIDE DEF m
  <2>8. Pushed(m, m1, cpu.lv)
    BY <2>1, <2>6, <2>7, StackPush
  <2>9. Pushed(m1, m2, cpu.nv)
    BY <2>2, <2>6, <2>8, StackPush DEF Pushed
  <2>10. Pushed(m2, m3, cpu.fp)
    BY <2>3, <2>6, <2>9, StackPush DEF Pushed
  <2>11. Pushed(m3, m4, cpu.pc + 3)
    BY <2>4, <2>6, <2>10, StackPush DEF Pushed
  <2>12. /\ IsMachine(m4) /\ m4.cpu.pc = target + 4
         /\ m4.ok => Encodable(m4) /\ m4.cpu.sp < m4.cpu.stack_size
    BY <2>7, <2>8, <2>9, <2>10, <2>11 DEF Pushed, SameRegisters, Encodable
  <2>13. m4.cpu.pc >= 0
    BY <2>5, <2>12
  <2> DEFINE r == Entered(m4, args, locals)
  <2>14. r.ok => m4.ok
    BY <2>12 DEF Entered, IsMachine
  <2>15. r.ok => Good(r) /\ r.cpu.sp < r.cpu.stack_size
    BY <2>5, <2>12, <2>13, <2>14, EnteredIsGood
  <2>16. Become(r)
    BY <2>4
  <2> HIDE DEF r
  <2> QED
    BY <2>15, <2>16, BecomeIInv DEF exec_op_invokevirtual
<1>2. CASE ~(HasArgs(2) /\ IsConstant(arg_short(1)) /\ target >= 0 /\ target + 4 <= CodeSize)
  <2>1. Fetch(OP_INVOKEVIRTUAL) /\ DestroyNow
    BY <1>2 DEF exec_op_invokevirtual
  <2> QED
    BY <2>1, RefusedIInv
<1> QED
  BY <1>1, <1>2

-----------------------------------------------------------------------------
(* Arrays                                                                  *)

LEMMA NewarrayIInv == ASSUME IInv, exec_op_newarray PROVE IInv'
<1> DEFINE m == Advanced(0, 1)
<1>1. CASE CanPop(1)
  <2>0. cpu.sp - 1 >= -1 /\ Top(1) \in Int
    BY <1>1, OperandsInStack DEF Word
  <2>1. Good(m) /\ m.ok /\ m.mem = arr_mem
    BY <2>0, AdvancedIsGood
  <2>2. PICK junk \in Junk :
           \E r \in arr_create(arr_mem, element_creations,
                               GcWords(m.cpu, junk), Top(1), Refusals) :
              IF r.ok
              THEN Pushing([m EXCEPT !.mem = r.mem, !.creations = r.creations], r.ref)
              ELSE DestroyNow
    BY <1>1 DEF exec_op_newarray
  <2>3. PICK r \in arr_create(arr_mem, element_creations,
                              GcWords(m.cpu, junk), Top(1), Refusals) :
           IF r.ok
           THEN Pushing([m EXCEPT !.mem = r.mem, !.creations = r.creations], r.ref)
           ELSE DestroyNow
    BY <2>2
  <2> DEFINE new == [m EXCEPT !.mem = r.mem, !.creations = r.creations]
  <2> HIDE DEF m
  <2>4. CASE r.ok
    <3>1. /\ IsArrMem(r.mem) /\ r.creations \in 0 .. GC_PERIOD
          /\ r.ref \in Word
          /\ \E i \in 0 .. ARRAYS_MAX_NUM - 1 :
                Claimed(r.mem) \subseteq Claimed(arr_mem) \cup {i}
      <4>1. IsArrMem(arr_mem) /\ element_creations \in 0 .. GC_PERIOD
        BY DEF IInv, TypeOK
      <4> QED
        BY <2>0, <2>3, <2>4, <4>1, ArraysAreLow, CreateResult
    <3>2. \A i \in Claimed(r.mem) : i < ARRAYS_MAX_NUM
      <4>1. PICK i \in 0 .. ARRAYS_MAX_NUM - 1 :
               Claimed(r.mem) \subseteq Claimed(arr_mem) \cup {i}
        BY <3>1
      <4>2. i < ARRAYS_MAX_NUM
        BY ArrayAssumption
      <4> QED
        BY <4>1, <4>2 DEF IInv, LowIndexes
    <3>3. /\ new \in [ok : BOOLEAN, cpu : {m.cpu}, mem : {r.mem},
                      creations : {r.creations}, net : {m.net}]
      BY <2>1 DEF Good, IsMachine
    <3>4. Pushing(new, r.ref)
      BY <2>3, <2>4
    <3> HIDE DEF new
    <3>5. Good(new)
      BY <2>1, <3>1, <3>2, <3>3 DEF Good, IsMachine, Encodable
    <3> QED
      BY <3>1, <3>4, <3>5, PushingIInv DEF exec_op_newarray
  <2>5. CASE ~r.ok
    BY <2>3, <2>5, RefusedIInv DEF exec_op_newarray
  <2> QED
    BY <2>4, <2>5
<1> QED
  BY <1>1, RefusedIInv DEF exec_op_newarray

LEMMA IaloadIInv == ASSUME IInv, exec_op_iaload PROVE IInv'
<1>1. CASE CanPop(2) /\ InBounds(arr_mem, Top(1), Top(2))
  <2>1. arr_get(arr_mem, Top(1), Top(2)) \in Word
    BY <1>1, GetType DEF IInv, TypeOK
  <2>2. cpu.sp - 2 >= -1
    BY <1>1, OperandsInStack
  <2> QED
    BY <1>1, <2>1, <2>2, AdvancingPushIInv DEF exec_op_iaload
<1> QED
  BY <1>1, RefusedIInv DEF exec_op_iaload

LEMMA IastoreIInv == ASSUME IInv, exec_op_iastore PROVE IInv'
<1> DEFINE m == Advanced(0, 3)
           mem == arr_set(arr_mem, Top(1), Top(2), Top(3))
           new == [m EXCEPT !.mem = mem]
<1>1. CASE CanPop(3) /\ InBounds(arr_mem, Top(1), Top(2))
  <2>1. Top(3) \in Word /\ cpu.sp - 3 >= -1
    BY <1>1, OperandsInStack
  <2>2. Good(m) /\ m.mem = arr_mem /\ m.cpu.sp < m.cpu.stack_size
    BY <2>1, AdvancedIsGood
  <2>3. IsArrMem(mem) /\ Claimed(mem) = Claimed(arr_mem)
    BY <1>1, <2>1, SetType DEF IInv, TypeOK
  <2>4. Become(new)
    BY <1>1 DEF exec_op_iastore
  <2> HIDE DEF m, mem
  <2>5. new \in [ok : BOOLEAN, cpu : {m.cpu}, mem : {mem},
                creations : {m.creations}, net : {m.net}]
    BY <2>2 DEF Good, IsMachine
  <2> HIDE DEF new
  <2>6. Good(new) /\ new.cpu.sp < new.cpu.stack_size
    BY <2>2, <2>3, <2>5 DEF Good, IsMachine, Encodable
  <2> QED
    BY <2>4, <2>6, BecomeIInv DEF exec_op_iastore
<1> QED
  BY <1>1, RefusedIInv DEF exec_op_iastore

LEMMA GcIInv == ASSUME IInv, exec_op_gc PROVE IInv'
<1> DEFINE m == Advanced(0, 0)
<1>1. Good(m) /\ m.cpu.sp < m.cpu.stack_size
  BY NothingPopped, AdvancedIsGood
<1>2. PICK junk \in Junk : Become(arr_gc(m, GcWords(cpu, junk)))
  BY DEF exec_op_gc
<1> HIDE DEF m
<1> DEFINE r == arr_gc(m, GcWords(cpu, junk))
<1>3. Collected(m, r, GcWords(cpu, junk))
  BY <1>1, GcOfMachine DEF Good
<1>4. Become(r)
  BY <1>2
<1> HIDE DEF r
<1>5. r.ok => Good(r) /\ r.cpu.sp < r.cpu.stack_size
  BY <1>1, <1>3 DEF Collected, Good, Encodable
<1> QED
  BY <1>4, <1>5, BecomeIInv DEF exec_op_gc

-----------------------------------------------------------------------------
(* Connections                                                             *)

(* From a machine to one with the same connections, in a table that may    *)
(* have grown, and with arrays that a collection may have thinned out.     *)
Roomier(m, a, words) ==
    /\ IsMachine(a)
    /\ a.cpu = m.cpu
    /\ Open(a.net) = Open(m.net)
    /\ a.net.size >= m.net.size
    /\ a.ok => /\ m.ok
               /\ Keeps(m.mem, a.mem, words)
               /\ Claimed(a.mem) \subseteq Claimed(m.mem)

LEMMA NetSize ==
    ASSUME NEW m, IsMachine(m)
    PROVE  m.net.size \in Nat
BY DEF IsMachine, IsNetConn

LEMMA CollectedIsRoomier ==
    ASSUME NEW m, IsMachine(m), NEW a, NEW words, Collected(m, a, words)
    PROVE  Roomier(m, a, words)
BY NetSize DEF Collected, Roomier

LEMMA RoomierTwice ==
    ASSUME NEW m, NEW a, NEW b, NEW words, IsMachine(m),
           Roomier(m, a, words), Roomier(a, b, words)
    PROVE  Roomier(m, b, words)
<1>1. m.net.size \in Nat /\ a.net.size \in Nat /\ b.net.size \in Nat
  BY NetSize DEF Roomier
<1>2. b.ok => Keeps(m.mem, b.mem, words)
  BY KeepsTransitive DEF Roomier
<1> QED
  BY <1>1, <1>2 DEF Roomier

LEMMA NetResizedIsRoomier ==
    ASSUME NEW m, IsMachine(m), NEW n \in Nat, n >= m.net.size,
           NEW refusals, NEW words
    PROVE  /\ Roomier(m, NetResized(m, n, refusals, words), words)
           /\ NetResized(m, n, refusals, words).net.size = n
<1> DEFINE a == Allocate(m, refusals, words)
           socks == [i \in 0 .. n - 1 |->
                       IF i \in NetSlots(m.net) THEN m.net.socks[i] ELSE "free"]
           net == [size |-> n, socks |-> socks]
           r == [a EXCEPT !.net = net]
<1>1. Collected(m, a, words)
  BY AllocateOfMachine
<1>2. /\ m.net.size \in Nat /\ NetSlots(m.net) = 0 .. m.net.size - 1
      /\ m.net.socks \in [NetSlots(m.net) -> SockStates]
  BY DEF IsMachine, IsNetConn, NetSlots
<1>3. socks \in [0 .. n - 1 -> SockStates]
  BY <1>2 DEF SockStates
<1>4. \A i \in 0 .. n - 1 :
         socks[i] # "free" <=> i \in NetSlots(m.net) /\ m.net.socks[i] # "free"
  OBVIOUS
<1>5. NetSlots(m.net) \subseteq 0 .. n - 1
  BY <1>2
<1>6. r = NetResized(m, n, refusals, words)
  BY DEF NetResized
<1> HIDE DEF a, socks
<1>7. net.size = n /\ net.socks = socks /\ NetSlots(net) = 0 .. n - 1
      /\ net \in [size : {n}, socks : {socks}]
  BY DEF NetSlots
<1> HIDE DEF net
<1>8. IsNetConn(net)
  BY <1>3, <1>7 DEF IsNetConn
<1>9. Open(net) = Open(m.net)
  BY <1>4, <1>5, <1>7 DEF Open
<1>10. r \in [ok : {a.ok}, cpu : {a.cpu}, mem : {a.mem},
              creations : {a.creations}, net : {net}]
  BY <1>1 DEF Collected, IsMachine
<1> HIDE DEF r
<1>11. Roomier(m, r, words) /\ r.net.size = n
  BY <1>1, <1>7, <1>8, <1>9, <1>10 DEF Collected, IsMachine, Roomier
<1> QED
  BY <1>6, <1>11

(* socket_store before it takes the slot (net.c:75-90): if the program     *)
(* survives, there is a slot to take.                                      *)
LEMMA MakeNetRoomStep ==
    ASSUME NEW m, IsMachine(m), NEW refusals, NEW words
    PROVE  /\ Roomier(m, MakeNetRoom(m, refusals, words), words)
           /\ LET net == MakeNetRoom(m, refusals, words).net
              IN  Open(net) # NetSlots(net)
<1> DEFINE init == IF m.net.size = 0
                   THEN NetResized(m, NET_CONN_MIN_NUM, refusals, words)
                   ELSE m
           first == CountCreation(init, words)
           grown == NetResized(first, first.net.size + NET_CONN_STEP, refusals, words)
           second == CountCreation(grown, words)
<1>1. Roomier(m, init, words)
  <2>1. CASE m.net.size = 0
    BY <2>1, NetAssumption, NetResizedIsRoomier
  <2>2. CASE m.net.size # 0
    BY <2>2, NetSize, KeepsItself DEF Roomier
  <2> QED
    BY <2>1, <2>2
<1>2. MakeNetRoom(m, refusals, words) =
         IF Open(first.net) = NetSlots(first.net) THEN second ELSE first
  BY DEF MakeNetRoom
<1> HIDE DEF init
<1>3. Collected(init, first, words)
  BY <1>1, CountCreationOfMachine DEF Roomier
<1> HIDE DEF first
<1>4. Roomier(m, first, words) /\ IsMachine(first) /\ first.net.size \in Nat
  BY <1>1, <1>3, CollectedIsRoomier, RoomierTwice, NetSize DEF Roomier
<1>5. CASE Open(first.net) # NetSlots(first.net)
  BY <1>2, <1>4, <1>5
<1>6. CASE Open(first.net) = NetSlots(first.net)
  <2> DEFINE n == first.net.size + NET_CONN_STEP
  <2>1. n \in Nat /\ n > first.net.size
    BY <1>4, NetAssumption
  <2>2. Roomier(first, grown, words) /\ grown.net.size = n
    BY <1>4, <2>1, NetResizedIsRoomier
  <2> HIDE DEF grown
  <2>3. Collected(grown, second, words)
    BY <2>2, CountCreationOfMachine DEF Roomier
  <2> HIDE DEF second
  <2>4. Roomier(m, second, words)
    BY <1>4, <2>2, <2>3, CollectedIsRoomier, RoomierTwice DEF Roomier
  <2>5. second.net = grown.net /\ Open(second.net) = NetSlots(first.net)
    BY <1>6, <2>2, <2>3 DEF Collected, Roomier
  <2>6. first.net.size \in NetSlots(second.net) \ NetSlots(first.net)
    BY <1>4, <2>1, <2>2, <2>5 DEF NetSlots
  <2> QED
    BY <1>2, <1>6, <2>4, <2>5, <2>6
<1> QED
  BY <1>5, <1>6

(* The socket that is taken is the lowest free one. *)
LEMMA FreeSockExists ==
    ASSUME NEW net, IsNetConn(net), Open(net) # NetSlots(net)
    PROVE  /\ FreeSock(net) \in NetSlots(net) \ Open(net)
           /\ \A j \in NetSlots(net) \ Open(net) : FreeSock(net) <= j
<1> DEFINE free == NetSlots(net) \ Open(net)
<1>1. free \in SUBSET Nat /\ free # {}
  BY DEF NetSlots, Open, IsNetConn
<1>2. \E i \in free : \A j \in free : i <= j
  BY <1>1, LeastElement
<1> QED
  BY <1>2 DEF FreeSock

(* The state of one slot of the table changes. *)
SockBecomes(m, r, i, state) == r = [m EXCEPT !.net.socks[i] = state]

LEMMA SockSet ==
    ASSUME NEW m, IsMachine(m), NEW i \in NetSlots(m.net),
           NEW state \in SockStates,
           NEW r, SockBecomes(m, r, i, state)
    PROVE  /\ IsMachine(r) /\ r.ok = m.ok /\ r.cpu = m.cpu /\ r.mem = m.mem
           /\ NetSlots(r.net) = NetSlots(m.net)
           /\ Open(r.net) \subseteq Open(m.net) \cup {i}
<1>1. /\ r.ok = m.ok /\ r.cpu = m.cpu /\ r.mem = m.mem
      /\ r.net = [m.net EXCEPT !.socks[i] = state]
      /\ r \in [ok : BOOLEAN, cpu : {m.cpu}, mem : {m.mem},
                creations : 0 .. GC_PERIOD, net : {r.net}]
  BY DEF IsMachine, SockBecomes
<1>2. /\ r.net.size = m.net.size
      /\ r.net.socks = [m.net.socks EXCEPT ![i] = state]
      /\ IsNetConn(r.net)
  BY <1>1 DEF IsMachine, IsNetConn, NetSlots
<1>3. Open(r.net) \subseteq Open(m.net) \cup {i}
  BY <1>2 DEF Open, NetSlots, IsMachine, IsNetConn
<1> QED
  BY <1>1, <1>2, <1>3 DEF IsMachine, NetSlots

LEMMA SockOpens ==
    ASSUME NEW m, IsMachine(m), NEW i \in NetSlots(m.net),
           NEW state \in SockStates, state # "free",
           NEW r, SockBecomes(m, r, i, state)
    PROVE  i \in Open(r.net)
<1>1. r.net = [m.net EXCEPT !.socks[i] = state]
  BY DEF IsMachine, SockBecomes
<1>2. /\ r.net.size = m.net.size
      /\ r.net.socks = [m.net.socks EXCEPT ![i] = state]
  BY <1>1 DEF IsMachine, IsNetConn, NetSlots
<1> QED
  BY <1>2 DEF Open, NetSlots, IsMachine, IsNetConn

(* The lowest index that is too high fails net_check_ref, and no lower     *)
(* one does.                                                               *)
LEMMA FirstUnencoded ==
    ASSUME NEW i \in Nat, i <= NET_REFS
    PROVE  NetEncodes(i) <=> i < NET_REFS
<1>1. NET_REFS \in Nat \ {0}
  BY NetAssumption
<1>2. CASE i = NET_REFS
  <2>1. i \div NET_REFS = 1
    BY <1>1, <1>2
  <2>2. 1 \notin NetHiddenBits
    BY DEF NetHiddenBits
  <2> QED
    BY <1>1, <1>2, <2>1, <2>2 DEF NetEncodes
<1>3. CASE i < NET_REFS
  <2>1. i \div NET_REFS = 0
    BY <1>1, <1>3
  <2>2. 0 \in NetHiddenBits
    <3>1. 0 = 4 * 0 + 8 * 0 + 64 * 0 + 128 * 0
      OBVIOUS
    <3> QED
      BY <3>1 DEF NetHiddenBits
  <2> QED
    BY <1>3, <2>1, <2>2 DEF NetEncodes
<1> QED
  BY <1>1, <1>2, <1>3

LowConns(net) == \A i \in Open(net) : i < NET_REFS

(* Room for a socket is found at NET_REFS at the highest.                  *)
LEMMA FreeSockIsLow ==
    ASSUME NEW net, IsNetConn(net), Open(net) # NetSlots(net), LowConns(net)
    PROVE  FreeSock(net) \in Nat /\ FreeSock(net) <= NET_REFS
<1> DEFINE i == FreeSock(net)
<1>1. /\ i \in NetSlots(net) \ Open(net)
      /\ \A j \in NetSlots(net) \ Open(net) : i <= j
  BY FreeSockExists
<1> HIDE DEF i
<1>2. NET_REFS \in Nat /\ net.size \in Nat
  BY NetAssumption DEF IsNetConn
<1>3. i \in Nat /\ i < net.size
  BY <1>1, <1>2 DEF NetSlots
<1>4. NET_REFS \notin Open(net)
  BY <1>2 DEF LowConns
<1>5. i <= NET_REFS
  BY <1>1, <1>2, <1>3, <1>4 DEF NetSlots
<1> QED
  BY <1>3, <1>5 DEF i

(* socket_create (net.c:41-94): if the program survives, the new socket    *)
(* is in the table, and a reference can encode its index; if it does not,  *)
(* all the connections have references but this one, if it is there.       *)
SocketMade(m, s, words) ==
    /\ IsMachine(s.r)
    /\ s.r.cpu = m.cpu
    /\ s.r.ok => /\ m.ok
                 /\ s.sock \in NetSlots(s.r.net) /\ s.sock \in 0 .. NET_REFS - 1
                 /\ Open(s.r.net) \subseteq Open(m.net) \cup {s.sock}
                 /\ Keeps(m.mem, s.r.mem, words)
                 /\ Claimed(s.r.mem) \subseteq Claimed(m.mem)
    /\ ~s.r.ok => \/ LowConns(s.r.net)
                  \/ /\ NET_REFS \in Open(s.r.net)
                     /\ \A i \in Open(s.r.net) : i <= NET_REFS
                     /\ Claimed(s.r.mem) \subseteq Claimed(m.mem)

LEMMA SocketCreate ==
    ASSUME NEW m, IsMachine(m), LowConns(m.net), NEW refusals, NEW words
    PROVE  SocketMade(m, socket_create(m, refusals, words), words)
<1> DEFINE room == MakeNetRoom(m, refusals, words)
           i == FreeSock(room.net)
           s == socket_create(m, refusals, words)
           taken == [room EXCEPT !.ok = NetEncodes(i), !.net.socks[i] = "idle"]
<1>1. Roomier(m, room, words) /\ Open(room.net) # NetSlots(room.net)
  BY MakeNetRoomStep
<1>2. LowConns(room.net) /\ IsNetConn(room.net)
  BY <1>1 DEF Roomier, LowConns, IsMachine
<1>3. i \in NetSlots(room.net) /\ i \in Nat /\ i <= NET_REFS
  BY <1>1, <1>2, FreeSockExists, FreeSockIsLow
<1>4. s.sock = i /\ s.r = IF room.ok THEN taken ELSE room
  BY DEF socket_create
<1>5. NetEncodes(i) <=> i < NET_REFS
  BY <1>3, FirstUnencoded
<1> HIDE DEF room, i, s
<1>6. CASE room.ok
  <2> DEFINE kept == [room EXCEPT !.ok = NetEncodes(i)]
  <2>1. /\ IsMachine(kept) /\ kept.ok = NetEncodes(i) /\ kept.cpu = room.cpu
        /\ kept.mem = room.mem /\ kept.net = room.net
    <3>1. NetEncodes(i) \in BOOLEAN
      BY DEF NetEncodes
    <3> QED
      BY <1>1, <3>1 DEF Roomier, IsMachine
  <2>2. SockBecomes(kept, taken, i, "idle")
    BY <1>1 DEF SockBecomes, Roomier, IsMachine
  <2> HIDE DEF kept, taken
  <2>3. /\ IsMachine(taken) /\ taken.ok = kept.ok /\ taken.cpu = kept.cpu
        /\ taken.mem = kept.mem
        /\ NetSlots(taken.net) = NetSlots(kept.net)
        /\ Open(taken.net) \subseteq Open(kept.net) \cup {i}
    BY <1>3, <2>1, <2>2, SockSet DEF SockStates
  <2>6. i \in Open(taken.net)
    BY <1>3, <2>1, <2>2, SockOpens DEF SockStates
  <2>4. CASE NetEncodes(i)
    <3>1. i \in 0 .. NET_REFS - 1
      BY <1>3, <1>5, <2>4, NetAssumption
    <3>2. SocketMade(m, s, words)
      BY <1>1, <1>3, <1>4, <1>6, <2>1, <2>3, <2>4, <3>1 DEF Roomier, SocketMade
    <3> QED
      BY <3>2 DEF s
  <2>5. CASE ~NetEncodes(i)
    <3>1. i = NET_REFS
      BY <1>3, <1>5, <2>5, NetAssumption
    <3>2. \A j \in Open(taken.net) : j <= NET_REFS
      BY <1>2, <2>1, <2>3, <3>1, NetAssumption DEF LowConns, Open, NetSlots, IsNetConn
    <3>3. SocketMade(m, s, words)
      BY <1>1, <1>4, <1>6, <2>1, <2>3, <2>5, <2>6, <3>1, <3>2 DEF Roomier, SocketMade
    <3> QED
      BY <3>3 DEF s
  <2> QED
    BY <2>4, <2>5
<1>7. CASE ~room.ok
  <2>1. SocketMade(m, s, words)
    BY <1>1, <1>2, <1>4, <1>7 DEF Roomier, SocketMade
  <2> QED
    BY <2>1 DEF s
<1> QED
  BY <1>6, <1>7

(* destroy_ijvm_now in the middle of a creation: the memory is freed, or   *)
(* the one connection too many is all that stays open.                     *)
LEMMA DestroyedIInv ==
    ASSUME IInv, UNCHANGED program, next_op_wide' \in BOOLEAN, NEW m, NEW s, NEW words,
           SocketMade(m, s, words), ~s.r.ok, \A i \in Claimed(m.mem) : i < ARRAYS_MAX_NUM,
           Destroy(s.r)
    PROVE  IInv'
<1> DEFINE net == s.r.net
           closed == ClosedBelow(net)
<1>0. IsMachine(s.r) /\ IsNetConn(net) /\ NET_REFS \in Nat /\ net.size \in Nat
  BY NetAssumption DEF SocketMade, IsMachine, IsNetConn
<1>1. \A i \in Open(net) : i \in Nat
  BY <1>0 DEF Open, NetSlots
<1>2. CASE CanDestroy(net)
  BY <1>2, DestroyIInv DEF Destroy
<1>3. CASE ~CanDestroy(net)
  <2>1. DestroyRecursively(s.r)
    BY <1>3 DEF Destroy
  <2>2. /\ NET_REFS \in Open(net) /\ \A i \in Open(net) : i <= NET_REFS
        /\ Claimed(s.r.mem) \subseteq Claimed(m.mem)
    <3>1. LowConns(net) => CanDestroy(net)
      BY <1>0, <1>1, FirstUnencoded DEF LowConns, CanDestroy
    <3> QED
      BY <1>3, <3>1 DEF SocketMade
  <2>3. \A i \in Open(net) : NetEncodes(i) <=> i < NET_REFS
    BY <1>1, <2>2, FirstUnencoded
  <2> DEFINE below(i) == \A j \in Open(net) : j <= i => NetEncodes(j)
             socks == [i \in NetSlots(net) |-> IF below(i) THEN "free" ELSE net.socks[i]]
  <2>4. /\ closed.size = net.size /\ closed.socks = socks
        /\ closed \in [size : Nat, socks : {closed.socks}]
    BY <1>0 DEF ClosedBelow, IsNetConn
  <2>5. socks \in [NetSlots(net) -> SockStates]
    BY <1>0 DEF IsNetConn, SockStates
  <2> HIDE DEF closed
  <2>6. IsNetConn(closed) /\ NetSlots(closed) = NetSlots(net)
    BY <2>4, <2>5 DEF IsNetConn, NetSlots
  <2>7. \A i \in NetSlots(net) :
           i \in Open(net) => (below(i) <=> i # NET_REFS)
    BY <1>0, <1>1, <2>2, <2>3
  <2>8. Open(closed) = {NET_REFS}
    BY <2>2, <2>4, <2>6, <2>7 DEF Open
  <2>9. /\ status' = "recursing" /\ arr_mem' = s.r.mem /\ net_conn' = closed
        /\ element_creations' = s.r.creations /\ cpu' = cpu
    BY <2>1 DEF DestroyRecursively, closed
  <2>10. IsArrMem(s.r.mem) /\ s.r.creations \in 0 .. GC_PERIOD
    BY <1>0 DEF IsMachine
  <2>11. LowIndexes'
    BY <2>2, <2>8, <2>9 DEF LowIndexes
  <2> QED
    BY <2>6, <2>9, <2>10, <2>11 DEF IInv, TypeOK, RegistersInStack
<1> QED
  BY <1>2, <1>3

LEMMA NetRefIsWord ==
    ASSUME NEW i \in 0 .. NET_REFS - 1
    PROVE  net_index_to_ref(i) \in Word /\ net_ref_to_index(net_index_to_ref(i)) = i
<1> DEFINE last == NET_REF_BASE + 16 * (NET_REFS - 1)
<1>1. /\ NET_REF_BASE \in Int /\ NET_REF_BASE >= WordMin
      /\ last \in Int /\ last <= WordMax
  BY NetAssumption DEF Word
<1>2. i \in Int /\ 0 <= i /\ i <= NET_REFS - 1 /\ NET_REFS \in Int
  BY NetAssumption
<1>3. i % NET_REFS = i
  <2>1. NET_REFS \in Nat \ {0} /\ i < NET_REFS
    BY <1>2, NetAssumption
  <2> QED
    BY <1>2, <2>1
<1>4. net_index_to_ref(i) \in Int /\ net_index_to_ref(i) <= last
      /\ net_index_to_ref(i) >= NET_REF_BASE
  BY <1>1, <1>2, <1>3 DEF net_index_to_ref
<1>5. net_index_to_ref(i) \in Word
  BY <1>1, <1>4, WordMaxAssumption DEF Word, WordMin
<1>6. net_ref_to_index(net_index_to_ref(i)) = i
  BY <1>1, <1>2, <1>3 DEF net_index_to_ref, net_ref_to_index
<1> QED
  BY <1>5, <1>6

LEMMA ConnectIInv ==
    ASSUME IInv, NEW op, Fetch(op), NEW m, Good(m), NEW flag \in SockStates,
           Connect(m, flag)
    PROVE  IInv'
<1>1. PICK junk \in Junk :
         \E s \in {socket_create(m, refusals, GcWords(m.cpu, junk)) :
                     refusals \in Refusals} :
            IF s.r.ok
            THEN \/ Pushing(s.r, 0)
                 \/ Pushing([s.r EXCEPT !.net.socks[s.sock] = flag],
                            net_index_to_ref(s.sock))
            ELSE Destroy(s.r)
  BY DEF Connect
<1>2. PICK s \in {socket_create(m, refusals, GcWords(m.cpu, junk)) :
                     refusals \in Refusals} :
            IF s.r.ok
            THEN \/ Pushing(s.r, 0)
                 \/ Pushing([s.r EXCEPT !.net.socks[s.sock] = flag],
                            net_index_to_ref(s.sock))
            ELSE Destroy(s.r)
  BY <1>1
<1>3. SocketMade(m, s, GcWords(m.cpu, junk))
  BY <1>2, SocketCreate DEF Good, Encodable, LowConns, Fetch
<1>4. CASE s.r.ok
  <2> DEFINE new == [s.r EXCEPT !.net.socks[s.sock] = flag]
  <2>1. /\ IsMachine(new) /\ new.ok = s.r.ok /\ new.cpu = s.r.cpu
        /\ new.mem = s.r.mem /\ Open(new.net) \subseteq Open(s.r.net) \cup {s.sock}
    <3>1. SockBecomes(s.r, new, s.sock, flag)
      BY DEF SockBecomes
    <3> HIDE DEF new
    <3>2. IsMachine(s.r) /\ s.sock \in NetSlots(s.r.net)
      BY <1>3, <1>4 DEF SocketMade
    <3> QED
      BY <3>1, <3>2, SockSet
  <2>2. s.sock \in 0 .. NET_REFS - 1 /\ s.sock < NET_REFS
    BY <1>3, <1>4, NetAssumption DEF SocketMade
  <2>3. Good(s.r)
    BY <1>3, <1>4, <2>2 DEF SocketMade, Good, Encodable
  <2>4. Pushing(s.r, 0) \/ Pushing(new, net_index_to_ref(s.sock))
    BY <1>2, <1>4
  <2> HIDE DEF new
  <2>5. Good(new)
    BY <2>1, <2>2, <2>3 DEF Good, Encodable
  <2>6. 0 \in Word /\ net_index_to_ref(s.sock) \in Word
    BY <2>2, NetRefIsWord, WordMaxAssumption DEF Word, WordMin
  <2> QED
    BY <2>3, <2>4, <2>5, <2>6, PushingIInv
<1>5. CASE ~s.r.ok
  <2>1. Destroy(s.r) /\ \A i \in Claimed(m.mem) : i < ARRAYS_MAX_NUM
    BY <1>2, <1>5 DEF Good, Encodable
  <2> QED
    BY <1>3, <1>5, <2>1, FetchStays, DestroyedIInv
<1> QED
  BY <1>4, <1>5

LEMMA ConnectsIInv ==
    ASSUME IInv, exec_op_netbind \/ exec_op_netconnect
    PROVE  IInv'
<1>1. CASE exec_op_netbind /\ CanPop(1)
  <2> DEFINE m == Advanced(0, 1)
  <2>1. cpu.sp - 1 >= -1
    BY <1>1, OperandsInStack
  <2>2. Good(m)
    BY <2>1, AdvancedIsGood
  <2>3. Connect(m, "server")
    BY <1>1 DEF exec_op_netbind
  <2> HIDE DEF m
  <2> QED
    BY <1>1, <2>2, <2>3, ConnectIInv DEF exec_op_netbind, SockStates
<1>2. CASE exec_op_netconnect /\ CanPop(2)
  <2> DEFINE m == Advanced(0, 2)
  <2>1. cpu.sp - 2 >= -1
    BY <1>2, OperandsInStack
  <2>2. Good(m)
    BY <2>1, AdvancedIsGood
  <2>3. Connect(m, "client")
    BY <1>2 DEF exec_op_netconnect
  <2> HIDE DEF m
  <2> QED
    BY <1>2, <2>2, <2>3, ConnectIInv DEF exec_op_netconnect, SockStates
<1> QED
  BY <1>1, <1>2, RefusedIInv DEF exec_op_netbind, exec_op_netconnect

LEMMA NetinIInv == ASSUME IInv, exec_op_netin PROVE IInv'
<1>1. CASE DestroyNow
  BY <1>1, RefusedIInv DEF exec_op_netin
<1>2. CASE CanPop(1) /\ \E c \in Chars : Pushing(Advanced(0, 1), Signed8(c))
  <2>1. PICK c \in Chars : Pushing(Advanced(0, 1), Signed8(c))
    BY <1>2
  <2>2. Chars \subseteq Byte
    BY MachineAssumption
  <2>3. Signed8(c) \in Word
    BY <2>2, Signed8Word
  <2>4. cpu.sp - 1 >= -1
    BY <1>2, OperandsInStack
  <2> QED
    BY <2>1, <2>3, <2>4, AdvancingPushIInv DEF exec_op_netin
<1> QED
  BY <1>1, <1>2 DEF exec_op_netin

LEMMA NetoutIInv == ASSUME IInv, exec_op_netout PROVE IInv'
<1>1. CASE DestroyNow
  BY <1>1, RefusedIInv DEF exec_op_netout
<1>2. CASE CanPop(2) /\ Become(Advanced(0, 2))
  BY <1>2, OperandsInStack, AdvancingIInv DEF exec_op_netout
<1> QED
  BY <1>1, <1>2 DEF exec_op_netout

LEMMA NetcloseIInv == ASSUME IInv, exec_op_netclose PROVE IInv'
<1> DEFINE m == Advanced(0, 1)
           i == net_ref_to_index(Top(1))
           new == [m EXCEPT !.net.socks[i] = "free"]
<1>1. CASE CanPop(1) /\ IsConn(net_conn, Top(1))
  <2>1. cpu.sp - 1 >= -1
    BY <1>1, OperandsInStack
  <2>2. Good(m) /\ m.net = net_conn /\ m.cpu.sp < m.cpu.stack_size
    BY <2>1, AdvancedIsGood
  <2>3. i \in Open(net_conn) /\ i \in NetSlots(net_conn)
    BY <1>1 DEF IsConn, Open
  <2>4. Become(new)
    BY <1>1 DEF exec_op_netclose, Ending
  <2> HIDE DEF m, i
  <2>5. /\ IsMachine(new) /\ new.cpu = m.cpu /\ new.mem = m.mem
        /\ Open(new.net) \subseteq Open(m.net) \cup {i}
    <3>1. SockBecomes(m, new, i, "free")
      BY DEF SockBecomes
    <3> HIDE DEF new
    <3> QED
      <4>1. IsMachine(m) /\ i \in NetSlots(m.net) /\ "free" \in SockStates
        BY <2>2, <2>3 DEF Good, SockStates
      <4> QED
        BY <3>1, <4>1, SockSet
  <2> HIDE DEF new
  <2>6. Good(new) /\ new.cpu.sp < new.cpu.stack_size
    BY <2>2, <2>3, <2>5 DEF Good, Encodable
  <2> QED
    BY <2>4, <2>6, BecomeIInv DEF exec_op_netclose
<1> QED
  BY <1>1, RefusedIInv DEF exec_op_netclose, Ending

-----------------------------------------------------------------------------
(* Every step                                                              *)

LEMMA StepIInv ==
    ASSUME IInv, Step
    PROVE  IInv'
<1>1. CASE \/ exec_op_iadd \/ exec_op_isub \/ exec_op_iand \/ exec_op_ior
  BY <1>1, BinaryIInv DEF exec_op_iadd, exec_op_isub, exec_op_iand, exec_op_ior
<1>2. CASE \/ exec_op_ifeq \/ exec_op_iflt \/ exec_op_icmpeq
  BY <1>2, BranchIInv DEF exec_op_ifeq, exec_op_iflt, exec_op_icmpeq
<1> QED
  BY <1>1, <1>2, NopIInv, BipushIInv, LdcIInv, IloadIInv, IstoreIInv, PopIInv,
     DupIInv, SwapIInv, IincIInv, GotoIInv, IreturnIInv, InvokeIInv, WideIInv,
     InIInv, FlagsIInv, NewarrayIInv, IaloadIInv, IastoreIInv, GcIInv,
     ConnectsIInv, NetinIInv, NetoutIInv, NetcloseIInv
  DEF Step

LEMMA NextIInv == IInv /\ [Next]_vars => IInv'
<1> SUFFICES ASSUME IInv, [Next]_vars PROVE IInv'
  OBVIOUS
<1>1. CASE RunReturns \/ Over \/ UNCHANGED vars
  BY <1>1 DEF RunReturns, Over, vars, IInv, TypeOK, RegistersInStack, LowIndexes
<1> QED
  BY <1>1, StepIInv DEF Next, RunStep

-----------------------------------------------------------------------------
(* What init_ijvm leaves behind                                            *)

(* Where a round of the scan of main stands. *)
ScanShape(s) ==
    s \in [i : Nat, next_wide : BOOLEAN, first : Int, var_num : Nat, ok : BOOLEAN]
IsScan(s) == ScanShape(s) /\ s.var_num <= 32768

LEMMA ScanStartIsScan == IsScan(ScanStart)
BY WordMaxAssumption DEF IsScan, ScanShape, ScanStart, NoMethod

(* What follows the code in memory is two bytes long. *)
LEMMA MemoryIsBytes ==
    ASSUME NEW code \in Seq(Byte), NEW behind \in [1 .. 2 -> Byte]
    PROVE  /\ code \o behind \in Seq(Byte)
           /\ Len(code \o behind) = Len(code) + 2
           /\ Len(code) \in Nat
<1>1. behind = [i \in 1 .. 2 |-> behind[i]] /\ \A i \in 1 .. 2 : behind[i] \in Byte
  OBVIOUS
<1>2. [i \in 1 .. 2 |-> behind[i]] \in Seq(Byte)
  BY <1>1, IsASeq
<1>3. behind \in Seq(Byte) /\ Len(behind) = 2
  BY <1>1, <1>2, LenProperties
<1>4. code \o behind \in Seq(Byte) /\ Len(code \o behind) = Len(code) + Len(behind)
  BY <1>3, ConcatProperties
<1> QED
  BY <1>3, <1>4, LenProperties

WideSeen(s, t, i) == t = [s EXCEPT !.i = i, !.next_wide = TRUE]

VariableSeen(s, t, i, num) ==
    t = [s EXCEPT !.i = i, !.next_wide = FALSE, !.var_num = num]

LEMMA WideSeenShape ==
    ASSUME NEW s, ScanShape(s), NEW i \in Nat, NEW t, WideSeen(s, t, i)
    PROVE  ScanShape(t) /\ t.var_num = s.var_num
BY DEF ScanShape, WideSeen

LEMMA VariableSeenShape ==
    ASSUME NEW s, ScanShape(s), NEW i \in Nat, NEW num \in Nat,
           NEW t, VariableSeen(s, t, i, num)
    PROVE  ScanShape(t) /\ t.var_num = num
BY DEF ScanShape, VariableSeen

LEMMA ScanCallIsScan ==
    ASSUME NEW code, NEW memory, NEW consts \in Seq(Word), NEW s, ScanShape(s),
           Len(code) \in Nat
    PROVE  /\ ScanShape(ScanCall(s, code, memory, consts))
           /\ ScanCall(s, code, memory, consts).var_num = s.var_num
<1> DEFINE c == ShortAt(memory, s.i + 1)
           address == consts[c + 1]
           first == IF address > 0 /\ address < s.first /\ address < Len(code)
                    THEN address ELSE s.first
           i == s.i + 3
<1>1. CASE c \in 0 .. Len(consts) - 1
  <2>1. address \in Word
    <3>1. c + 1 \in 1 .. Len(consts)
      BY <1>1, LenProperties
    <3> QED
      BY <3>1, ElementOfSeq
  <2>2. ScanCall(s, code, memory, consts) = [s EXCEPT !.i = i, !.first = first]
    BY <1>1 DEF ScanCall
  <2>3. first \in Int
    BY <2>1 DEF ScanShape, Word
  <2>4. i \in Nat
    BY DEF ScanShape
  <2> DEFINE r == ScanCall(s, code, memory, consts)
  <2> HIDE DEF first, i, r
  <2>5. r = [s EXCEPT !.i = i, !.first = first]
    BY <2>2 DEF r
  <2>6. ScanShape(r) /\ r.var_num = s.var_num
    BY <2>3, <2>4, <2>5 DEF ScanShape
  <2> QED
    BY <2>6 DEF r
<1>2. CASE ~(c \in 0 .. Len(consts) - 1)
  <2>1. ScanCall(s, code, memory, consts) = [s EXCEPT !.ok = FALSE]
    BY <1>2 DEF ScanCall
  <2> QED
    BY <2>1 DEF ScanShape
<1> QED
  BY <1>1, <1>2

(* One round; it reads at most two bytes behind the code. *)
LEMMA ScanRoundIsScan ==
    ASSUME NEW code, Len(code) \in Nat, NEW consts \in Seq(Word),
           NEW memory \in Seq(Byte), Len(memory) = Len(code) + 2,
           NEW s, IsScan(s), s.i < Len(code)
    PROVE  IsScan(ScanRound(s, code, memory, consts))
<1> DEFINE op == At(memory, s.i)
           wide == ShortAt(memory, s.i + 1)
           narrow == At(memory, s.i + 1)
           r == ScanRound(s, code, memory, consts)
<1>0. ScanShape(s) /\ s.i \in Nat /\ s.var_num \in Nat /\ s.var_num <= 32768
  BY DEF IsScan, ScanShape
<1>1. At(memory, s.i) \in Byte /\ At(memory, s.i + 1) \in Byte
      /\ At(memory, s.i + 1 + 1) \in Byte
  <2>1. /\ s.i + 1 \in 1 .. Len(memory) /\ s.i + 1 + 1 \in 1 .. Len(memory)
        /\ s.i + 1 + 1 + 1 \in 1 .. Len(memory)
    BY <1>0
  <2> QED
    BY <2>1, ElementOfSeq DEF At
<1>2. /\ wide \in Int /\ wide <= 32767 /\ narrow \in Int /\ narrow <= 255
  <2>1. wide \in Int /\ wide <= 32767
    BY <1>1, ShortRange DEF ShortAt
  <2>2. narrow \in 0 .. 255
    BY <1>1 DEF Byte
  <2> HIDE DEF wide, narrow
  <2> QED
    BY <2>1, <2>2
<1>3. CASE op = OP_WIDE
  <2> DEFINE i == s.i + 1
  <2>1. r = [s EXCEPT !.i = i, !.next_wide = TRUE]
    BY <1>3 DEF ScanRound, OP_WIDE, OP_INVOKEVIRTUAL, VariableOps, OP_ILOAD,
                OP_ISTORE, OP_IINC
  <2>2. i \in Nat
    BY <1>0
  <2> HIDE DEF i, r
  <2>3. ScanShape(r) /\ r.var_num = s.var_num
    <3>1. WideSeen(s, r, i)
      BY <2>1 DEF WideSeen
    <3> QED
      BY <1>0, <2>2, <3>1, WideSeenShape
  <2>4. IsScan(r)
    BY <1>0, <2>3 DEF IsScan
  <2> QED
    BY <2>4 DEF r
<1>4. CASE op = OP_INVOKEVIRTUAL
  <2>1. r = ScanCall(s, code, memory, consts)
    BY <1>4 DEF ScanRound, OP_WIDE, OP_INVOKEVIRTUAL, VariableOps, OP_ILOAD,
                OP_ISTORE, OP_IINC
  <2> HIDE DEF r
  <2>2. IsScan(r)
    BY <1>0, <2>1, ScanCallIsScan DEF IsScan
  <2> QED
    BY <2>2 DEF r
<1>5. CASE op \in VariableOps
  <2> DEFINE index == IF s.next_wide THEN wide ELSE narrow
             i == s.i + (IF s.next_wide THEN 3 ELSE 2)
                      + (IF op = OP_IINC THEN 1 ELSE 0)
             num == IF index + 1 > s.var_num THEN index + 1 ELSE s.var_num
  <2>1. op # OP_WIDE /\ op # OP_INVOKEVIRTUAL
    BY <1>5 DEF OP_WIDE, OP_INVOKEVIRTUAL, VariableOps, OP_ILOAD, OP_ISTORE, OP_IINC
  <2>2. r = ScanVariable(s, memory)
    BY <1>5, <2>1 DEF ScanRound
  <2>3. ScanVariable(s, memory) =
           [s EXCEPT !.i = i, !.next_wide = FALSE, !.var_num = num]
    BY <1>0 DEF ScanVariable
  <2>4. index \in Int /\ index <= 32767
    BY <1>2
  <2> HIDE DEF index
  <2>5. num \in Nat /\ num <= 32768
    BY <1>0, <2>4
  <2>6. i \in Nat
    BY <1>0
  <2> HIDE DEF i, num, r
  <2>7. ScanShape(r) /\ r.var_num = num
    <3>1. VariableSeen(s, r, i, num)
      BY <2>2, <2>3 DEF VariableSeen
    <3> QED
      BY <1>0, <2>5, <2>6, <3>1, VariableSeenShape
  <2>8. IsScan(r)
    BY <2>5, <2>7 DEF IsScan
  <2> QED
    BY <2>8 DEF r
<1>6. CASE op \notin VariableOps /\ op # OP_WIDE /\ op # OP_INVOKEVIRTUAL
  <2> DEFINE i == s.i + 1 + ArgBytes(op)
  <2>1. r = [s EXCEPT !.i = i]
    BY <1>6 DEF ScanRound
  <2>2. ArgBytes(op) \in Nat
    BY DEF ArgBytes
  <2>3. i \in Nat
    BY <1>0, <2>2
  <2> HIDE DEF i, r
  <2>4. ScanShape(r) /\ r.var_num = s.var_num
    BY <1>0, <2>1, <2>3 DEF ScanShape
  <2>5. IsScan(r)
    BY <1>0, <2>4 DEF IsScan
  <2> QED
    BY <2>5 DEF r
<1> QED
  BY <1>3, <1>4, <1>5, <1>6

(* The state after each round, as a function of the number of rounds. *)
ScanRounds(code, memory, consts, m, f) ==
    f = [n \in 0 .. m |->
            IF n = 0 THEN ScanStart
            ELSE LET s == f[n - 1]
                 IN  IF ScanOver(s, code) THEN s
                     ELSE ScanRound(s, code, memory, consts)]

(* There is such a function, whatever a round does. *)
LEMMA ScanRoundsExist ==
    ASSUME NEW code, NEW memory, NEW consts, NEW m \in Nat
    PROVE  \E f : ScanRounds(code, memory, consts, m, f)
<1> DEFINE Round(s) == IF ScanOver(s, code) THEN s
                       ELSE ScanRound(s, code, memory, consts)
           Rounds(f, n) == f = [k \in 0 .. n |-> IF k = 0 THEN ScanStart ELSE Round(f[k - 1])]
           bad == {n \in Nat : ~ \E f : Rounds(f, n)}
<1>1. ASSUME bad # {} PROVE FALSE
  <2>1. PICK n \in bad : \A k \in bad : n <= k
    BY <1>1, LeastElement
  <2>2. CASE n = 0
    <3> DEFINE f == [k \in 0 .. 0 |-> ScanStart]
    <3>1. Rounds(f, 0)
      OBVIOUS
    <3> QED
      BY <2>1, <2>2, <3>1
  <2>3. CASE n # 0
    <3>1. n - 1 \in Nat /\ ~(n <= n - 1) /\ n \in Nat
      BY <2>1, <2>3
    <3>2. PICK f : Rounds(f, n - 1)
      BY <2>1, <3>1
    <3> HIDE DEF Round
    <3> DEFINE g == [k \in 0 .. n |-> IF k = n THEN Round(f[n - 1]) ELSE f[k]]
    <3>3. \A k \in 0 .. n : k # n => k \in 0 .. n - 1
      BY <3>1
    <3>4. \A k \in 0 .. n - 1 : f[k] = IF k = 0 THEN ScanStart ELSE Round(f[k - 1])
      BY <3>2
    <3>5. \A k \in 0 .. n : k # 0 => k - 1 \in 0 .. n /\ k - 1 # n
      BY <3>1
    <3>6. \A k \in 0 .. n : g[k] = IF k = 0 THEN ScanStart ELSE Round(g[k - 1])
      BY <2>3, <3>1, <3>3, <3>4, <3>5
    <3>7. Rounds(g, n)
      BY <3>6
    <3> QED
      BY <2>1, <3>7
  <2> QED
    BY <2>2, <2>3
<1> QED
  BY <1>1 DEF ScanRounds

(* Every round leaves a state of the scan; so main never has more than     *)
(* 32768 local variables (init.c:24-130).                                  *)
LEMMA RoundsAreScans ==
    ASSUME NEW code, Len(code) \in Nat, NEW consts \in Seq(Word),
           NEW memory \in Seq(Byte), Len(memory) = Len(code) + 2,
           NEW f, ScanRounds(code, memory, consts, Len(code), f)
    PROVE  \A n \in 0 .. Len(code) : IsScan(f[n])
<1> DEFINE bad == {n \in 0 .. Len(code) : ~IsScan(f[n])}
<1>0. f = [n \in 0 .. Len(code) |->
              IF n = 0 THEN ScanStart
              ELSE LET s == f[n - 1]
                   IN  IF ScanOver(s, code) THEN s
                       ELSE ScanRound(s, code, memory, consts)]
  BY DEF ScanRounds
<1>1. ASSUME bad # {} PROVE FALSE
  <2>1. bad \in SUBSET Nat
    OBVIOUS
  <2>2. PICK n \in bad : \A k \in bad : n <= k
    BY <1>1, <2>1, LeastElement
  <2>3. n \in 0 .. Len(code) /\ ~IsScan(f[n])
    OBVIOUS
  <2>4. CASE n = 0
    <3>1. f[0] = ScanStart
      BY <1>0, <2>3, <2>4
    <3> QED
      BY <2>3, <2>4, <3>1, ScanStartIsScan
  <2>5. CASE n # 0
    <3> DEFINE s == f[n - 1]
    <3>1. n - 1 \in 0 .. Len(code) /\ ~(n <= n - 1)
      BY <2>3, <2>5
    <3>2. IsScan(s)
      BY <2>2, <3>1
    <3>3. f[n] = IF ScanOver(s, code) THEN s
                 ELSE ScanRound(s, code, memory, consts)
      BY <1>0, <2>3, <2>5
    <3> HIDE DEF s
    <3>4. ~ScanOver(s, code) => s.i < Len(code)
      BY <3>2 DEF ScanOver, IsScan, ScanShape
    <3>5. IsScan(f[n])
      BY <3>2, <3>3, <3>4, ScanRoundIsScan
    <3> QED
      BY <2>3, <3>5
  <2> QED
    BY <2>4, <2>5
<1> QED
  BY <1>1

LEMMA MainScanIsScan ==
    ASSUME NEW code \in Seq(Byte), NEW consts \in Seq(Word),
           NEW behind \in [1 .. 2 -> Byte]
    PROVE  IsScan(get_num_local_vars_main(code, consts, behind))
<1> DEFINE memory == code \o behind
           after == CHOOSE f : ScanRounds(code, memory, consts, Len(code), f)
<1>1. memory \in Seq(Byte) /\ Len(memory) = Len(code) + 2 /\ Len(code) \in Nat
  BY MemoryIsBytes
<1>2. ScanRounds(code, memory, consts, Len(code), after)
  BY <1>1, ScanRoundsExist
<1>3. get_num_local_vars_main(code, consts, behind) = after[Len(code)]
  BY DEF get_num_local_vars_main, ScanRounds
<1> HIDE DEF memory, after
<1>4. Len(code) \in 0 .. Len(code)
  BY <1>1
<1> QED
  BY <1>1, <1>2, <1>3, <1>4, RoundsAreScans

(* There is a smallest stack that holds the frame of main.                 *)
LEMMA InitialSize ==
    ASSUME NEW vars_main \in Nat, vars_main <= 32768
    PROVE  LET sizes == InitialSizes(vars_main)
               size  == CHOOSE size \in sizes : \A n \in sizes : size <= n
           IN  size \in Nat /\ size <= WordMax /\ vars_main + 4 <= size
<1> DEFINE sizes == InitialSizes(vars_main)
           size  == CHOOSE size \in sizes : \A n \in sizes : size <= n
<1>1. \A n \in sizes : n \in Nat /\ n <= WordMax /\ vars_main + 4 <= n
  <2> SUFFICES ASSUME NEW n \in sizes
               PROVE  n \in Nat /\ n <= WordMax /\ vars_main + 4 <= n
    OBVIOUS
  <2>1. PICK k \in StackFactors : n = STACK_MIN_SIZE * k
    BY DEF InitialSizes
  <2>2. vars_main + OPERAND_MARGIN <= n
    BY DEF InitialSizes
  <2>3. /\ STACK_MIN_SIZE \in Nat /\ OPERAND_MARGIN \in Nat /\ OPERAND_MARGIN >= 4
        /\ 373248 * STACK_MIN_SIZE <= WordMax /\ WordMax \in Nat
    BY MachineAssumption, WordMaxAssumption
  <2>4. n \in Nat /\ n <= 373248 * STACK_MIN_SIZE
    BY <2>1, <2>3 DEF StackFactors
  <2> QED
    BY <2>2, <2>3, <2>4
<1>2. sizes # {}
  <2>1. PICK n \in InitialSizes(32768) : TRUE
    BY MachineAssumption
  <2>2. n \in {STACK_MIN_SIZE * k : k \in StackFactors} /\ 32768 + OPERAND_MARGIN <= n
    BY DEF InitialSizes
  <2>3. PICK k \in StackFactors : n = STACK_MIN_SIZE * k
    BY <2>2
  <2>4. STACK_MIN_SIZE \in Nat /\ OPERAND_MARGIN \in Nat
    BY MachineAssumption
  <2>5. n \in Int
    BY <2>3, <2>4 DEF StackFactors
  <2>6. vars_main + OPERAND_MARGIN <= n
    BY <2>2, <2>4, <2>5
  <2> QED
    BY <2>2, <2>6 DEF InitialSizes
<1>3. \E n \in sizes : \A k \in sizes : n <= k
  BY <1>1, <1>2, LeastElement
<1>4. size \in sizes
  BY <1>3
<1> QED
  BY <1>1, <1>4

(* The machine that init_ijvm leaves behind.                               *)
FreshCpu(c) ==
    /\ c \in [pc : Nat, sp : Int, lv : Nat, nv : 0 .. WordMax, fp : Nat,
              stack_size : 0 .. WordMax, stack : {c.stack},
              error_flag : BOOLEAN, halt_flag : BOOLEAN]
    /\ c.stack \in [0 .. c.stack_size - 1 -> Word]
    /\ c.pc = 0 /\ c.lv = 0 /\ c.fp = c.nv /\ c.sp = c.nv - 1
    /\ c.nv < c.stack_size
    /\ c.error_flag = FALSE /\ c.halt_flag = FALSE
    /\ \A k \in 0 .. c.nv - 1 : c.stack[k] = 0

LEMMA FreshMachine ==
    ASSUME NEW p \in Programs, NEW r \in init_ijvm(p)
    PROVE  FreshCpu(r.cpu) /\ r.status \in {"running", "destroyed"}
<1>1. PICK behind \in [1 .. 2 -> JunkBytes] :
         r \in Resets(get_num_local_vars_main(p.code, p.consts, behind))
  BY DEF init_ijvm
<1> DEFINE scan == get_num_local_vars_main(p.code, p.consts, behind)
           vars_main == scan.var_num
           size == CHOOSE size \in InitialSizes(vars_main) :
                       \A n \in InitialSizes(vars_main) : size <= n
<1>2. p.code \in Seq(Byte) /\ p.consts \in Seq(Word)
  BY MachineAssumption
<1>3. behind \in [1 .. 2 -> Byte]
  <2>1. JunkBytes \subseteq Byte
    BY MachineAssumption
  <2> QED
    BY <2>1
<1>4. IsScan(scan)
  BY <1>2, <1>3, MainScanIsScan
<1>5. PICK junk \in Junk :
         r = [cpu    |-> InitialCpu(vars_main, size, junk),
              status |-> IF scan.ok THEN "running" ELSE "destroyed"]
  BY <1>1 DEF Resets
<1> HIDE DEF scan
<1>6. vars_main \in Nat /\ vars_main <= 32768
  BY <1>4 DEF IsScan, ScanShape
<1> HIDE DEF vars_main
<1>7. size \in Nat /\ size <= WordMax /\ vars_main + 4 <= size
  BY <1>6, InitialSize
<1> HIDE DEF size
<1> DEFINE c == r.cpu
           below == vars_main - 1
           words == 0 .. WordMax
<1>8. c = InitialCpu(vars_main, size, junk) /\ r.status \in {"running", "destroyed"}
  BY <1>5
<1> HIDE DEF c
<1>9. [k \in 0 .. size - 1 |-> IF k < vars_main THEN 0 ELSE junk]
         \in [0 .. size - 1 -> Word]
  BY JunkIsWord, WordMaxAssumption DEF Word, WordMin
<1>10. /\ c.stack \in [0 .. c.stack_size - 1 -> Word]
       /\ c.stack_size = size /\ c.sp = below /\ c.lv = 0
       /\ c.fp = vars_main /\ c.nv = vars_main /\ c.pc = 0
       /\ c.error_flag = FALSE /\ c.halt_flag = FALSE
       /\ c.stack = [k \in 0 .. size - 1 |-> IF k < vars_main THEN 0 ELSE junk]
  BY <1>8, <1>9 DEF InitialCpu
<1>11. /\ 0 \in Nat /\ below \in Int /\ vars_main \in Nat
       /\ vars_main \in words /\ size \in words /\ vars_main < size
  BY <1>6, <1>7, WordMaxAssumption
<1>12. c \in [pc : {0}, sp : {below}, lv : {0}, nv : {vars_main}, fp : {vars_main},
               stack_size : {size}, stack : {c.stack},
               error_flag : {FALSE}, halt_flag : {FALSE}]
  BY <1>8 DEF InitialCpu
<1>13. c \in [pc : Nat, sp : Int, lv : Nat, nv : words, fp : Nat,
               stack_size : words, stack : {c.stack},
               error_flag : BOOLEAN, halt_flag : BOOLEAN]
  <2> HIDE DEF below, words
  <2> QED
    BY <1>11, <1>12
<1>14. \A k \in 0 .. vars_main - 1 : c.stack[k] = 0
  <2>1. \A k \in 0 .. vars_main - 1 : k \in 0 .. size - 1 /\ k < vars_main
    BY <1>6, <1>7
  <2> QED
    BY <1>10, <2>1
<1>15. FreshCpu(c)
  BY <1>10, <1>11, <1>13, <1>14 DEF FreshCpu
<1> QED
  BY <1>8, <1>15 DEF c

LEMMA InitIInv == Init => IInv
<1> SUFFICES ASSUME Init PROVE IInv
  OBVIOUS
<1>1. /\ program \in Programs /\ next_op_wide = FALSE /\ arr_mem = NoArrays
      /\ element_creations = 0 /\ net_conn = NoConns
  BY DEF Init
<1>2. FreshCpu(cpu) /\ status \in {"running", "destroyed"}
  BY FreshMachine DEF Init
<1>3. program \in [code : Seq(Byte), consts : Seq(Word)]
  BY <1>1, MachineAssumption
<1>4. element_creations \in 0 .. GC_PERIOD
  BY <1>1, ArrayAssumption
<1>5. IsArrMem(arr_mem) /\ IsNetConn(net_conn)
  BY <1>1, RefusedArrays
<1>6. TypeOK
  BY <1>1, <1>2, <1>3, <1>4, <1>5 DEF TypeOK, FreshCpu
<1>7. RegistersInStack
  <2>1. /\ cpu.nv \in Nat /\ cpu.stack_size \in Nat /\ cpu.sp = cpu.nv - 1
        /\ cpu.lv = 0 /\ cpu.fp = cpu.nv /\ cpu.nv < cpu.stack_size
    BY <1>2, WordMaxAssumption DEF FreshCpu
  <2> QED
    BY <2>1 DEF RegistersInStack
<1>8. LowIndexes
  <2>1. Claimed(arr_mem) = {} /\ Open(net_conn) = {} /\ status # "recursing"
    BY <1>1, <1>2, RefusedArrays
  <2> QED
    BY <2>1 DEF LowIndexes
<1> QED
  BY <1>1, <1>6, <1>7, <1>8 DEF IInv

(* The state keeps its shapes, whatever the program and the input.         *)
THEOREM MachineTypeCorrect == Spec => []TypeOK
BY InitIInv, NextIInv, PTL DEF Spec, IInv

(* No program, IRETURN through a forged link area included, moves sp, lv   *)
(* or fp out of the memory of the stack.                                   *)
THEOREM RegistersStayInStack == Spec => []RegistersInStack
BY InitIInv, NextIInv, PTL DEF Spec, IInv

(* Every array and every open connection is reached by its own reference,  *)
(* and a run that opens one too many leaves that one behind.               *)
THEOREM ReferencesStayDistinct == Spec => []RefsLeadBack
<1>1. IInv => RefsLeadBack
  <2> SUFFICES ASSUME IInv PROVE RefsLeadBack
    OBVIOUS
  <2>1. IsArrMem(arr_mem) /\ IsNetConn(net_conn)
    BY DEF IInv, TypeOK
  <2>2. \A i \in Claimed(arr_mem) : i \in 0 .. ARRAYS_MAX_NUM - 1
    BY <2>1, ArrayAssumption DEF IInv, LowIndexes, Claimed, Slots, IsArrMem
  <2>3. status # "recursing" => \A i \in Open(net_conn) : i \in 0 .. NET_REFS - 1
    BY <2>1, NetAssumption DEF IInv, LowIndexes, Open, NetSlots, IsNetConn
  <2>4. status = "recursing" => \E i \in NetSlots(net_conn) : Open(net_conn) = {i}
    BY DEF IInv, LowIndexes, Open
  <2> QED
    BY <2>2, <2>3, <2>4, RefOfIndex, NetRefIsWord DEF RefsLeadBack
<1> QED
  BY <1>1, InitIInv, NextIInv, PTL DEF Spec

-----------------------------------------------------------------------------
(* The collector inside the machine: whichever instruction makes room, and *)
(* whatever for, an array whose reference lies under the top of the stack  *)
(* before and after it survives with its elements (DeepArraysSurvive).     *)
(*                                                                         *)
(* The argument follows one machine through the instruction: DeepIn says   *)
(* that the words up to some index of the old stack are still where they   *)
(* were, and that the arrays they hold are still there.  Every push, every *)
(* allocation and every creation keeps it (Pushed, Collected, SocketMade   *)
(* and CreateResult say what they keep), and the words that UnderTheTop    *)
(* names are among them.                                                   *)

(* The words deep in the stack, up to an index.                            *)
DeepWords(top) == {cpu.stack[k] : k \in {j \in 0 .. cpu.sp - 2 : j <= top}}

DeepIn(m, top) ==
    /\ IsMachine(m)
    /\ m.ok => /\ Keeps(arr_mem, m.mem, DeepWords(top))
               /\ m.cpu.sp >= top
               /\ cpu.stack_size <= m.cpu.stack_size
               /\ \A k \in 0 .. cpu.sp - 2 : k <= top => m.cpu.stack[k] = cpu.stack[k]

(* What the words under the top hold survives the step.                    *)
ArraysKept == status' = "running" => Keeps(arr_mem, arr_mem', UnderTheTop)

(* DeepArraysSurvive of one step. *)
DeepArraysSurviveStep ==
    status' = "running" =>
        \A i \in Claimed(arr_mem) :
            index_to_ref(i) \in UnderTheTop =>
                /\ i \in Claimed(arr_mem')
                /\ Opcode(OP_IASTORE) \/ arr_mem'.values[i] = arr_mem.values[i]

(* An index under a reference in the words is held by them.                *)
LEMMA KeptSurvives ==
    ASSUME IInv, ArraysKept
    PROVE  DeepArraysSurviveStep
<1> SUFFICES ASSUME status' = "running", NEW i \in Claimed(arr_mem),
                    index_to_ref(i) \in UnderTheTop
             PROVE  i \in Claimed(arr_mem') /\ arr_mem'.values[i] = arr_mem.values[i]
  BY DEF DeepArraysSurviveStep
<1>1. i \in RefsIn(UnderTheTop)
  <2>1. i \in 0 .. ARRAYS_MAX_NUM - 1
    BY ArraysAreLow
  <2> QED
    BY <2>1, RefOfIndex DEF RefsIn, ArrRefs
<1> QED
  BY <1>1 DEF ArraysKept, Keeps, Held, Roots

LEMMA UnderTheTopIsDeep ==
    ASSUME IInv, NEW top \in Int, cpu'.sp \in Int, cpu'.sp - 2 <= top
    PROVE  UnderTheTop \subseteq DeepWords(top)
<1>1. \A j \in 0 .. cpu.sp - 2 : j <= cpu'.sp - 2 => j <= top
  <2>1. cpu.sp \in Int
    BY StackFacts
  <2> QED
    BY <2>1
<1> QED
  BY <1>1 DEF UnderTheTop, DeepWords

(* The instruction ends with a machine that has kept the words.            *)
LEMMA DeepBecome ==
    ASSUME IInv, NEW m, NEW top \in Int, DeepIn(m, top),
           m.ok => m.cpu.sp - 2 <= top, Become(m), status = "running"
    PROVE  ArraysKept
<1> SUFFICES ASSUME status' = "running" PROVE Keeps(arr_mem, arr_mem', UnderTheTop)
  BY DEF ArraysKept
<1>1. m.ok /\ cpu' = m.cpu /\ arr_mem' = m.mem
  BY DEF Become, DestroyNow
<1>2. m.cpu.sp \in Int
  BY DEF DeepIn, IsMachine, IsCpu
<1>3. UnderTheTop \subseteq DeepWords(top)
  BY <1>1, <1>2, UnderTheTopIsDeep
<1> QED
  BY <1>1, <1>3, KeepsByFewer DEF DeepIn

(* A push keeps the words, growth and collection included.                 *)
LEMMA DeepPushed ==
    ASSUME IInv, NEW m, NEW r, NEW w, NEW top \in Int, DeepIn(m, top), Pushed(m, r, w)
    PROVE  DeepIn(r, top)
<1> SUFFICES ASSUME r.ok
             PROVE  /\ Keeps(arr_mem, r.mem, DeepWords(top))
                    /\ r.cpu.sp >= top
                    /\ cpu.stack_size <= r.cpu.stack_size
                    /\ \A k \in 0 .. cpu.sp - 2 : k <= top => r.cpu.stack[k] = cpu.stack[k]
  BY DEF DeepIn, Pushed
<1>1. /\ m.ok /\ Keeps(arr_mem, m.mem, DeepWords(top))
      /\ m.cpu.sp >= top /\ cpu.stack_size <= m.cpu.stack_size
      /\ \A k \in 0 .. cpu.sp - 2 : k <= top => m.cpu.stack[k] = cpu.stack[k]
  BY DEF DeepIn, Pushed
<1>2. /\ m.cpu.sp \in Int /\ m.cpu.stack_size \in Nat
      /\ r.cpu.sp \in Int /\ r.cpu.stack_size \in Nat
  BY WordMaxAssumption DEF DeepIn, Pushed, IsMachine, IsCpu
<1>3. /\ r.cpu.sp = m.cpu.sp + 1 /\ m.cpu.stack_size <= r.cpu.stack_size
      /\ \A k \in 0 .. m.cpu.stack_size - 1 :
            k <= m.cpu.sp => r.cpu.stack[k] = m.cpu.stack[k]
      /\ Keeps(m.mem, r.mem, WordsUpTo(m.cpu, m.cpu.sp))
  BY DEF Pushed
<1>4. \A k \in 0 .. cpu.sp - 2 :
         k <= top => k \in 0 .. m.cpu.stack_size - 1 /\ k <= m.cpu.sp
  <2>1. cpu.sp \in Int /\ cpu.stack_size \in Nat /\ cpu.sp < cpu.stack_size
    BY StackFacts
  <2>2. SUFFICES ASSUME NEW k \in 0 .. cpu.sp - 2, k <= top
                 PROVE  k < m.cpu.stack_size /\ k <= m.cpu.sp
    BY <1>2
  <2>3. k \in Int /\ k < cpu.stack_size
    BY <2>1
  <2>4. m.cpu.sp >= top /\ cpu.stack_size <= m.cpu.stack_size
    BY <1>1
  <2> QED
    BY <1>2, <2>1, <2>2, <2>3, <2>4
<1>5. DeepWords(top) \subseteq WordsUpTo(m.cpu, m.cpu.sp)
  BY <1>1, <1>4 DEF DeepWords, WordsUpTo
<1>6. Keeps(arr_mem, r.mem, DeepWords(top))
  BY <1>1, <1>3, <1>5, KeepsByFewer, KeepsTransitive
<1>7. \A k \in 0 .. cpu.sp - 2 : k <= top => r.cpu.stack[k] = cpu.stack[k]
  BY <1>1, <1>3, <1>4
<1>8. r.cpu.sp >= top /\ cpu.stack_size <= r.cpu.stack_size
  <2>1. cpu.stack_size \in Nat
    BY StackFacts
  <2>2. m.cpu.sp >= top /\ cpu.stack_size <= m.cpu.stack_size
    BY <1>1
  <2>3. r.cpu.sp = m.cpu.sp + 1 /\ m.cpu.stack_size <= r.cpu.stack_size
    BY <1>3
  <2> QED
    BY <1>2, <2>1, <2>2, <2>3
<1> QED
  BY <1>6, <1>7, <1>8

(* The instruction ends with a push. *)
LEMMA DeepPushing ==
    ASSUME IInv, status = "running", NEW m, NEW w \in Word, NEW top \in Int,
           DeepIn(m, top), m.ok => m.cpu.sp - 1 <= top, Pushing(m, w)
    PROVE  ArraysKept
<1>1. PICK r \in stack_push(m, w) : Become(r)
  BY DEF Pushing
<1>2. Pushed(m, r, w)
  BY <1>1, StackPush DEF DeepIn
<1>3. DeepIn(r, top)
  BY <1>2, DeepPushed
<1>4. r.ok => r.cpu.sp - 2 <= top
  <2>1. m.cpu.sp \in Int
    BY DEF DeepIn, IsMachine, IsCpu
  <2> QED
    BY <1>2, <2>1 DEF Pushed
<1> QED
  BY <1>1, <1>3, <1>4, DeepBecome

(* The machine after the opcode, its argument and its operands. *)
LEMMA DeepAdvanced ==
    ASSUME IInv, NEW n \in Nat, NEW k \in Nat, cpu.sp - k >= -1
    PROVE  LET m == Advanced(n, k)
           IN  DeepIn(m, cpu.sp - k) /\ m.ok /\ m.cpu.sp = cpu.sp - k
<1> DEFINE m == Advanced(n, k)
<1>1. /\ Good(m) /\ m.ok /\ m.cpu.sp = cpu.sp - k
      /\ m.cpu.stack_size = cpu.stack_size /\ m.cpu.stack = cpu.stack
      /\ m.mem = arr_mem
  BY AdvancedIsGood
<1> HIDE DEF m
<1>2. DeepIn(m, cpu.sp - k)
  BY <1>1, StackFacts, KeepsItself DEF DeepIn, Good
<1> QED
  BY <1>1, <1>2 DEF m

(* What the collector reads of a machine with this top, or a higher one.   *)
LEMMA GcReadsTheDeep ==
    ASSUME IInv, NEW c, c.stack = cpu.stack, c.stack_size = cpu.stack_size,
           c.sp \in Int, NEW junk
    PROVE  DeepWords(c.sp - 1) \subseteq GcWords(c, junk)
BY StackFacts DEF DeepWords, GcWords, StackAt

-----------------------------------------------------------------------------
(* Instructions that leave the arrays alone                                *)

LEMMA SameArraysKept ==
    ASSUME status' = "running" => arr_mem' = arr_mem
    PROVE  ArraysKept
BY KeepsItself DEF ArraysKept

LEMMA DestroyKeeps == ASSUME DestroyNow PROVE ArraysKept
BY DEF DestroyNow, ArraysKept

LEMMA EndKeeps == ASSUME NEW m, Destroy(m) PROVE ArraysKept
BY DEF Destroy, DestroyRecursively, DestroyNow, ArraysKept

LEMMA BecomeSameArrays ==
    ASSUME NEW m, m.mem = arr_mem, Become(m)
    PROVE  ArraysKept
BY SameArraysKept DEF Become, DestroyNow

(* What an instruction does to the registers and the flags is not done to  *)
(* the arrays.                                                             *)
LEMMA AdvancedArrays ==
    ASSUME NEW n, NEW k
    PROVE  /\ Advanced(n, k).mem = arr_mem
           /\ [Advanced(n, k) EXCEPT !.cpu.error_flag = TRUE].mem = arr_mem
           /\ [Advanced(n, k) EXCEPT !.cpu.halt_flag = TRUE].mem = arr_mem
BY DEF Advanced, Machine

LEMMA QuietKeeps ==
    ASSUME \/ exec_op_nop \/ exec_op_wide \/ exec_op_err \/ exec_op_halt
           \/ InvalidOpcode \/ exec_op_pop \/ exec_op_out \/ exec_op_netout
    PROVE  ArraysKept
<1>1. \/ DestroyNow
      \/ \E n \in {0}, k \in {0, 1, 2} : Become(Advanced(n, k))
      \/ Become([Advanced(0, 0) EXCEPT !.cpu.error_flag = TRUE])
      \/ Become([Advanced(0, 0) EXCEPT !.cpu.halt_flag = TRUE])
  BY DEF exec_op_nop, exec_op_wide, exec_op_err, exec_op_halt, InvalidOpcode,
         exec_op_pop, exec_op_out, exec_op_netout, Ending
<1> QED
  BY <1>1, AdvancedArrays, BecomeSameArrays, DestroyKeeps

LEMMA SwapKeeps == ASSUME exec_op_swap PROVE ArraysKept
<1> DEFINE m == [Advanced(0, 0) EXCEPT
                   !.cpu.stack = [@ EXCEPT ![cpu.sp] = Top(2), ![cpu.sp - 1] = Top(1)]]
<1>1. DestroyNow \/ Become(m)
  BY DEF exec_op_swap, Ending
<1>2. m.mem = arr_mem
  BY DEF Advanced, Machine
<1> QED
  BY <1>1, <1>2, BecomeSameArrays, DestroyKeeps

LEMMA UpdateLocalKeeps ==
    ASSUME NEW m, m.mem = arr_mem, "mem" \in DOMAIN m, NEW i, NEW w,
           UpdateLocal(m, i, w)
    PROVE  ArraysKept
<1>1. CASE cpu.lv + i < cpu.stack_size
  <2> DEFINE r == [m EXCEPT !.cpu.stack = [@ EXCEPT ![cpu.lv + i] = w]]
  <2>1. Become(r)
    BY <1>1 DEF UpdateLocal
  <2>2. r.mem = arr_mem
    OBVIOUS
  <2> QED
    BY <2>1, <2>2, BecomeSameArrays
<1>2. CASE ~(cpu.lv + i < cpu.stack_size)
  BY <1>2, SameArraysKept DEF UpdateLocal, Corrupt
<1> QED
  BY <1>1, <1>2

LEMMA StoresKeep == ASSUME exec_op_istore \/ exec_op_iinc PROVE ArraysKept
<1>1. \/ DestroyNow
      \/ \E n, k, i, w : UpdateLocal(Advanced(n, k), i, w)
  BY DEF exec_op_istore, exec_op_iinc
<1>2. \A n, k : Advanced(n, k).mem = arr_mem /\ "mem" \in DOMAIN Advanced(n, k)
  BY DEF Advanced, Machine
<1> QED
  BY <1>1, <1>2, UpdateLocalKeeps, DestroyKeeps

LEMMA JumpsKeep ==
    ASSUME exec_op_ifeq \/ exec_op_iflt \/ exec_op_icmpeq \/ exec_op_goto
    PROVE  ArraysKept
<1>1. \/ DestroyNow
      \/ \E n, k : Become(Advanced(n, k)) \/ \E d : Jump(Advanced(n, k), d)
  BY DEF exec_op_ifeq, exec_op_iflt, exec_op_icmpeq, exec_op_goto, Branch
<1>2. ASSUME NEW n, NEW k, NEW d, Jump(Advanced(n, k), d)
      PROVE  ArraysKept
  <2> DEFINE m == [Advanced(n, k) EXCEPT !.cpu.pc = @ + d]
  <2>1. DestroyNow \/ Become(m)
    BY <1>2 DEF Jump, Ending
  <2>2. m.mem = arr_mem
    BY DEF Advanced, Machine
  <2> QED
    BY <2>1, <2>2, BecomeSameArrays, DestroyKeeps
<1> QED
  BY <1>1, <1>2, AdvancedArrays, BecomeSameArrays, DestroyKeeps

LEMMA NetcloseKeeps == ASSUME exec_op_netclose PROVE ArraysKept
<1> DEFINE m == [Advanced(0, 1) EXCEPT !.net.socks[net_ref_to_index(Top(1))] = "free"]
<1>1. DestroyNow \/ Become(m)
  BY DEF exec_op_netclose, Ending
<1>2. m.mem = arr_mem
  BY DEF Advanced, Machine
<1> QED
  BY <1>1, <1>2, BecomeSameArrays, DestroyKeeps

-----------------------------------------------------------------------------
(* Instructions that push                                                  *)

LEMMA AdvancedPushKeeps ==
    ASSUME IInv, status = "running", NEW n \in Nat, NEW k \in Nat, cpu.sp - k >= -1,
           NEW w \in Word, Pushing(Advanced(n, k), w)
    PROVE  ArraysKept
<1> DEFINE m == Advanced(n, k)
           top == cpu.sp - k
<1>1. DeepIn(m, top) /\ m.ok /\ m.cpu.sp = top /\ top \in Int
  BY DeepAdvanced, StackFacts
<1>2. Pushing(m, w)
  OBVIOUS
<1> HIDE DEF m, top
<1> QED
  BY <1>1, <1>2, DeepPushing

LEMMA ConstantsKeep == ASSUME IInv, exec_op_bipush \/ exec_op_ldc_w PROVE ArraysKept
<1>1. CASE DestroyNow
  BY <1>1, DestroyKeeps
<1>2. CASE exec_op_bipush /\ HasArgs(1) /\ Pushing(Advanced(1, 0), Signed8(arg_byte(1)))
  <2>1. Signed8(arg_byte(1)) \in Word
    BY <1>2, ArgByte, Signed8Word
  <2> QED
    BY <1>2, <2>1, NothingPopped, AdvancedPushKeeps DEF exec_op_bipush, Fetch
<1>3. CASE exec_op_ldc_w /\ IsConstant(Unsigned16(arg_short(1)))
           /\ Pushing(Advanced(2, 0), get_constant(Unsigned16(arg_short(1))))
  <2>1. get_constant(Unsigned16(arg_short(1))) \in Word
    BY <1>3, ConstantIsWord
  <2> QED
    BY <1>3, <2>1, NothingPopped, AdvancedPushKeeps DEF exec_op_ldc_w, Fetch
<1> QED
  BY <1>1, <1>2, <1>3 DEF exec_op_bipush, exec_op_ldc_w

LEMMA DupKeeps == ASSUME IInv, exec_op_dup PROVE ArraysKept
<1>1. PICK junk \in Junk : Pushing(Advanced(0, 0), StackAt(cpu, cpu.sp, junk))
  BY DEF exec_op_dup
<1> QED
  BY <1>1, StackAtIsWord, NothingPopped, AdvancedPushKeeps DEF exec_op_dup, Fetch

LEMMA BinaryKeeps ==
    ASSUME IInv, NEW op, NEW word, Binary(op, word)
    PROVE  ArraysKept
<1>1. CASE CanPop(2)
  <2>1. PICK w \in Word : Pushing(Advanced(0, 2), w)
    BY <1>1 DEF Binary
  <2> QED
    BY <1>1, <2>1, OperandsInStack, AdvancedPushKeeps DEF Binary, Fetch
<1> QED
  BY <1>1, DestroyKeeps DEF Binary

LEMMA IloadKeeps == ASSUME IInv, exec_op_iload PROVE ArraysKept
<1>1. CASE HasArgs(IndexBytes) /\ IsLocal(UnsignedIndex)
  <2>1. PICK junk \in Junk :
           Pushing(Advanced(IndexBytes, 0),
                   StackAt(cpu, cpu.lv + UnsignedIndex, junk))
    BY <1>1 DEF exec_op_iload
  <2>2. IndexBytes \in Nat
    BY DEF IndexBytes
  <2> QED
    BY <2>1, <2>2, StackAtIsWord, NothingPopped, AdvancedPushKeeps
    DEF exec_op_iload, Fetch
<1> QED
  BY <1>1, DestroyKeeps DEF exec_op_iload

LEMMA InKeeps == ASSUME IInv, exec_op_in PROVE ArraysKept
<1>1. PICK c \in Chars \cup {0} : Pushing(Advanced(0, 0), c)
  BY DEF exec_op_in
<1>2. c \in Word
  <2>1. Chars \subseteq Byte
    BY MachineAssumption
  <2>2. 0 \in Byte
    BY DEF Byte
  <2> QED
    BY <2>1, <2>2, BytesAreWords
<1> QED
  BY <1>1, <1>2, NothingPopped, AdvancedPushKeeps DEF exec_op_in, Fetch

LEMMA IaloadKeeps == ASSUME IInv, exec_op_iaload PROVE ArraysKept
<1>1. CASE CanPop(2) /\ InBounds(arr_mem, Top(1), Top(2))
  <2>1. arr_get(arr_mem, Top(1), Top(2)) \in Word
    BY <1>1, GetType DEF IInv, TypeOK
  <2>2. cpu.sp - 2 >= -1
    BY <1>1, OperandsInStack
  <2> QED
    BY <1>1, <2>1, <2>2, AdvancedPushKeeps DEF exec_op_iaload, Fetch
<1> QED
  BY <1>1, DestroyKeeps DEF exec_op_iaload

LEMMA NetinKeeps == ASSUME IInv, exec_op_netin PROVE ArraysKept
<1>1. CASE DestroyNow
  BY <1>1, DestroyKeeps
<1>2. CASE CanPop(1) /\ \E c \in Chars : Pushing(Advanced(0, 1), Signed8(c))
  <2>1. PICK c \in Chars : Pushing(Advanced(0, 1), Signed8(c))
    BY <1>2
  <2>2. Chars \subseteq Byte
    BY MachineAssumption
  <2>3. Signed8(c) \in Word
    BY <2>2, Signed8Word
  <2>4. cpu.sp - 1 >= -1
    BY <1>2, OperandsInStack
  <2> QED
    BY <2>1, <2>3, <2>4, AdvancedPushKeeps DEF exec_op_netin, Fetch
<1> QED
  BY <1>1, <1>2 DEF exec_op_netin

(* The machine after IRETURN has the old stack, and another top.           *)
LEMMA IreturnKeeps == ASSUME IInv, exec_op_ireturn PROVE ArraysKept
<1>1. PICK junk \in Junk :
         IF CanPop(1) /\ cpu.fp >= cpu.lv /\ IsFrame(Returned(junk).cpu)
         THEN Pushing(Returned(junk), Top(1))
         ELSE DestroyNow
  BY DEF exec_op_ireturn
<1> DEFINE m == Returned(junk)
<1>2. CASE CanPop(1) /\ cpu.fp >= cpu.lv /\ IsFrame(m.cpu)
  <2>1. CanPop(1) /\ IsFrame(m.cpu)
    BY <1>2
  <2>2. /\ Good(m) /\ m.mem = arr_mem
        /\ m.cpu.stack = cpu.stack /\ m.cpu.stack_size = cpu.stack_size
    BY <2>1, ReturnedIsGood
  <2>7. Top(1) \in Word
    BY <2>1, OperandsInStack
  <2>3. Pushing(m, Top(1)) /\ status = "running"
    BY <1>1, <1>2 DEF exec_op_ireturn, Fetch
  <2> HIDE DEF m
  <2>4. m.cpu.sp \in Int
    BY <2>2 DEF Good, IsMachine, IsCpu
  <2>5. DeepIn(m, m.cpu.sp)
    BY <2>2, <2>4, StackFacts, KeepsItself DEF DeepIn, Good
  <2>6. m.cpu.sp - 1 <= m.cpu.sp
    BY <2>4
  <2> QED
    BY <2>2, <2>3, <2>4, <2>5, <2>6, <2>7, DeepPushing
<1>3. CASE ~(CanPop(1) /\ cpu.fp >= cpu.lv /\ IsFrame(m.cpu))
  BY <1>1, <1>3, DestroyKeeps
<1> QED
  BY <1>2, <1>3

-----------------------------------------------------------------------------
(* Instructions that make room                                             *)

LEMMA NewarrayKeeps == ASSUME IInv, exec_op_newarray PROVE ArraysKept
<1> DEFINE m == Advanced(0, 1)
<1>1. CASE CanPop(1)
  <2>0. cpu.sp - 1 >= -1 /\ Top(1) \in Int /\ cpu.sp \in Int
    BY <1>1, OperandsInStack DEF Word
  <2>1. /\ Good(m) /\ m.ok /\ m.mem = arr_mem /\ m.cpu.sp = cpu.sp - 1
        /\ m.cpu.stack = cpu.stack /\ m.cpu.stack_size = cpu.stack_size
    BY <2>0, AdvancedIsGood
  <2>2. PICK junk \in Junk :
           \E r \in arr_create(arr_mem, element_creations,
                               GcWords(m.cpu, junk), Top(1), Refusals) :
              IF r.ok
              THEN Pushing([m EXCEPT !.mem = r.mem, !.creations = r.creations], r.ref)
              ELSE DestroyNow
    BY <1>1 DEF exec_op_newarray
  <2>3. PICK r \in arr_create(arr_mem, element_creations,
                              GcWords(m.cpu, junk), Top(1), Refusals) :
           IF r.ok
           THEN Pushing([m EXCEPT !.mem = r.mem, !.creations = r.creations], r.ref)
           ELSE DestroyNow
    BY <2>2
  <2> DEFINE new == [m EXCEPT !.mem = r.mem, !.creations = r.creations]
             top == cpu.sp - 2
  <2> HIDE DEF m
  <2>4. CASE r.ok
    <3>1. /\ IsArrMem(r.mem) /\ r.creations \in 0 .. GC_PERIOD
          /\ r.ref \in Word /\ Keeps(arr_mem, r.mem, GcWords(m.cpu, junk))
      <4>1. IsArrMem(arr_mem) /\ element_creations \in 0 .. GC_PERIOD
        BY DEF IInv, TypeOK
      <4> QED
        BY <2>0, <2>3, <2>4, <4>1, ArraysAreLow, CreateResult
    <3>2. DeepWords(top) \subseteq GcWords(m.cpu, junk)
      <4>1. m.cpu.sp \in Int /\ m.cpu.sp - 1 = top
        BY <2>0, <2>1
      <4> QED
        BY <2>1, <4>1, GcReadsTheDeep
    <3>3. Keeps(arr_mem, r.mem, DeepWords(top))
      BY <3>1, <3>2, KeepsByFewer
    <3>4. /\ new \in [ok : BOOLEAN, cpu : {m.cpu}, mem : {r.mem},
                      creations : {r.creations}, net : {m.net}]
      BY <2>1 DEF Good, IsMachine
    <3>5. Pushing(new, r.ref) /\ status = "running"
      BY <2>3, <2>4 DEF exec_op_newarray, Fetch
    <3> HIDE DEF new
    <3>6. IsMachine(new)
      BY <2>1, <3>1, <3>4 DEF Good, IsMachine
    <3>7. /\ top \in Int /\ new.cpu.sp >= top /\ new.cpu.sp - 1 <= top
          /\ cpu.stack_size <= new.cpu.stack_size
      BY <2>0, <2>1, <3>4, StackFacts
    <3>8. DeepIn(new, top)
      BY <2>1, <3>3, <3>4, <3>6, <3>7 DEF DeepIn
    <3> HIDE DEF top
    <3> QED
      BY <3>1, <3>5, <3>7, <3>8, DeepPushing
  <2>5. CASE ~r.ok
    BY <2>3, <2>5, DestroyKeeps
  <2> QED
    BY <2>4, <2>5
<1> QED
  BY <1>1, DestroyKeeps DEF exec_op_newarray

LEMMA GcKeeps == ASSUME IInv, exec_op_gc PROVE ArraysKept
<1> DEFINE m == Advanced(0, 0)
           top == cpu.sp - 1
<1>1. /\ Good(m) /\ m.ok /\ m.mem = arr_mem /\ m.cpu.sp = cpu.sp - 0
      /\ m.cpu.stack = cpu.stack /\ m.cpu.stack_size = cpu.stack_size
  BY NothingPopped, AdvancedIsGood
<1>2. PICK junk \in Junk : Become(arr_gc(m, GcWords(cpu, junk)))
  BY DEF exec_op_gc
<1> HIDE DEF m
<1> DEFINE r == arr_gc(m, GcWords(cpu, junk))
<1>3. Collected(m, r, GcWords(cpu, junk))
  BY <1>1, GcOfMachine DEF Good
<1>4. Become(r) /\ status = "running"
  BY <1>2 DEF exec_op_gc, Fetch
<1> HIDE DEF r
<1>5. cpu.sp \in Int /\ top \in Int /\ DeepWords(top) \subseteq GcWords(cpu, junk)
  BY StackFacts, GcReadsTheDeep
<1>6. /\ m.cpu.sp >= top /\ m.cpu.sp - 2 <= top
      /\ cpu.stack_size <= m.cpu.stack_size
  BY <1>1, <1>5, StackFacts
<1> HIDE DEF top
<1>7. DeepIn(r, top)
  BY <1>1, <1>3, <1>5, <1>6, KeepsByFewer DEF Collected, DeepIn
<1>8. r.cpu.sp - 2 <= top
  BY <1>3, <1>6 DEF Collected
<1> QED
  BY <1>4, <1>5, <1>7, <1>8, DeepBecome

(* A connection needs a slot of its table, and with it perhaps a larger    *)
(* table and a collection.                                                 *)
LEMMA ConnectKeeps ==
    ASSUME IInv, status = "running", NEW k \in Nat, cpu.sp - k >= -1,
           NEW flag \in SockStates, Connect(Advanced(0, k), flag)
    PROVE  ArraysKept
<1> DEFINE m == Advanced(0, k)
           top == cpu.sp - k - 1
<1>1. /\ Good(m) /\ m.ok /\ m.mem = arr_mem /\ m.cpu.sp = cpu.sp - k
      /\ m.cpu.stack = cpu.stack /\ m.cpu.stack_size = cpu.stack_size
  BY AdvancedIsGood
<1>2. Connect(m, flag)
  OBVIOUS
<1> HIDE DEF m
<1>3. PICK junk \in Junk :
         \E s \in {socket_create(m, refusals, GcWords(m.cpu, junk)) :
                     refusals \in Refusals} :
            IF s.r.ok
            THEN \/ Pushing(s.r, 0)
                 \/ Pushing([s.r EXCEPT !.net.socks[s.sock] = flag],
                            net_index_to_ref(s.sock))
            ELSE Destroy(s.r)
  BY <1>2 DEF Connect
<1>4. PICK s \in {socket_create(m, refusals, GcWords(m.cpu, junk)) :
                     refusals \in Refusals} :
            IF s.r.ok
            THEN \/ Pushing(s.r, 0)
                 \/ Pushing([s.r EXCEPT !.net.socks[s.sock] = flag],
                            net_index_to_ref(s.sock))
            ELSE Destroy(s.r)
  BY <1>3
<1>5. SocketMade(m, s, GcWords(m.cpu, junk))
  BY <1>1, <1>4, SocketCreate DEF Good, Encodable, LowConns
<1>6. CASE s.r.ok
  <2> DEFINE new == [s.r EXCEPT !.net.socks[s.sock] = flag]
  <2>1. /\ IsMachine(new) /\ new.ok = s.r.ok /\ new.cpu = s.r.cpu /\ new.mem = s.r.mem
    <3>1. SockBecomes(s.r, new, s.sock, flag)
      BY DEF SockBecomes
    <3> HIDE DEF new
    <3>2. IsMachine(s.r) /\ s.sock \in NetSlots(s.r.net)
      BY <1>5, <1>6 DEF SocketMade
    <3> QED
      BY <3>1, <3>2, SockSet
  <2>2. Pushing(s.r, 0) \/ Pushing(new, net_index_to_ref(s.sock))
    BY <1>4, <1>6
  <2> HIDE DEF new
  <2>3. cpu.sp \in Int /\ m.cpu.sp \in Int /\ top \in Int /\ m.cpu.sp - 1 = top
        /\ m.cpu.sp >= top
    BY <1>1, StackFacts
  <2>4. DeepWords(top) \subseteq GcWords(m.cpu, junk)
    BY <1>1, <2>3, GcReadsTheDeep
  <2> HIDE DEF top
  <2>5. Keeps(arr_mem, s.r.mem, DeepWords(top))
    BY <1>1, <1>5, <1>6, <2>4, KeepsByFewer DEF SocketMade
  <2>6. cpu.stack_size <= m.cpu.stack_size
    BY <1>1, StackFacts
  <2>7. DeepIn(s.r, top) /\ DeepIn(new, top)
    BY <1>1, <1>5, <2>1, <2>3, <2>5, <2>6 DEF DeepIn, SocketMade
  <2>8. s.r.cpu.sp - 1 <= top /\ new.cpu.sp - 1 <= top
    BY <1>5, <2>1, <2>3 DEF SocketMade
  <2>9. 0 \in Word
    BY WordMaxAssumption DEF Word, WordMin
  <2>10. net_index_to_ref(s.sock) \in Word
    BY <1>5, <1>6, NetRefIsWord DEF SocketMade
  <2> QED
    BY <2>2, <2>3, <2>7, <2>8, <2>9, <2>10, DeepPushing
<1>7. CASE ~s.r.ok
  BY <1>4, <1>7, EndKeeps
<1> QED
  BY <1>6, <1>7

LEMMA ConnectsKeep ==
    ASSUME IInv, exec_op_netbind \/ exec_op_netconnect
    PROVE  ArraysKept
<1>1. \/ DestroyNow
      \/ CanPop(1) /\ Connect(Advanced(0, 1), "server")
      \/ CanPop(2) /\ Connect(Advanced(0, 2), "client")
  BY DEF exec_op_netbind, exec_op_netconnect
<1>2. "server" \in SockStates /\ "client" \in SockStates /\ status = "running"
  BY DEF SockStates, exec_op_netbind, exec_op_netconnect, Fetch
<1> QED
  BY <1>1, <1>2, OperandsInStack, ConnectKeeps, DestroyKeeps

(* IASTORE changes elements, and takes no array away.                      *)
LEMMA IastoreSurvives == ASSUME IInv, exec_op_iastore PROVE DeepArraysSurviveStep
<1> DEFINE mem == arr_set(arr_mem, Top(1), Top(2), Top(3))
           m == [Advanced(0, 3) EXCEPT !.mem = mem]
<1>1. Opcode(OP_IASTORE)
  BY DEF exec_op_iastore, Fetch
<1>2. CASE CanPop(3) /\ InBounds(arr_mem, Top(1), Top(2))
  <2>1. Top(3) \in Word
    BY <1>2, OperandsInStack
  <2>2. Claimed(mem) = Claimed(arr_mem)
    BY <1>2, <2>1, SetType DEF IInv, TypeOK
  <2>3. Become(m)
    BY <1>2 DEF exec_op_iastore
  <2>4. m.ok /\ m.mem = mem
    BY DEF Advanced, Machine
  <2> HIDE DEF m, mem
  <2>5. arr_mem' = mem
    BY <2>3, <2>4 DEF Become
  <2> QED
    BY <1>1, <2>2, <2>5 DEF DeepArraysSurviveStep
<1>3. CASE ~(CanPop(3) /\ InBounds(arr_mem, Top(1), Top(2)))
  BY <1>3 DEF exec_op_iastore, DestroyNow, DeepArraysSurviveStep
<1> QED
  BY <1>2, <1>3

(* The link area of a call takes four pushes, each of which may grow the   *)
(* stack and collect.                                                      *)
LEMMA EnteredKeeps ==
    ASSUME IInv, status = "running", NEW m, NEW top \in Int, DeepIn(m, top),
           cpu.sp - 2 <= top, NEW args, NEW locals, Become(Entered(m, args, locals))
    PROVE  ArraysKept
<1> DEFINE r == Entered(m, args, locals)
<1>1. SUFFICES ASSUME status' = "running" PROVE Keeps(arr_mem, arr_mem', UnderTheTop)
  BY DEF ArraysKept
<1>2. Become(r)
  OBVIOUS
<1>3. IsMachine(m)
  BY DEF DeepIn
<1>4. r.ok => m.ok /\ r.mem = m.mem
  BY <1>3 DEF Entered, IsMachine
<1> HIDE DEF r
<1>5. r.ok /\ arr_mem' = r.mem
  BY <1>1, <1>2 DEF Become, DestroyNow
<1>6. \A j \in 0 .. cpu.sp - 2 : j <= top
  <2>1. cpu.sp \in Int
    BY StackFacts
  <2> QED
    BY <2>1
<1>7. UnderTheTop \subseteq DeepWords(top)
  BY <1>6 DEF UnderTheTop, DeepWords
<1> QED
  BY <1>4, <1>5, <1>7, KeepsByFewer DEF DeepIn

LEMMA InvokeKeeps == ASSUME IInv, exec_op_invokevirtual PROVE ArraysKept
<1> DEFINE target == get_constant(arg_short(1))
           args   == Unsigned16(CodeShort(target))
           locals == Unsigned16(CodeShort(target + 2))
           m      == [Machine EXCEPT !.cpu.pc = target + 4, !.cpu.sp = @ + locals]
<1>1. CASE HasArgs(2) /\ IsConstant(arg_short(1)) /\ target >= 0 /\ target + 4 <= CodeSize
  <2>1. PICK m1 \in stack_push(m, cpu.lv) :
        \E m2 \in stack_push(m1, cpu.nv) :
        \E m3 \in stack_push(m2, cpu.fp) :
        \E m4 \in stack_push(m3, cpu.pc + 3) : Become(Entered(m4, args, locals))
    BY <1>1 DEF exec_op_invokevirtual
  <2>2. PICK m2 \in stack_push(m1, cpu.nv) :
         \E m3 \in stack_push(m2, cpu.fp) :
         \E m4 \in stack_push(m3, cpu.pc + 3) : Become(Entered(m4, args, locals))
    BY <2>1
  <2>3. PICK m3 \in stack_push(m2, cpu.fp) :
         \E m4 \in stack_push(m3, cpu.pc + 3) : Become(Entered(m4, args, locals))
    BY <2>2
  <2>4. PICK m4 \in stack_push(m3, cpu.pc + 3) : Become(Entered(m4, args, locals))
    BY <2>3
  <2>5. /\ target \in Int /\ locals \in Nat
        /\ cpu.lv \in Word /\ cpu.nv \in Word /\ cpu.fp \in Word /\ cpu.pc + 3 \in Word
    BY <1>1, CallOperands
  <2> HIDE DEF target, args, locals
  <2>6. /\ IsMachine(m) /\ m.mem = arr_mem /\ m.cpu.sp = cpu.sp + locals
        /\ m.cpu.stack = cpu.stack /\ m.cpu.stack_size = cpu.stack_size
    BY <2>5, CallMachine, Zenon
  <2> HIDE DEF m
  <2>7. DeepIn(m, cpu.sp)
    <3>1. cpu.sp \in Int /\ m.cpu.sp >= cpu.sp
      BY <2>5, <2>6, StackFacts
    <3> QED
      BY <2>6, <3>1, StackFacts, KeepsItself DEF DeepIn
  <2>8. Pushed(m, m1, cpu.lv)
    BY <2>1, <2>5, <2>6, StackPush
  <2>9. Pushed(m1, m2, cpu.nv)
    BY <2>2, <2>5, <2>8, StackPush DEF Pushed
  <2>10. Pushed(m2, m3, cpu.fp)
    BY <2>3, <2>5, <2>9, StackPush DEF Pushed
  <2>11. Pushed(m3, m4, cpu.pc + 3)
    BY <2>4, <2>5, <2>10, StackPush DEF Pushed
  <2>12. cpu.sp \in Int /\ cpu.sp - 2 <= cpu.sp
    BY StackFacts
  <2>13. DeepIn(m4, cpu.sp)
    BY <2>7, <2>8, <2>9, <2>10, <2>11, <2>12, DeepPushed
  <2>14. status = "running"
    BY DEF exec_op_invokevirtual, Fetch
  <2> QED
    BY <2>4, <2>12, <2>13, <2>14, EnteredKeeps
<1>2. CASE ~(HasArgs(2) /\ IsConstant(arg_short(1)) /\ target >= 0 /\ target + 4 <= CodeSize)
  BY <1>2, DestroyKeeps DEF exec_op_invokevirtual
<1> QED
  BY <1>1, <1>2

-----------------------------------------------------------------------------
(* Every step                                                              *)

LEMMA StepSurvives == ASSUME IInv, Step PROVE DeepArraysSurviveStep
<1>1. CASE exec_op_iastore
  BY <1>1, IastoreSurvives
<1>2. CASE \/ exec_op_iadd \/ exec_op_isub \/ exec_op_iand \/ exec_op_ior
  BY <1>2, BinaryKeeps, KeptSurvives
  DEF exec_op_iadd, exec_op_isub, exec_op_iand, exec_op_ior
<1> QED
  BY <1>1, <1>2, KeptSurvives, QuietKeeps, SwapKeeps, StoresKeep, JumpsKeep,
     NetcloseKeeps, ConstantsKeep, DupKeeps, IloadKeeps, InKeeps, IaloadKeeps,
     NetinKeeps, IreturnKeeps, NewarrayKeeps, GcKeeps, ConnectsKeep, InvokeKeeps
  DEF Step

LEMMA NextSurvives ==
    ASSUME IInv, [Next]_vars
    PROVE  [DeepArraysSurviveStep]_vars
<1>1. CASE Step
  BY <1>1, StepSurvives
<1>2. CASE RunReturns
  BY <1>2 DEF RunReturns, DeepArraysSurviveStep
<1> QED
  BY <1>1, <1>2 DEF Next, RunStep, Over

(* No instruction, whatever it makes room for, lets the collector take or  *)
(* empty an array whose reference lies under the top of the stack; only    *)
(* IASTORE changes what is in it.                                          *)
THEOREM ArraysInTheStackSurvive == Spec => DeepArraysSurvive
<1>1. IInv /\ [Next]_vars => [DeepArraysSurviveStep]_vars
  BY NextSurvives
<1>2. DeepArraysSurvive <=> [][DeepArraysSurviveStep]_vars
  BY PTL DEF DeepArraysSurvive, DeepArraysSurviveStep
<1> QED
  BY <1>1, <1>2, InitIInv, NextIInv, PTL DEF Spec
=============================================================================
