----------------------------- MODULE CallsProofs -----------------------------
(***************************************************************************)
(* What a call promises its caller, for every program that takes only its  *)
(* own: however deep the calls and whatever the other instructions do, the *)
(* frames keep apart and their links intact, nothing is written outside    *)
(* the stack, and a return finds its caller.                               *)
(*                                                                         *)
(* The argument has two parts.  An instruction that is no call works on    *)
(* its own words only: OwnIn says of a machine that it has the frame it    *)
(* began with and every word below its locals and in its link area, and    *)
(* each operator an instruction is made of keeps it.  And the frames lie   *)
(* one above the other: the first operand of a method lies at or under the *)
(* first local variable of every later one (Apart).  So what a method may  *)
(* touch is above all that its callers rely on.                            *)
(*                                                                         *)
(* From both follows that a run moves on: OwnIn also says where the        *)
(* instruction leads, and intact links that a return resumes its caller    *)
(* behind the call.                                                        *)
(***************************************************************************)
EXTENDS Calls, InterpreterProofs

-----------------------------------------------------------------------------
(* Machines of the method that runs                                        *)

(* The method has n operands, from this index of the stack on.             *)
Fits(first, n) ==
    /\ first \in Nat
    /\ cpu.fp = cpu.lv + cpu.nv
    /\ cpu.fp <= first
    /\ first + n <= cpu.sp + 1

(* The words the method must leave alone.                                  *)
Foreign(k, first) == k < cpu.lv \/ (cpu.fp <= k /\ k < first)

(* Behind the instruction that runs, if the program never branches back.   *)
Onward(pc) == BranchesForward => pc > cpu.pc

OwnIn(m, first) ==
    /\ IsMachine(m)
    /\ m.cpu.lv = cpu.lv /\ m.cpu.nv = cpu.nv /\ m.cpu.fp = cpu.fp
    /\ Onward(m.cpu.pc)
    /\ m.ok => /\ m.cpu.sp >= first - 1
               /\ cpu.stack_size <= m.cpu.stack_size
               /\ \A k \in 0 .. cpu.stack_size - 1 :
                     Foreign(k, first) => m.cpu.stack[k] = cpu.stack[k]

(* What holds of a step, where the machine at its end was of that kind.    *)
OwnKept(first) ==
    /\ status' \in {"running", "destroyed", "recursing"}
    /\ status' # "running" => cpu' = cpu
    /\ status' = "running" =>
          /\ cpu'.lv = cpu.lv /\ cpu'.nv = cpu.nv /\ cpu'.fp = cpu.fp
          /\ Onward(cpu'.pc)
          /\ cpu'.sp >= first - 1
          /\ cpu.stack_size <= cpu'.stack_size
          /\ \A k \in 0 .. cpu.stack_size - 1 :
                Foreign(k, first) => cpu'.stack[k] = cpu.stack[k]

LEMMA OwnBecome ==
    ASSUME NEW m, NEW first, OwnIn(m, first), Become(m), status = "running"
    PROVE  OwnKept(first)
BY DEF OwnIn, OwnKept, Become, DestroyNow

LEMMA OwnDestroy == ASSUME NEW first, DestroyNow PROVE OwnKept(first)
BY DEF OwnKept, DestroyNow

LEMMA OwnEnd == ASSUME NEW first, NEW m, Destroy(m) PROVE OwnKept(first)
BY DEF OwnKept, Destroy, DestroyRecursively, DestroyNow

LEMMA OwnPushed ==
    ASSUME IInv, NEW first, Fits(first, 0), NEW m, OwnIn(m, first),
           NEW r, NEW w, Pushed(m, r, w)
    PROVE  OwnIn(r, first)
<1>1. /\ cpu.stack_size \in Nat /\ cpu.lv \in Nat /\ cpu.fp \in Nat /\ cpu.nv \in Nat
      /\ first \in Nat /\ cpu.fp = cpu.lv + cpu.nv /\ cpu.fp <= first
  BY StackFacts DEF Fits
<1>2. /\ IsMachine(r) /\ r.cpu.lv = cpu.lv /\ r.cpu.nv = cpu.nv /\ r.cpu.fp = cpu.fp
      /\ Onward(r.cpu.pc)
  BY DEF OwnIn, Pushed, SameRegisters
<1>3. ASSUME r.ok
      PROVE  /\ r.cpu.sp >= first - 1
             /\ cpu.stack_size <= r.cpu.stack_size
             /\ \A k \in 0 .. cpu.stack_size - 1 :
                   Foreign(k, first) => r.cpu.stack[k] = cpu.stack[k]
  <2>1. /\ m.cpu.sp \in Int /\ m.cpu.stack_size \in Nat
        /\ r.cpu.sp \in Int /\ r.cpu.stack_size \in Nat
    BY WordMaxAssumption DEF OwnIn, Pushed, IsMachine, IsCpu
  <2>2. /\ m.cpu.sp >= first - 1 /\ cpu.stack_size <= m.cpu.stack_size
        /\ \A k \in 0 .. cpu.stack_size - 1 :
              Foreign(k, first) => m.cpu.stack[k] = cpu.stack[k]
    BY <1>3 DEF OwnIn, Pushed
  <2>3. /\ r.cpu.sp = m.cpu.sp + 1 /\ m.cpu.stack_size <= r.cpu.stack_size
        /\ \A k \in 0 .. m.cpu.stack_size - 1 :
              k <= m.cpu.sp => r.cpu.stack[k] = m.cpu.stack[k]
    BY <1>3 DEF Pushed
  <2>4. ASSUME NEW k \in 0 .. cpu.stack_size - 1, Foreign(k, first)
        PROVE  k \in 0 .. m.cpu.stack_size - 1 /\ k <= m.cpu.sp
    BY <1>1, <2>1, <2>2, <2>4 DEF Foreign
  <2> QED
    BY <1>1, <2>1, <2>2, <2>3, <2>4
<1> QED
  BY <1>2, <1>3 DEF OwnIn

LEMMA OwnPushing ==
    ASSUME IInv, status = "running", NEW first, Fits(first, 0),
           NEW m, OwnIn(m, first), NEW w \in Word, Pushing(m, w)
    PROVE  OwnKept(first)
<1>1. PICK r \in stack_push(m, w) : Become(r)
  BY DEF Pushing
<1>2. Pushed(m, r, w)
  BY <1>1, StackPush DEF OwnIn
<1> QED
  BY <1>1, <1>2, OwnPushed, OwnBecome

(* A machine with the frame and the words of another.                      *)
SameFrame(m, r) ==
    /\ r.cpu.lv = m.cpu.lv /\ r.cpu.nv = m.cpu.nv /\ r.cpu.fp = m.cpu.fp
    /\ r.cpu.sp = m.cpu.sp
    /\ r.cpu.stack_size = m.cpu.stack_size /\ r.cpu.stack = m.cpu.stack

LEMMA OwnSameFrame ==
    ASSUME NEW first, NEW m, OwnIn(m, first), NEW r, IsMachine(r), SameFrame(m, r),
           Onward(r.cpu.pc), r.ok => m.ok
    PROVE  OwnIn(r, first)
BY DEF OwnIn, SameFrame

LEMMA AdvancedFrame ==
    ASSUME IInv, NEW n \in Nat, NEW k \in Nat
    PROVE  LET m == Advanced(n, k)
           IN  /\ m.cpu.lv = cpu.lv /\ m.cpu.nv = cpu.nv /\ m.cpu.fp = cpu.fp
               /\ m.cpu.stack_size = cpu.stack_size /\ m.cpu.stack = cpu.stack
               /\ m.cpu.pc = cpu.pc + 1 + n
<1> DEFINE m == Advanced(n, k)
           pc == cpu.pc + 1 + n
           sp == cpu.sp - k
<1>1. IsMachine(Machine) /\ IsCpu(cpu) /\ Machine.cpu = cpu
  BY MachineIsGood DEF Good, IsMachine
<1>2. m.cpu = [cpu EXCEPT !.pc = pc, !.sp = sp]
  BY <1>1 DEF Advanced, IsMachine, IsCpu
<1> HIDE DEF m, pc, sp
<1>3. /\ m.cpu.lv = cpu.lv /\ m.cpu.nv = cpu.nv /\ m.cpu.fp = cpu.fp
      /\ m.cpu.stack_size = cpu.stack_size /\ m.cpu.stack = cpu.stack
      /\ m.cpu.pc = pc
  BY <1>1, <1>2 DEF IsCpu
<1> QED
  BY <1>3 DEF m, pc

LEMMA OwnAdvanced ==
    ASSUME IInv, NEW n \in Nat, NEW k \in Nat, NEW first, Fits(first, k)
    PROVE  /\ Good(Advanced(n, k)) /\ Advanced(n, k).ok
           /\ OwnIn(Advanced(n, k), first) /\ Fits(first, 0)
           /\ cpu.sp - k >= -1
<1> DEFINE m == Advanced(n, k)
<1>1. /\ cpu.sp \in Int /\ cpu.sp - k >= first - 1 /\ first \in Nat
      /\ cpu.sp - k >= -1 /\ cpu.stack_size \in Nat
  BY StackFacts DEF Fits
<1>2. /\ Good(m) /\ m.ok /\ m.cpu.sp = cpu.sp - k
      /\ m.cpu.stack_size = cpu.stack_size /\ m.cpu.stack = cpu.stack
  BY <1>1, AdvancedIsGood
<1>3. /\ m.cpu.lv = cpu.lv /\ m.cpu.nv = cpu.nv /\ m.cpu.fp = cpu.fp
      /\ m.cpu.pc = cpu.pc + 1 + n
  BY AdvancedFrame
<1>4. Fits(first, 0)
  BY <1>1 DEF Fits
<1> HIDE DEF m
<1>5. Onward(m.cpu.pc)
  BY <1>3, StackFacts DEF Onward
<1>6. OwnIn(m, first)
  BY <1>1, <1>2, <1>3, <1>5 DEF OwnIn, Good
<1> QED
  BY <1>1, <1>2, <1>4, <1>6 DEF m

-----------------------------------------------------------------------------
(* Instructions that move pc and sp, and those that push                   *)

LEMMA FewerFit ==
    ASSUME IInv, NEW first, NEW n \in Nat, Fits(first, n), NEW k \in Nat, k <= n
    PROVE  Fits(first, k)
BY StackFacts DEF Fits

LEMMA OwnAdvancing ==
    ASSUME IInv, status = "running", NEW n \in Nat, NEW k \in Nat, NEW first,
           Fits(first, k), Become(Advanced(n, k))
    PROVE  OwnKept(first)
BY OwnAdvanced, OwnBecome

LEMMA OwnAdvancingPush ==
    ASSUME IInv, status = "running", NEW n \in Nat, NEW k \in Nat, NEW first,
           Fits(first, k), NEW w \in Word, Pushing(Advanced(n, k), w)
    PROVE  OwnKept(first)
BY OwnAdvanced, OwnPushing

LEMMA QuietOwn ==
    ASSUME IInv, NEW first,
           \/ Fits(first, 0) /\ (exec_op_nop \/ exec_op_wide)
           \/ Fits(first, 1) /\ (exec_op_pop \/ exec_op_out)
           \/ Fits(first, 2) /\ exec_op_netout
    PROVE  OwnKept(first)
<1>1. status = "running"
  BY DEF exec_op_nop, exec_op_wide, exec_op_pop, exec_op_out, exec_op_netout, Fetch
<1>2. \/ DestroyNow
      \/ Fits(first, 0) /\ Become(Advanced(0, 0))
      \/ Fits(first, 1) /\ Become(Advanced(0, 1))
      \/ Fits(first, 2) /\ Become(Advanced(0, 2))
  BY DEF exec_op_nop, exec_op_wide, exec_op_pop, exec_op_out, exec_op_netout, Ending
<1> QED
  BY <1>1, <1>2, OwnAdvancing, OwnDestroy

LEMMA ConstantsOwn ==
    ASSUME IInv, NEW first, Fits(first, 0), exec_op_bipush \/ exec_op_ldc_w
    PROVE  OwnKept(first)
<1>1. status = "running"
  BY DEF exec_op_bipush, exec_op_ldc_w, Fetch
<1>2. CASE HasArgs(1) /\ Pushing(Advanced(1, 0), Signed8(arg_byte(1)))
  <2>1. Signed8(arg_byte(1)) \in Word
    BY <1>2, ArgByte, Signed8Word
  <2> QED
    BY <1>1, <1>2, <2>1, OwnAdvancingPush
<1>3. CASE IsConstant(Unsigned16(arg_short(1)))
           /\ Pushing(Advanced(2, 0), get_constant(Unsigned16(arg_short(1))))
  <2>1. get_constant(Unsigned16(arg_short(1))) \in Word
    BY <1>3, ConstantIsWord
  <2> QED
    BY <1>1, <1>3, <2>1, OwnAdvancingPush
<1> QED
  BY <1>2, <1>3, OwnDestroy DEF exec_op_bipush, exec_op_ldc_w

LEMMA DupOwn ==
    ASSUME IInv, NEW first, Fits(first, 0), exec_op_dup
    PROVE  OwnKept(first)
<1>1. PICK junk \in Junk : Pushing(Advanced(0, 0), StackAt(cpu, cpu.sp, junk))
  BY DEF exec_op_dup
<1> QED
  BY <1>1, StackAtIsWord, OwnAdvancingPush DEF exec_op_dup, Fetch

LEMMA BinaryOwn ==
    ASSUME IInv, NEW first, Fits(first, 2), NEW op, NEW word, Binary(op, word)
    PROVE  OwnKept(first)
<1>1. CASE CanPop(2)
  <2>1. PICK w \in Word : Pushing(Advanced(0, 2), w)
    BY <1>1 DEF Binary
  <2> QED
    BY <2>1, OwnAdvancingPush DEF Binary, Fetch
<1> QED
  BY <1>1, OwnDestroy DEF Binary

LEMMA IloadOwn ==
    ASSUME IInv, NEW first, Fits(first, 0), exec_op_iload
    PROVE  OwnKept(first)
<1>1. CASE HasArgs(IndexBytes) /\ IsLocal(UnsignedIndex)
  <2>1. PICK junk \in Junk :
           Pushing(Advanced(IndexBytes, 0),
                   StackAt(cpu, cpu.lv + UnsignedIndex, junk))
    BY <1>1 DEF exec_op_iload
  <2>2. IndexBytes \in Nat
    BY DEF IndexBytes
  <2> QED
    BY <2>1, <2>2, StackAtIsWord, OwnAdvancingPush DEF exec_op_iload, Fetch
<1> QED
  BY <1>1, OwnDestroy DEF exec_op_iload

LEMMA InOwn ==
    ASSUME IInv, NEW first, Fits(first, 0), exec_op_in
    PROVE  OwnKept(first)
<1>1. PICK c \in Chars \cup {0} : Pushing(Advanced(0, 0), c)
  BY DEF exec_op_in
<1>2. c \in Word
  <2>1. Chars \subseteq Byte
    BY MachineAssumption
  <2>2. 0 \in Byte
    BY DEF Byte
  <2> QED
    BY <2>1, <2>2, BytesAreWords
<1> QED
  BY <1>1, <1>2, OwnAdvancingPush DEF exec_op_in, Fetch

LEMMA IaloadOwn ==
    ASSUME IInv, NEW first, Fits(first, 2), exec_op_iaload
    PROVE  OwnKept(first)
<1>1. CASE CanPop(2) /\ InBounds(arr_mem, Top(1), Top(2))
  <2>1. arr_get(arr_mem, Top(1), Top(2)) \in Word
    BY <1>1, GetType DEF IInv, TypeOK
  <2> QED
    BY <1>1, <2>1, OwnAdvancingPush DEF exec_op_iaload, Fetch
<1> QED
  BY <1>1, OwnDestroy DEF exec_op_iaload

LEMMA NetinOwn ==
    ASSUME IInv, NEW first, Fits(first, 1), exec_op_netin
    PROVE  OwnKept(first)
<1>1. DestroyNow \/ \E c \in Chars : Pushing(Advanced(0, 1), Signed8(c))
  BY DEF exec_op_netin
<1>2. ASSUME NEW c \in Chars, Pushing(Advanced(0, 1), Signed8(c))
      PROVE  OwnKept(first)
  <2>1. Chars \subseteq Byte
    BY MachineAssumption
  <2>2. Signed8(c) \in Word
    BY <2>1, Signed8Word
  <2> QED
    BY <1>2, <2>2, OwnAdvancingPush DEF exec_op_netin, Fetch
<1> QED
  BY <1>1, <1>2, OwnDestroy

-----------------------------------------------------------------------------
(* Instructions that write the stack, jump or set a flag                   *)

LEMMA SwapOwn ==
    ASSUME IInv, NEW first, Fits(first, 2), exec_op_swap
    PROVE  OwnKept(first)
<1> DEFINE m == Advanced(0, 0)
           s == [cpu.stack EXCEPT ![cpu.sp] = Top(2), ![cpu.sp - 1] = Top(1)]
           r == [m EXCEPT !.cpu.stack = s]
<1>1. Fits(first, 0) /\ status = "running"
  BY FewerFit DEF exec_op_swap, Fetch
<1>2. Good(m) /\ m.ok /\ OwnIn(m, first) /\ m.cpu.stack = cpu.stack
      /\ m.cpu.stack_size = cpu.stack_size
  BY <1>1, OwnAdvanced, AdvancedFrame
<1>3. CASE CanPop(2)
  <2>1. Top(1) \in Word /\ Top(2) \in Word
    BY <1>3, OperandsInStack
  <2>2. s \in [0 .. m.cpu.stack_size - 1 -> Word]
    BY <1>2, <2>1 DEF Good, IsMachine, IsCpu
  <2>3. Become(r)
    <3>1. Become([m EXCEPT !.cpu.stack =
                     [@ EXCEPT ![cpu.sp] = Top(2), ![cpu.sp - 1] = Top(1)]])
      BY <1>3 DEF exec_op_swap, Ending
    <3> QED
      BY <1>2, <3>1
  <2>4. \A k \in 0 .. cpu.stack_size - 1 : Foreign(k, first) => s[k] = cpu.stack[k]
    <3>1. /\ cpu.sp \in Int /\ first \in Nat /\ first + 2 <= cpu.sp + 1
          /\ cpu.lv \in Nat /\ cpu.fp \in Nat /\ cpu.nv \in Nat
          /\ cpu.fp = cpu.lv + cpu.nv /\ cpu.fp <= first
          /\ cpu.stack_size \in Nat
          /\ cpu.stack \in [0 .. cpu.stack_size - 1 -> Word]
      BY StackFacts DEF Fits
    <3>2. ASSUME NEW k \in 0 .. cpu.stack_size - 1, Foreign(k, first)
          PROVE  k # cpu.sp /\ k # cpu.sp - 1
      BY <3>1, <3>2 DEF Foreign
    <3> QED
      BY <3>1, <3>2
  <2> HIDE DEF m, s
  <2>5. /\ r.ok = m.ok /\ IsMachine(r) /\ r.cpu.pc = m.cpu.pc
        /\ r.cpu.lv = m.cpu.lv /\ r.cpu.nv = m.cpu.nv /\ r.cpu.fp = m.cpu.fp
        /\ r.cpu.sp = m.cpu.sp /\ r.cpu.stack_size = m.cpu.stack_size
        /\ r.cpu.stack = s
    <3>1. IsMachine(m) /\ IsCpu(m.cpu)
      BY <1>2 DEF Good, IsMachine
    <3>2. Good(r)
      BY <1>2, <2>2, StackWritten
    <3> QED
      BY <3>1, <3>2 DEF Good, IsMachine, IsCpu
  <2> HIDE DEF r
  <2>6. OwnIn(r, first)
    BY <1>2, <2>4, <2>5 DEF OwnIn
  <2> QED
    BY <1>1, <2>3, <2>6, OwnBecome
<1> QED
  BY <1>3, OwnDestroy DEF exec_op_swap, Ending

(* A local variable lies in the frame, so in the stack.                    *)
LEMMA UpdateLocalOwn ==
    ASSUME IInv, status = "running", NEW first, Fits(first, 0), NEW m, Good(m),
           OwnIn(m, first), m.ok, m.cpu.stack = cpu.stack,
           m.cpu.stack_size = cpu.stack_size,
           NEW i \in Int, IsLocal(i), NEW w \in Word, UpdateLocal(m, i, w)
    PROVE  OwnKept(first)
<1> DEFINE at == cpu.lv + i
           s == [m.cpu.stack EXCEPT ![at] = w]
           r == [m EXCEPT !.cpu.stack = s]
<1>1. /\ first \in Nat /\ cpu.lv \in Nat /\ cpu.fp \in Nat /\ cpu.nv \in Nat
      /\ cpu.fp = cpu.lv + cpu.nv /\ cpu.fp <= first
      /\ cpu.fp < cpu.stack_size /\ cpu.stack_size \in Nat
      /\ cpu.stack \in [0 .. cpu.stack_size - 1 -> Word]
  BY StackFacts DEF Fits
<1>2. at \in Int /\ cpu.lv <= at /\ at < cpu.fp /\ at < cpu.stack_size
  BY <1>1 DEF IsLocal
<1>3. Become(r)
  BY <1>2 DEF UpdateLocal
<1> HIDE DEF at
<1>4. \A k \in 0 .. cpu.stack_size - 1 : Foreign(k, first) => s[k] = cpu.stack[k]
  BY <1>1, <1>2 DEF Foreign
<1>5. s \in [0 .. m.cpu.stack_size - 1 -> Word]
  BY <1>1
<1> HIDE DEF s
<1>6. /\ r.ok = m.ok /\ IsMachine(r) /\ r.cpu.pc = m.cpu.pc
      /\ r.cpu.lv = m.cpu.lv /\ r.cpu.nv = m.cpu.nv /\ r.cpu.fp = m.cpu.fp
      /\ r.cpu.sp = m.cpu.sp /\ r.cpu.stack_size = m.cpu.stack_size
      /\ r.cpu.stack = s
  <2>1. IsMachine(m) /\ IsCpu(m.cpu)
    BY DEF Good, IsMachine
  <2>2. Good(r)
    BY <1>5, StackWritten
  <2> QED
    BY <2>1, <2>2 DEF Good, IsMachine, IsCpu
<1> HIDE DEF r
<1>7. OwnIn(r, first)
  BY <1>4, <1>6 DEF OwnIn
<1> QED
  BY <1>3, <1>7, OwnBecome

LEMMA IndexIsInt ==
    ASSUME IInv, HasArgs(IndexBytes)
    PROVE  IndexBytes \in Nat /\ UnsignedIndex \in Int /\ SignedIndex \in Int
<1>1. CASE next_op_wide
  BY <1>1, ArgShort DEF IndexBytes, UnsignedIndex, SignedIndex
<1>2. CASE ~next_op_wide
  <2>1. arg_byte(1) \in Int
    BY <1>2, ArgByte DEF IndexBytes, Byte
  <2> QED
    BY <1>2, <2>1 DEF IndexBytes, UnsignedIndex, SignedIndex
<1> QED
  BY <1>1, <1>2

LEMMA IstoreOwn ==
    ASSUME IInv, NEW first, Fits(first, 1), exec_op_istore
    PROVE  OwnKept(first)
<1>1. CASE CanPop(1) /\ HasArgs(IndexBytes) /\ IsLocal(UnsignedIndex)
  <2> DEFINE m == Advanced(IndexBytes, 1)
  <2>1. IndexBytes \in Nat /\ UnsignedIndex \in Int /\ Top(1) \in Word
    BY <1>1, OperandsInStack, IndexIsInt
  <2>2. /\ Good(m) /\ m.ok /\ OwnIn(m, first) /\ Fits(first, 0)
        /\ m.cpu.stack = cpu.stack /\ m.cpu.stack_size = cpu.stack_size
    BY <2>1, OwnAdvanced, AdvancedFrame
  <2>3. UpdateLocal(m, UnsignedIndex, Top(1)) /\ status = "running"
    BY <1>1 DEF exec_op_istore, Fetch
  <2> HIDE DEF m
  <2> QED
    BY <1>1, <2>1, <2>2, <2>3, UpdateLocalOwn
<1> QED
  BY <1>1, OwnDestroy DEF exec_op_istore

LEMMA IincOwn ==
    ASSUME IInv, NEW first, Fits(first, 0), exec_op_iinc
    PROVE  OwnKept(first)
<1>1. CASE HasArgs(IndexBytes + 1) /\ IsLocal(SignedIndex)
  <2> DEFINE m == Advanced(IndexBytes + 1, 0)
             d == Signed8(arg_byte(IndexBytes + 1))
  <2>1. IndexBytes + 1 \in Nat /\ IndexBytes + 1 \in 1 .. IndexBytes + 1
    BY DEF IndexBytes
  <2>2. SignedIndex \in Int
    <3>1. HasArgs(IndexBytes)
      BY <1>1, ProgramIsCode DEF HasArgs, IndexBytes
    <3> QED
      BY <3>1, IndexIsInt
  <2>3. /\ Good(m) /\ m.ok /\ OwnIn(m, first)
        /\ m.cpu.stack = cpu.stack /\ m.cpu.stack_size = cpu.stack_size
    BY <2>1, OwnAdvanced, AdvancedFrame
  <2>4. d \in -128 .. 127
    BY <1>1, <2>1, ArgByte, Signed8Word
  <2> HIDE DEF m, d
  <2>5. PICK junk \in Junk :
           UpdateLocal(m, SignedIndex,
                       ToWord(StackAt(cpu, cpu.lv + SignedIndex, junk) + d))
    BY <1>1 DEF exec_op_iinc, m, d
  <2>6. ToWord(StackAt(cpu, cpu.lv + SignedIndex, junk) + d) \in Word
    BY <2>4, StackAtIsWord, ToWordWord
  <2>7. status = "running"
    BY DEF exec_op_iinc, Fetch
  <2> QED
    BY <1>1, <2>2, <2>3, <2>5, <2>6, <2>7, UpdateLocalOwn
<1> QED
  BY <1>1, OwnDestroy DEF exec_op_iinc

(* What leaves the frame and the stack alone, and keeps the machine a      *)
(* machine: a jump, a flag, other arrays or connections.                   *)
Aside(m, r) ==
    /\ IsMachine(m)
    /\ r \in [ok : {m.ok}, cpu : {r.cpu}, mem : {r.mem},
              creations : 0 .. GC_PERIOD, net : {r.net}]
    /\ IsArrMem(r.mem) /\ IsNetConn(r.net)
    /\ \/ r.cpu = m.cpu
       \/ \E pc \in Int : r.cpu = [m.cpu EXCEPT !.pc = pc]
       \/ r.cpu = [m.cpu EXCEPT !.error_flag = TRUE]
       \/ r.cpu = [m.cpu EXCEPT !.halt_flag = TRUE]

LEMMA AsideIsMachine ==
    ASSUME NEW m, NEW r, Aside(m, r)
    PROVE  IsMachine(r) /\ SameFrame(m, r) /\ r.ok = m.ok
<1>1. IsMachine(m) /\ IsCpu(m.cpu)
  BY DEF Aside, IsMachine
<1>2. IsCpu(r.cpu) /\ SameFrame(m, r)
  BY <1>1 DEF Aside, IsCpu, SameFrame
<1> QED
  BY <1>1, <1>2 DEF Aside, IsMachine

LEMMA OwnAside ==
    ASSUME NEW first, NEW m, OwnIn(m, first), NEW r, Aside(m, r), Onward(r.cpu.pc)
    PROVE  OwnIn(r, first)
BY AsideIsMachine, OwnSameFrame

LEMMA JumpOwn ==
    ASSUME IInv, status = "running", NEW first, NEW m, Good(m),
           OwnIn(m, first), NEW offset \in Int, Jump(m, offset),
           BranchesForward => offset >= 0
    PROVE  OwnKept(first)
<1> DEFINE pc == m.cpu.pc + offset
           r == [m EXCEPT !.cpu.pc = pc]
<1>1. IsMachine(m) /\ IsCpu(m.cpu)
  BY DEF Good, IsMachine
<1>2. pc \in Int
  BY <1>1 DEF IsCpu
<1>3. Become(r) \/ DestroyNow
  BY DEF Jump, Ending
<1>4. Onward(pc)
  <2>1. Onward(m.cpu.pc) /\ m.cpu.pc \in Int
    BY <1>1 DEF OwnIn, IsCpu
  <2>2. cpu.pc \in Int
    BY StackFacts
  <2> QED
    BY <2>1, <2>2 DEF Onward
<1> HIDE DEF pc
<1>5. Aside(m, r) /\ r.cpu.pc = pc
  BY <1>1, <1>2 DEF Aside, IsMachine, IsCpu
<1> HIDE DEF r
<1> QED
  BY <1>3, <1>4, <1>5, OwnAside, OwnBecome, OwnDestroy

(* A branch that is no branch back leads to behind itself.                 *)
LEMMA BranchMovesOn ==
    ASSUME IInv, HasArgs(2), BranchesForward,
           CodeByte(cpu.pc) \in {OP_GOTO, OP_IFEQ, OP_IFLT, OP_ICMPEQ}
    PROVE  BranchOffset >= 0
<1>1. cpu.pc \in 0 .. CodeSize - 3
  BY ProgramIsCode DEF HasArgs
<1>2. arg_short(1) > 2
  BY <1>1 DEF BranchesForward, arg_short
<1>3. arg_short(1) \in Int /\ arg_short(1) <= 32767
  BY ArgShort
<1> QED
  BY <1>2, <1>3 DEF BranchOffset, Signed16

LEMMA BranchOwn ==
    ASSUME IInv, NEW first, NEW op \in {OP_IFEQ, OP_IFLT, OP_ICMPEQ},
           NEW k \in Nat, Fits(first, k), NEW taken, Branch(op, k, taken)
    PROVE  OwnKept(first)
<1> DEFINE m == Advanced(2, k)
<1>1. Good(m) /\ OwnIn(m, first)
  BY OwnAdvanced
<1>2. status = "running"
  BY DEF Branch, Fetch
<1>3. CASE HasArgs(2) /\ CanPop(k)
  <2>1. Jump(m, BranchOffset) \/ Become(m)
    BY <1>3 DEF Branch
  <2>2. BranchOffset \in Int /\ (BranchesForward => BranchOffset >= 0)
    <3>1. CodeByte(cpu.pc) = op
      BY <1>3, ProgramIsCode DEF Branch, Fetch, Opcode, HasArgs
    <3> QED
      BY <1>3, <3>1, BranchOffsetInt, BranchMovesOn
  <2> HIDE DEF m
  <2> QED
    BY <1>1, <1>2, <2>1, <2>2, JumpOwn, OwnBecome
<1> QED
  BY <1>3, OwnDestroy DEF Branch

LEMMA GotoOwn ==
    ASSUME IInv, NEW first, Fits(first, 0), exec_op_goto
    PROVE  OwnKept(first)
<1> DEFINE m == Advanced(2, 0)
<1>1. Good(m) /\ OwnIn(m, first)
  BY OwnAdvanced
<1>2. status = "running"
  BY DEF exec_op_goto, Fetch
<1>3. CASE HasArgs(2)
  <2>1. Jump(m, BranchOffset)
    BY <1>3 DEF exec_op_goto
  <2>2. BranchOffset \in Int /\ (BranchesForward => BranchOffset >= 0)
    <3>1. CodeByte(cpu.pc) = OP_GOTO
      BY <1>3, ProgramIsCode DEF exec_op_goto, Fetch, Opcode, HasArgs
    <3> QED
      BY <1>3, <3>1, BranchOffsetInt, BranchMovesOn
  <2> HIDE DEF m
  <2> QED
    BY <1>1, <1>2, <2>1, <2>2, JumpOwn
<1> QED
  BY <1>3, OwnDestroy DEF exec_op_goto

LEMMA FlagsOwn ==
    ASSUME IInv, NEW first, Fits(first, 0),
           exec_op_err \/ exec_op_halt \/ InvalidOpcode
    PROVE  OwnKept(first)
<1> DEFINE m == Advanced(0, 0)
           error == [m EXCEPT !.cpu.error_flag = TRUE]
           halt == [m EXCEPT !.cpu.halt_flag = TRUE]
<1>1. Good(m) /\ OwnIn(m, first)
  BY OwnAdvanced
<1>2. (Become(error) \/ Become(halt)) /\ status = "running"
  BY DEF exec_op_err, exec_op_halt, InvalidOpcode, Fetch
<1> HIDE DEF m
<1>3. /\ Aside(m, error) /\ error.cpu.pc = m.cpu.pc
      /\ Aside(m, halt) /\ halt.cpu.pc = m.cpu.pc
  BY <1>1 DEF Aside, Good, IsMachine, IsCpu
<1> HIDE DEF error, halt
<1>4. Onward(error.cpu.pc) /\ Onward(halt.cpu.pc)
  BY <1>1, <1>3 DEF OwnIn
<1>5. OwnIn(error, first) /\ OwnIn(halt, first)
  BY <1>1, <1>3, <1>4, OwnAside
<1> QED
  BY <1>2, <1>5, OwnBecome

-----------------------------------------------------------------------------
(* Arrays and connections                                                  *)

LEMMA NewarrayOwn ==
    ASSUME IInv, NEW first, Fits(first, 1), exec_op_newarray
    PROVE  OwnKept(first)
<1> DEFINE m == Advanced(0, 1)
<1>1. Good(m) /\ m.ok /\ OwnIn(m, first) /\ Fits(first, 0)
  BY OwnAdvanced
<1>2. status = "running"
  BY DEF exec_op_newarray, Fetch
<1>3. CASE CanPop(1)
  <2>1. Top(1) \in Int
    BY <1>3, OperandsInStack DEF Word
  <2>2. PICK junk \in Junk :
           \E r \in arr_create(arr_mem, element_creations,
                               GcWords(m.cpu, junk), Top(1), Refusals) :
              IF r.ok
              THEN Pushing([m EXCEPT !.mem = r.mem, !.creations = r.creations], r.ref)
              ELSE DestroyNow
    BY <1>3 DEF exec_op_newarray
  <2>3. PICK r \in arr_create(arr_mem, element_creations,
                              GcWords(m.cpu, junk), Top(1), Refusals) :
           IF r.ok
           THEN Pushing([m EXCEPT !.mem = r.mem, !.creations = r.creations], r.ref)
           ELSE DestroyNow
    BY <2>2
  <2> DEFINE new == [m EXCEPT !.mem = r.mem, !.creations = r.creations]
  <2> HIDE DEF m
  <2>4. CASE r.ok
    <3>1. IsArrMem(r.mem) /\ r.creations \in 0 .. GC_PERIOD /\ r.ref \in Word
      <4>1. IsArrMem(arr_mem) /\ element_creations \in 0 .. GC_PERIOD
        BY DEF IInv, TypeOK
      <4> QED
        BY <2>1, <2>3, <2>4, <4>1, ArraysAreLow, CreateResult
    <3>2. Aside(m, new) /\ new.cpu = m.cpu
      BY <1>1, <3>1 DEF Aside, Good, IsMachine
    <3>3. Pushing(new, r.ref)
      BY <2>3, <2>4
    <3> HIDE DEF new
    <3>4. OwnIn(new, first)
      BY <1>1, <3>2, OwnAside DEF OwnIn
    <3> QED
      BY <1>1, <1>2, <3>1, <3>3, <3>4, OwnPushing
  <2> QED
    BY <2>3, <2>4, OwnDestroy
<1> QED
  BY <1>3, OwnDestroy DEF exec_op_newarray

LEMMA IastoreOwn ==
    ASSUME IInv, NEW first, Fits(first, 3), exec_op_iastore
    PROVE  OwnKept(first)
<1> DEFINE m == Advanced(0, 3)
           mem == arr_set(arr_mem, Top(1), Top(2), Top(3))
           new == [m EXCEPT !.mem = mem]
<1>1. Good(m) /\ OwnIn(m, first)
  BY OwnAdvanced
<1>2. CASE CanPop(3) /\ InBounds(arr_mem, Top(1), Top(2))
  <2>1. Top(3) \in Word
    BY <1>2, OperandsInStack
  <2>2. IsArrMem(mem)
    BY <1>2, <2>1, SetType DEF IInv, TypeOK
  <2>3. Become(new) /\ status = "running"
    BY <1>2 DEF exec_op_iastore, Fetch
  <2> HIDE DEF m, mem
  <2>4. Aside(m, new) /\ new.cpu = m.cpu
    BY <1>1, <2>2 DEF Aside, Good, IsMachine
  <2> HIDE DEF new
  <2>5. OwnIn(new, first)
    BY <1>1, <2>4, OwnAside DEF OwnIn
  <2> QED
    BY <2>3, <2>5, OwnBecome
<1> QED
  BY <1>2, OwnDestroy DEF exec_op_iastore

LEMMA GcOwn ==
    ASSUME IInv, NEW first, Fits(first, 0), exec_op_gc
    PROVE  OwnKept(first)
<1> DEFINE m == Advanced(0, 0)
<1>1. Good(m) /\ OwnIn(m, first)
  BY OwnAdvanced
<1>2. PICK junk \in Junk : Become(arr_gc(m, GcWords(cpu, junk)))
  BY DEF exec_op_gc
<1> HIDE DEF m
<1> DEFINE r == arr_gc(m, GcWords(cpu, junk))
<1>3. Collected(m, r, GcWords(cpu, junk))
  BY <1>1, GcOfMachine DEF Good
<1>4. Become(r) /\ status = "running"
  BY <1>2 DEF exec_op_gc, Fetch
<1> HIDE DEF r
<1>5. OwnIn(r, first)
  BY <1>1, <1>3 DEF Collected, OwnIn
<1> QED
  BY <1>4, <1>5, OwnBecome

LEMMA ConnectOwn ==
    ASSUME IInv, status = "running", NEW first, NEW k \in Nat, Fits(first, k),
           NEW flag \in SockStates, Connect(Advanced(0, k), flag)
    PROVE  OwnKept(first)
<1> DEFINE m == Advanced(0, k)
<1>1. Good(m) /\ m.ok /\ OwnIn(m, first) /\ Fits(first, 0)
  BY OwnAdvanced
<1>2. Connect(m, flag)
  OBVIOUS
<1> HIDE DEF m
<1>3. PICK junk \in Junk :
         \E s \in {socket_create(m, refusals, GcWords(m.cpu, junk)) :
                     refusals \in Refusals} :
            IF s.r.ok
            THEN \/ Pushing(s.r, 0)
                 \/ Pushing([s.r EXCEPT !.net.socks[s.sock] = flag],
                            net_index_to_ref(s.sock))
            ELSE Destroy(s.r)
  BY <1>2 DEF Connect
<1>4. PICK s \in {socket_create(m, refusals, GcWords(m.cpu, junk)) :
                     refusals \in Refusals} :
            IF s.r.ok
            THEN \/ Pushing(s.r, 0)
                 \/ Pushing([s.r EXCEPT !.net.socks[s.sock] = flag],
                            net_index_to_ref(s.sock))
            ELSE Destroy(s.r)
  BY <1>3
<1>5. SocketMade(m, s, GcWords(m.cpu, junk))
  BY <1>1, <1>4, SocketCreate DEF Good, Encodable, LowConns
<1>6. CASE s.r.ok
  <2> DEFINE new == [s.r EXCEPT !.net.socks[s.sock] = flag]
  <2>1. /\ IsMachine(new) /\ new.ok = s.r.ok /\ new.cpu = s.r.cpu
    <3>1. SockBecomes(s.r, new, s.sock, flag)
      BY DEF SockBecomes
    <3> HIDE DEF new
    <3>2. IsMachine(s.r) /\ s.sock \in NetSlots(s.r.net)
      BY <1>5, <1>6 DEF SocketMade
    <3> QED
      BY <3>1, <3>2, SockSet
  <2>2. Pushing(s.r, 0) \/ Pushing(new, net_index_to_ref(s.sock))
    BY <1>4, <1>6
  <2> HIDE DEF new
  <2>3. OwnIn(s.r, first) /\ OwnIn(new, first)
    BY <1>1, <1>5, <1>6, <2>1 DEF SocketMade, OwnIn
  <2>4. 0 \in Word
    BY WordMaxAssumption DEF Word, WordMin
  <2>5. net_index_to_ref(s.sock) \in Word
    BY <1>5, <1>6, NetRefIsWord DEF SocketMade
  <2> QED
    BY <1>1, <2>2, <2>3, <2>4, <2>5, OwnPushing
<1> QED
  BY <1>4, <1>6, OwnEnd

LEMMA ConnectsOwn ==
    ASSUME IInv, NEW first,
           \/ Fits(first, 1) /\ exec_op_netbind
           \/ Fits(first, 2) /\ exec_op_netconnect
    PROVE  OwnKept(first)
<1>1. \/ DestroyNow
      \/ Fits(first, 1) /\ Connect(Advanced(0, 1), "server")
      \/ Fits(first, 2) /\ Connect(Advanced(0, 2), "client")
  BY DEF exec_op_netbind, exec_op_netconnect
<1>2. "server" \in SockStates /\ "client" \in SockStates /\ status = "running"
  BY DEF SockStates, exec_op_netbind, exec_op_netconnect, Fetch
<1> QED
  BY <1>1, <1>2, ConnectOwn, OwnDestroy

LEMMA NetcloseOwn ==
    ASSUME IInv, NEW first, Fits(first, 1), exec_op_netclose
    PROVE  OwnKept(first)
<1> DEFINE m == Advanced(0, 1)
           i == net_ref_to_index(Top(1))
           r == [m EXCEPT !.net.socks[i] = "free"]
<1>1. Good(m) /\ OwnIn(m, first) /\ m.net = net_conn
  <2>1. Good(m) /\ OwnIn(m, first) /\ cpu.sp - 1 >= -1
    BY OwnAdvanced
  <2> QED
    BY <2>1, AdvancedIsGood
<1>2. CASE CanPop(1) /\ IsConn(net_conn, Top(1))
  <2>1. Become(r) /\ status = "running"
    BY <1>2 DEF exec_op_netclose, Ending, Fetch
  <2>2. i \in NetSlots(m.net)
    BY <1>1, <1>2 DEF IsConn, Open
  <2> HIDE DEF m, i
  <2>3. SockBecomes(m, r, i, "free")
    BY DEF SockBecomes
  <2> HIDE DEF r
  <2>4. IsMachine(r) /\ r.ok = m.ok /\ r.cpu = m.cpu
    BY <1>1, <2>2, <2>3, SockSet DEF Good, SockStates
  <2>5. OwnIn(r, first)
    BY <1>1, <2>4 DEF OwnIn
  <2> QED
    BY <2>1, <2>5, OwnBecome
<1> QED
  BY <1>2, OwnDestroy DEF exec_op_netclose, Ending

-----------------------------------------------------------------------------
(* The frames                                                              *)

Frame == [lv : Nat, nv : Nat, fp : Nat, pc : Nat, entry : Int, args : Seq(Word)]

(* The frames lie one above the other, and the first begins at the bottom. *)
Apart ==
    /\ Registers(1).lv = 0
    /\ \A i \in 1 .. Depth : Registers(i).fp = Registers(i).lv + Registers(i).nv
    /\ \A j \in 1 .. Depth : \A i \in 1 .. j - 1 : FirstOperand(i) <= Registers(j).lv
    /\ cpu.sp >= FirstOperand(Depth) - 1

CInv ==
    /\ IInv
    /\ frames \in Seq(Frame)
    /\ status # "undefined"
    /\ status = "running" => Apart
    /\ LinksIntact

(* Where the operands of the method that runs begin.                       *)
First == IF frames = <<>> THEN cpu.nv ELSE cpu.fp + 4

LEMMA FrameFacts ==
    ASSUME IInv, frames \in Seq(Frame)
    PROVE  /\ Len(frames) \in Nat /\ Depth \in Nat /\ Depth >= 1
           /\ Len(frames) = Depth - 1
           /\ frames = <<>> <=> Depth = 1
           /\ Registers(Depth) = cpu
           /\ \A i \in 1 .. Depth - 1 : Registers(i) = frames[i] /\ frames[i] \in Frame
           /\ \A i \in 1 .. Depth :
                 /\ Registers(i).lv \in Nat /\ Registers(i).nv \in Nat
                 /\ Registers(i).fp \in Nat /\ FirstOperand(i) \in Nat
           /\ First = FirstOperand(Depth) /\ First \in Nat
<1>1. /\ Len(frames) \in Nat /\ Depth \in Nat /\ Depth >= 1
      /\ Len(frames) = Depth - 1
      /\ frames = <<>> <=> Depth = 1
  BY LenProperties, EmptySeq DEF Depth
<1>2. Registers(Depth) = cpu
  BY <1>1 DEF Registers
<1>3. \A i \in 1 .. Depth - 1 : Registers(i) = frames[i] /\ frames[i] \in Frame
  BY <1>1, ElementOfSeq DEF Registers
<1>4. ASSUME NEW i \in 1 .. Depth
      PROVE  /\ Registers(i).lv \in Nat /\ Registers(i).nv \in Nat
             /\ Registers(i).fp \in Nat /\ FirstOperand(i) \in Nat
  <2>1. CASE i = Depth
    BY <1>2, <2>1, StackFacts DEF FirstOperand
  <2>2. CASE i # Depth
    <3>1. i \in 1 .. Depth - 1
      BY <1>1, <2>2
    <3>2. Registers(i) \in Frame
      BY <1>3, <3>1
    <3> QED
      BY <3>2 DEF Frame, FirstOperand
  <2> QED
    BY <2>1, <2>2
<1>5. First = FirstOperand(Depth)
  BY <1>1, <1>2 DEF First, FirstOperand
<1>6. First \in Nat
  BY <1>1, <1>4, <1>5
<1> QED
  BY <1>1, <1>2, <1>3, <1>4, <1>5, <1>6

(* What Apart says of every method, from its locals to the running one.    *)
LEMMA ApartFacts ==
    ASSUME IInv, frames \in Seq(Frame), Apart
    PROVE  /\ cpu.fp = cpu.lv + cpu.nv /\ cpu.fp <= First /\ First <= cpu.sp + 1
           /\ \A i \in 1 .. Depth :
                 /\ Registers(i).lv <= Registers(i).fp
                 /\ Registers(i).fp <= FirstOperand(i)
                 /\ FirstOperand(i) <= First
           /\ \A i \in 1 .. Depth - 1 : FirstOperand(i) <= cpu.lv
<1>1. ASSUME NEW i \in 1 .. Depth
      PROVE  Registers(i).lv <= Registers(i).fp /\ Registers(i).fp <= FirstOperand(i)
  <2>1. /\ Registers(i).lv \in Nat /\ Registers(i).nv \in Nat
        /\ Registers(i).fp \in Nat
        /\ Registers(i).fp = Registers(i).lv + Registers(i).nv
    BY FrameFacts DEF Apart
  <2>2. CASE i = 1
    BY <2>1, <2>2 DEF Apart, FirstOperand
  <2>3. CASE i # 1
    BY <2>1, <2>3 DEF FirstOperand
  <2> QED
    BY <2>1, <2>2, <2>3
<1>2. \A i \in 1 .. Depth - 1 : FirstOperand(i) <= cpu.lv
  BY FrameFacts DEF Apart
<1>3. /\ cpu.fp = cpu.lv + cpu.nv /\ cpu.fp <= First /\ cpu.lv <= cpu.fp
  BY <1>1, FrameFacts DEF Apart
<1>4. First <= cpu.sp + 1
  BY FrameFacts, StackFacts DEF Apart
<1>5. ASSUME NEW i \in 1 .. Depth
      PROVE  FirstOperand(i) <= First
  <2>1. CASE i = Depth
    BY <2>1, FrameFacts
  <2>2. CASE i # Depth
    <3>1. i \in 1 .. Depth - 1
      BY <2>2, FrameFacts
    <3>2. FirstOperand(i) <= cpu.lv /\ FirstOperand(i) \in Nat
      BY <1>2, <3>1, FrameFacts
    <3> QED
      BY <1>3, <3>2, FrameFacts, StackFacts
  <2> QED
    BY <2>1, <2>2
<1> QED
  BY <1>1, <1>2, <1>3, <1>4, <1>5

(* An instruction that the program may run has its operands.               *)
LEMMA NeedsFit ==
    ASSUME IInv, frames \in Seq(Frame), Apart, TakesItsOwn, cpu.pc < CodeSize
    PROVE  /\ Needs(CodeByte(cpu.pc)) \in 0 .. 3
           /\ Fits(First, Needs(CodeByte(cpu.pc)))
<1>1. Needs(CodeByte(cpu.pc)) \in 0 .. 3
  BY DEF Needs
<1>2. Operands = cpu.sp - First + 1
  BY DEF Operands, First
<1>3. Operands >= Needs(CodeByte(cpu.pc))
  BY DEF TakesItsOwn
<1> DEFINE n == Needs(CodeByte(cpu.pc))
<1>4. n \in Nat /\ cpu.sp \in Int /\ First \in Nat
  BY <1>1, StackFacts, FrameFacts
<1> HIDE DEF Operands, First, n
<1>5. First + n <= cpu.sp + 1
  BY <1>2, <1>3, <1>4 DEF n
<1> QED
  BY <1>1, <1>4, <1>5, ApartFacts DEF Fits, n

(* The instructions that take one word, or two.                            *)
One == {OP_POP, OP_DUP, OP_ISTORE, OP_IFEQ, OP_IFLT, OP_IRETURN, OP_OUT,
        OP_NEWARRAY, OP_NETBIND, OP_NETIN, OP_NETCLOSE}
Two == {OP_SWAP, OP_IADD, OP_ISUB, OP_IAND, OP_IOR, OP_ICMPEQ,
        OP_IALOAD, OP_NETCONNECT, OP_NETOUT}

LEMMA NeedsOf ==
    ASSUME NEW op
    PROVE  /\ op \in One => Needs(op) = 1
           /\ op \in Two => Needs(op) = 2
           /\ op = OP_IASTORE => Needs(op) = 3
<1>1. One \cap Two = {} /\ OP_IASTORE \notin One \cup Two
  BY DEF One, Two, OP_POP, OP_DUP, OP_ISTORE, OP_IFEQ, OP_IFLT, OP_IRETURN, OP_OUT,
         OP_NEWARRAY, OP_NETBIND, OP_NETIN, OP_NETCLOSE, OP_SWAP, OP_IADD, OP_ISUB,
         OP_IAND, OP_IOR, OP_ICMPEQ, OP_IALOAD, OP_NETCONNECT, OP_NETOUT, OP_IASTORE
<1>2. Needs(op) = CASE op \in One -> 1
                    [] op \in Two -> 2
                    [] op = OP_IASTORE -> 3
                    [] OTHER -> 0
  BY DEF Needs, One, Two
<1> QED
  BY <1>1, <1>2

(* An instruction that is no call and no return.                           *)
LEMMA StepOwn ==
    ASSUME IInv, frames \in Seq(Frame), Apart, TakesItsOwn, cpu.pc < CodeSize, Step,
           CodeByte(cpu.pc) \notin {OP_INVOKEVIRTUAL, OP_IRETURN}
    PROVE  OwnKept(First)
<1> DEFINE op == CodeByte(cpu.pc)
<1>1. \A o : Fetch(o) => o = op
  BY DEF Fetch, Opcode
<1>2. /\ Fits(First, 0)
      /\ \A n \in 1 .. 3 : Needs(op) = n => Fits(First, n)
  BY NeedsFit, FewerFit
<1>3. /\ op \in One => Needs(op) = 1
      /\ op \in Two => Needs(op) = 2
      /\ op = OP_IASTORE => Needs(op) = 3
  BY NeedsOf
<1> HIDE DEF op
<1>6. CASE exec_op_nop \/ exec_op_wide \/ exec_op_bipush \/ exec_op_ldc_w \/ exec_op_iload
           \/ exec_op_iinc \/ exec_op_goto \/ exec_op_in \/ exec_op_err \/ exec_op_halt
           \/ exec_op_gc \/ InvalidOpcode
  BY <1>2, <1>6, QuietOwn, ConstantsOwn, IloadOwn, IincOwn, GotoOwn, InOwn, FlagsOwn, GcOwn
<1>7. CASE exec_op_pop \/ exec_op_out
  BY <1>1, <1>2, <1>3, <1>7, QuietOwn DEF exec_op_pop, exec_op_out, One
<1>8. CASE exec_op_dup
  BY <1>2, <1>8, DupOwn
<1>9. CASE exec_op_istore
  BY <1>1, <1>2, <1>3, <1>9, IstoreOwn DEF exec_op_istore, One
<1>10. CASE exec_op_ifeq \/ exec_op_iflt
  BY <1>1, <1>2, <1>3, <1>10, BranchOwn DEF exec_op_ifeq, exec_op_iflt, Branch, One
<1>11. CASE exec_op_icmpeq
  <2>1. PICK taken : Branch(OP_ICMPEQ, 2, taken)
    BY <1>11 DEF exec_op_icmpeq
  <2>2. Fits(First, 2)
    BY <1>1, <1>2, <1>3, <2>1 DEF Branch, Two
  <2> QED
    BY <2>1, <2>2, BranchOwn
<1>12. CASE exec_op_newarray
  <2>1. Fetch(OP_NEWARRAY)
    BY <1>12 DEF exec_op_newarray
  <2>2. Fits(First, 1)
    BY <1>1, <1>2, <1>3, <2>1 DEF One
  <2> QED
    BY <1>12, <2>2, NewarrayOwn
<1>13. CASE exec_op_netbind
  BY <1>1, <1>2, <1>3, <1>13, ConnectsOwn DEF exec_op_netbind, One
<1>14. CASE exec_op_netin
  BY <1>1, <1>2, <1>3, <1>14, NetinOwn DEF exec_op_netin, One
<1>15. CASE exec_op_netclose
  BY <1>1, <1>2, <1>3, <1>15, NetcloseOwn DEF exec_op_netclose, One
<1>16. CASE exec_op_swap
  BY <1>1, <1>2, <1>3, <1>16, SwapOwn DEF exec_op_swap, Two
<1>17. CASE exec_op_iadd \/ exec_op_isub \/ exec_op_iand \/ exec_op_ior
  <2>1. PICK o, word : o \in {OP_IADD, OP_ISUB, OP_IAND, OP_IOR} /\ Binary(o, word)
    BY <1>17 DEF exec_op_iadd, exec_op_isub, exec_op_iand, exec_op_ior
  <2>2. Fits(First, 2)
    BY <1>1, <1>2, <1>3, <2>1 DEF Binary, Two
  <2> QED
    BY <2>1, <2>2, BinaryOwn
<1>18. CASE exec_op_iaload
  BY <1>1, <1>2, <1>3, <1>18, IaloadOwn DEF exec_op_iaload, Two
<1>19. CASE exec_op_netconnect
  BY <1>1, <1>2, <1>3, <1>19, ConnectsOwn DEF exec_op_netconnect, Two
<1>20. CASE exec_op_netout
  BY <1>1, <1>2, <1>3, <1>20, QuietOwn DEF exec_op_netout, Two
<1>21. CASE exec_op_iastore
  BY <1>1, <1>2, <1>3, <1>21, IastoreOwn DEF exec_op_iastore
<1>22. ~exec_op_invokevirtual /\ ~exec_op_ireturn
  BY <1>1 DEF exec_op_invokevirtual, exec_op_ireturn, op
<1> QED
  BY <1>6, <1>7, <1>8, <1>9, <1>10, <1>11, <1>12, <1>13, <1>14, <1>15, <1>16,
     <1>17, <1>18, <1>19, <1>20, <1>21, <1>22 DEF Step

(* The words at the fp of every method that was called lie under what the  *)
(* running method may touch.                                               *)
LEMMA LinksAreForeign ==
    ASSUME IInv, frames \in Seq(Frame), Apart, NEW i \in 1 .. Depth - 1
    PROVE  LET at == Registers(i + 1).fp
           IN  /\ at \in Nat /\ at + 4 <= First /\ at + 4 <= cpu.stack_size
               /\ \A k \in {at, at + 1, at + 2, at + 3} :
                     k \in 0 .. cpu.stack_size - 1 /\ Foreign(k, First)
<1> DEFINE at == Registers(i + 1).fp
<1>1. /\ i + 1 \in 1 .. Depth /\ Depth \in Nat /\ i \in Nat /\ i + 1 # 1
      /\ cpu.sp \in Int /\ cpu.stack_size \in Nat /\ cpu.sp < cpu.stack_size
      /\ First \in Nat /\ First <= cpu.sp + 1
      /\ cpu.lv \in Nat /\ cpu.fp \in Nat
  BY FrameFacts, StackFacts, ApartFacts
<1>2. at \in Nat /\ FirstOperand(i + 1) = at + 4
  BY <1>1, FrameFacts DEF FirstOperand
<1>3. at + 4 <= First
  BY <1>1, <1>2, ApartFacts
<1>4. i + 1 # Depth => at + 4 <= cpu.lv
  <2> SUFFICES ASSUME i + 1 # Depth PROVE at + 4 <= cpu.lv
    OBVIOUS
  <2>1. i + 1 \in 1 .. Depth - 1
    BY <1>1
  <2> QED
    BY <1>2, <2>1, ApartFacts
<1>5. i + 1 = Depth => at = cpu.fp
  BY FrameFacts
<1> HIDE DEF at, First
<1>6. at + 4 <= cpu.stack_size
  BY <1>1, <1>2, <1>3
<1>7. ASSUME NEW k \in Nat, at <= k, k < at + 4
      PROVE  k \in 0 .. cpu.stack_size - 1 /\ Foreign(k, First)
  <2>1. k < cpu.stack_size /\ k < First
    BY <1>1, <1>2, <1>3, <1>6, <1>7
  <2>2. CASE i + 1 = Depth
    BY <1>1, <1>2, <1>5, <1>7, <2>1, <2>2 DEF Foreign
  <2>3. CASE i + 1 # Depth
    BY <1>1, <1>2, <1>4, <1>7, <2>1, <2>3 DEF Foreign
  <2> QED
    BY <2>2, <2>3
<1>8. \A k \in {at, at + 1, at + 2, at + 3} : k \in Nat /\ at <= k /\ k < at + 4
  BY <1>2
<1> QED
  BY <1>2, <1>3, <1>6, <1>7, <1>8 DEF at

(* After a step that leaves the callers' words alone, nothing has changed  *)
(* between the frames.                                                     *)
LEMMA OwnStepKeeps ==
    ASSUME CInv, status = "running", IInv', UNCHANGED frames, OwnKept(First)
    PROVE  CInv'
<1>1. IInv /\ frames \in Seq(Frame) /\ Apart /\ LinksIntact /\ frames' \in Seq(Frame)
  BY DEF CInv
<1>2. status' # "undefined"
  BY DEF OwnKept
<1>3. ASSUME status' = "running" PROVE Apart' /\ LinksIntact'
  <2>1. /\ cpu'.lv = cpu.lv /\ cpu'.nv = cpu.nv /\ cpu'.fp = cpu.fp
        /\ cpu'.sp >= First - 1
        /\ cpu.stack_size <= cpu'.stack_size
        /\ \A k \in 0 .. cpu.stack_size - 1 :
              Foreign(k, First) => cpu'.stack[k] = cpu.stack[k]
    BY <1>3 DEF OwnKept
  <2>2. Depth' = Depth /\ Depth \in Nat /\ Depth >= 1
    BY <1>1, FrameFacts DEF Depth
  <2>3. ASSUME NEW i \in 1 .. Depth
        PROVE  /\ Registers(i)'.lv = Registers(i).lv
               /\ Registers(i)'.nv = Registers(i).nv
               /\ Registers(i)'.fp = Registers(i).fp
    BY <2>1, <2>2 DEF Registers
  <2>4. \A i \in 1 .. Depth : FirstOperand(i)' = FirstOperand(i)
    BY <2>2, <2>3 DEF FirstOperand
  <2>5. Apart'
    <3>1. Registers(1)'.lv = 0
      BY <1>1, <2>2, <2>3 DEF Apart
    <3>2. \A i \in 1 .. Depth : Registers(i)'.fp = Registers(i)'.lv + Registers(i)'.nv
      BY <1>1, <2>3 DEF Apart
    <3>3. ASSUME NEW j \in 1 .. Depth, NEW i \in 1 .. j - 1
          PROVE  FirstOperand(i)' <= Registers(j)'.lv
      <4>1. i \in 1 .. Depth
        BY <2>2
      <4> QED
        BY <1>1, <2>3, <2>4, <4>1 DEF Apart
    <3>4. cpu'.sp >= FirstOperand(Depth)' - 1
      BY <1>1, <2>1, <2>2, <2>4, FrameFacts
    <3> QED
      BY <2>2, <3>1, <3>2, <3>3, <3>4 DEF Apart
  <2>6. LinksIntact'
    <3> SUFFICES ASSUME NEW i \in 1 .. Depth - 1
                 PROVE  LET at == Registers(i + 1)'.fp
                            f  == frames[i]
                        IN  /\ {at, at + 1, at + 2, at + 3} \subseteq DOMAIN cpu'.stack
                            /\ cpu'.stack[at] = f.lv     /\ cpu'.stack[at + 1] = f.nv
                            /\ cpu'.stack[at + 2] = f.fp /\ cpu'.stack[at + 3] = f.pc
      BY <2>2, FrameFacts DEF LinksIntact, Depth, CInv
    <3> DEFINE at == Registers(i + 1).fp
    <3>1. Registers(i + 1)'.fp = at
      BY <2>2, <2>3
    <3>2. /\ at \in Nat /\ at + 4 <= cpu.stack_size
          /\ \A k \in {at, at + 1, at + 2, at + 3} :
                k \in 0 .. cpu.stack_size - 1 /\ Foreign(k, First)
      BY <1>1, LinksAreForeign, Zenon
    <3>3. /\ cpu.stack[at] = frames[i].lv     /\ cpu.stack[at + 1] = frames[i].nv
          /\ cpu.stack[at + 2] = frames[i].fp /\ cpu.stack[at + 3] = frames[i].pc
      BY <1>1, FrameFacts DEF LinksIntact
    <3> HIDE DEF at
    <3>4. /\ cpu'.stack_size \in Nat /\ cpu.stack_size \in Nat
          /\ cpu'.stack \in [0 .. cpu'.stack_size - 1 -> Word]
      BY <1>1, StackFacts, WordMaxAssumption DEF IInv, TypeOK
    <3>5. {at, at + 1, at + 2, at + 3} \subseteq DOMAIN cpu'.stack
      <4>1. cpu.stack_size <= cpu'.stack_size
        BY <2>1
      <4>2. {at, at + 1, at + 2, at + 3} \subseteq 0 .. cpu'.stack_size - 1
        <5>1. at \in Nat /\ at + 4 <= cpu'.stack_size
          BY <3>2, <3>4, <4>1
        <5> QED
          BY <3>4, <5>1
      <4>3. DOMAIN cpu'.stack = 0 .. cpu'.stack_size - 1
        BY <3>4, Zenon
      <4> QED
        BY <4>2, <4>3, Zenon
    <3>6. \A k \in {at, at + 1, at + 2, at + 3} : cpu'.stack[k] = cpu.stack[k]
      BY <2>1, <3>2
    <3> QED
      BY <3>1, <3>3, <3>5, <3>6
  <2> QED
    BY <2>5, <2>6
<1> QED
  BY <1>1, <1>2, <1>3 DEF CInv, LinksIntact

-----------------------------------------------------------------------------
(* A call                                                                  *)

(* What a call makes of the stack: the last words become the first local   *)
(* variables of the method, the others are 0, and the link area lies above *)
(* them.                                                                   *)
CallMade(args, locals) ==
    /\ cpu'.lv = cpu.sp - args + 1 /\ cpu'.nv = args + locals
    /\ cpu'.fp = cpu.sp + locals + 1 /\ cpu'.sp = cpu.sp + locals + 4
    /\ cpu'.stack_size \in Nat /\ cpu'.sp < cpu'.stack_size
    /\ cpu'.stack \in [0 .. cpu'.stack_size - 1 -> Word]
    /\ \A k \in 0 .. cpu.sp : cpu'.stack[k] = cpu.stack[k]
    /\ \A k \in cpu.sp + 1 .. cpu.sp + locals : cpu'.stack[k] = 0
    /\ cpu'.stack[cpu.sp + locals + 1] = cpu.lv
    /\ cpu'.stack[cpu.sp + locals + 2] = cpu.nv
    /\ cpu'.stack[cpu.sp + locals + 3] = cpu.fp
    /\ cpu'.stack[cpu.sp + locals + 4] = cpu.pc + 3

LEMMA FramedFields ==
    ASSUME NEW m, IsMachine(m), NEW fp, NEW lv, NEW nv, NEW s,
           NEW r, Framed(m, r, fp, lv, nv, s)
    PROVE  /\ r.ok = m.ok
           /\ r.cpu.fp = fp /\ r.cpu.lv = lv /\ r.cpu.nv = nv /\ r.cpu.stack = s
           /\ r.cpu.sp = m.cpu.sp /\ r.cpu.stack_size = m.cpu.stack_size
           /\ r.cpu.pc = m.cpu.pc
<1>1. IsCpu(m.cpu)
  BY DEF IsMachine
<1>2. /\ r.ok = m.ok
      /\ r.cpu = [m.cpu EXCEPT !.fp = fp, !.nv = nv, !.lv = lv, !.stack = s]
  BY DEF IsMachine, Framed
<1> QED
  BY <1>1, <1>2, ZenonT(30) DEF IsCpu

(* A push onto a stack that has room for what it holds.                    *)
LEMMA PushedOnto ==
    ASSUME NEW m, NEW r, NEW w, IsMachine(m), Pushed(m, r, w), r.ok,
           m.cpu.sp \in Nat, m.cpu.sp < m.cpu.stack_size
    PROVE  /\ IsMachine(r) /\ m.ok
           /\ r.cpu.sp = m.cpu.sp + 1 /\ r.cpu.sp < r.cpu.stack_size
           /\ \A k \in 0 .. m.cpu.sp : r.cpu.stack[k] = m.cpu.stack[k]
           /\ r.cpu.stack[m.cpu.sp + 1] = w
<1>1. m.cpu.stack_size \in Nat
  BY WordMaxAssumption DEF IsMachine, IsCpu
<1> QED
  BY <1>1 DEF Pushed

(* The four words of a link area above word b, and the old words below.    *)
Linked(m, b, link) ==
    /\ m.cpu.sp = b + 4 /\ m.cpu.sp < m.cpu.stack_size
    /\ \A k \in 0 .. cpu.sp : m.cpu.stack[k] = cpu.stack[k]
    /\ m.cpu.stack[b + 1] = link[1] /\ m.cpu.stack[b + 2] = link[2]
    /\ m.cpu.stack[b + 3] = link[3] /\ m.cpu.stack[b + 4] = link[4]

(* The link area, pushed word for word above the local variables.          *)
LEMMA LinkPushed ==
    ASSUME IInv, NEW locals \in Nat, NEW m, IsMachine(m),
           m.cpu.sp = cpu.sp + locals, m.cpu.stack = cpu.stack,
           m.cpu.stack_size = cpu.stack_size, NEW w1, NEW w2, NEW w3, NEW w4,
           NEW m1, Pushed(m, m1, w1), NEW m2, Pushed(m1, m2, w2),
           NEW m3, Pushed(m2, m3, w3), NEW m4, Pushed(m3, m4, w4), m4.ok
    PROVE  Linked(m4, cpu.sp + locals, <<w1, w2, w3, w4>>)
<1> DEFINE b == cpu.sp + locals
<1>0. /\ cpu.sp \in Int /\ cpu.sp >= -1 /\ cpu.sp < cpu.stack_size
      /\ cpu.stack_size \in Nat /\ b \in Int /\ b >= -1 /\ cpu.sp <= b
  BY StackFacts
<1>1. m1.ok /\ m2.ok /\ m3.ok
  BY DEF Pushed
<1> HIDE DEF b
<1>2. /\ IsMachine(m1) /\ m1.cpu.sp = b + 1 /\ m1.cpu.sp < m1.cpu.stack_size
      /\ \A k \in 0 .. cpu.sp : m1.cpu.stack[k] = cpu.stack[k]
      /\ m1.cpu.stack[b + 1] = w1
  BY <1>0, <1>1 DEF Pushed, b
<1>3. /\ IsMachine(m2) /\ m2.cpu.sp = b + 1 + 1 /\ m2.cpu.sp < m2.cpu.stack_size
      /\ \A k \in 0 .. b + 1 : m2.cpu.stack[k] = m1.cpu.stack[k]
      /\ m2.cpu.stack[b + 1 + 1] = w2
  <2>1. m1.cpu.sp \in Nat
    BY <1>0, <1>2
  <2> QED
    BY <1>1, <1>2, <2>1, PushedOnto
<1>4. /\ IsMachine(m3) /\ m3.cpu.sp = b + 1 + 1 + 1 /\ m3.cpu.sp < m3.cpu.stack_size
      /\ \A k \in 0 .. b + 1 + 1 : m3.cpu.stack[k] = m2.cpu.stack[k]
      /\ m3.cpu.stack[b + 1 + 1 + 1] = w3
  <2>1. m2.cpu.sp \in Nat
    BY <1>0, <1>3
  <2> QED
    BY <1>1, <1>3, <2>1, PushedOnto
<1>5. /\ m4.cpu.sp = b + 1 + 1 + 1 + 1 /\ m4.cpu.sp < m4.cpu.stack_size
      /\ \A k \in 0 .. b + 1 + 1 + 1 : m4.cpu.stack[k] = m3.cpu.stack[k]
      /\ m4.cpu.stack[b + 1 + 1 + 1 + 1] = w4
  <2>1. m3.cpu.sp \in Nat
    BY <1>0, <1>4
  <2> QED
    BY <1>1, <1>4, <2>1, PushedOnto
<1>6. /\ b + 1 + 1 = b + 2 /\ b + 1 + 1 + 1 = b + 3 /\ b + 1 + 1 + 1 + 1 = b + 4
      /\ b + 1 \in 0 .. b + 2 /\ b + 1 \in 0 .. b + 3 /\ b + 2 \in 0 .. b + 3
  BY <1>0
<1>7. \A k \in 0 .. cpu.sp : k \in 0 .. b + 1 /\ k \in 0 .. b + 2 /\ k \in 0 .. b + 3
  BY <1>0
<1>8. \A k \in 0 .. cpu.sp : m4.cpu.stack[k] = cpu.stack[k]
  BY <1>2, <1>3, <1>4, <1>5, <1>6, <1>7
<1>9. /\ m4.cpu.stack[b + 1] = w1 /\ m4.cpu.stack[b + 2] = w2
      /\ m4.cpu.stack[b + 3] = w3 /\ m4.cpu.stack[b + 4] = w4
  BY <1>2, <1>3, <1>4, <1>5, <1>6
<1>10. m4.cpu.sp = b + 4
  BY <1>5, <1>6
<1> QED
  BY <1>5, <1>8, <1>9, <1>10 DEF b, Linked

LEMMA EnteredResult ==
    ASSUME IInv, NEW args \in Nat, NEW locals \in Nat,
           NEW m, IsMachine(m), m.ok,
           Linked(m, cpu.sp + locals, <<cpu.lv, cpu.nv, cpu.fp, cpu.pc + 3>>),
           cpu.sp + 1 >= args,
           cpu' = Entered(m, args, locals).cpu
    PROVE  CallMade(args, locals) /\ cpu'.pc = m.cpu.pc /\ Entered(m, args, locals).ok
<1> DEFINE b == cpu.sp + locals
           fp == m.cpu.sp - 3
           lv == fp - args - locals
           nv == args + locals
           zeros == lv + args .. fp - 1
           stack == [k \in DOMAIN m.cpu.stack |-> IF k \in zeros THEN 0 ELSE m.cpu.stack[k]]
           r == Entered(m, args, locals)
<1> HIDE DEF fp, lv, nv, zeros, stack, r
<1>1. /\ cpu.sp \in Int /\ cpu.sp >= -1 /\ b \in Int /\ b >= -1 /\ cpu.sp <= b
      /\ m.cpu.sp = b + 4
  <2>1. cpu.sp \in Int /\ cpu.sp >= -1
    BY StackFacts
  <2>2. b \in Int /\ b >= -1 /\ cpu.sp <= b
    BY <2>1
  <2> QED
    BY <2>1, <2>2 DEF Linked
<1>2. /\ m.cpu.stack_size \in Nat /\ b + 4 < m.cpu.stack_size
      /\ m.cpu.stack \in [0 .. m.cpu.stack_size - 1 -> Word]
  BY <1>1, WordMaxAssumption DEF IsMachine, IsCpu, Linked
<1>3. b + 1 = cpu.sp + locals + 1 /\ b + 2 = cpu.sp + locals + 2
       /\ b + 3 = cpu.sp + locals + 3 /\ b + 4 = cpu.sp + locals + 4
  BY <1>1
<1> HIDE DEF b
<1>4. fp = b + 1 /\ lv = cpu.sp - args + 1 /\ lv >= 0
  <2>1. fp = b + 1
    BY <1>1 DEF fp
  <2>2. fp - args - locals = cpu.sp - args + 1
    BY <1>1, <2>1 DEF b
  <2> QED
    BY <1>1, <2>1, <2>2 DEF lv
<1>5. \A k \in Int : k \in zeros <=> cpu.sp + 1 <= k /\ k <= b
  BY <1>1, <1>4 DEF zeros
<1>6. Framed(m, r, fp, lv, nv, stack)
  BY <1>4 DEF Entered, Framed, fp, lv, nv, stack, r, zeros
<1>7. /\ r.ok /\ r.cpu.fp = fp /\ r.cpu.lv = lv /\ r.cpu.nv = nv
      /\ r.cpu.stack = stack /\ r.cpu.sp = m.cpu.sp
      /\ r.cpu.stack_size = m.cpu.stack_size /\ r.cpu.pc = m.cpu.pc
  BY <1>6, FramedFields
<1>8. \A k \in 0 .. m.cpu.stack_size - 1 :
         stack[k] = IF k \in zeros THEN 0 ELSE m.cpu.stack[k]
  BY <1>2 DEF stack
<1>9. stack \in [0 .. m.cpu.stack_size - 1 -> Word]
  <2>1. 0 \in Word
    BY WordMaxAssumption DEF Word, WordMin
  <2> QED
    BY <1>2, <2>1 DEF stack
<1>10. \A k \in 0 .. cpu.sp : stack[k] = cpu.stack[k]
  <2>1. ASSUME NEW k \in 0 .. cpu.sp
        PROVE  k \in 0 .. m.cpu.stack_size - 1 /\ k \notin zeros
    <3>1. k \in Int /\ 0 <= k /\ k < m.cpu.stack_size /\ ~(cpu.sp + 1 <= k)
      BY <1>1, <1>2
    <3> QED
      BY <1>2, <1>5, <3>1
  <2> QED
    BY <1>8, <2>1 DEF Linked
<1>11. \A k \in cpu.sp + 1 .. b : stack[k] = 0
  <2>1. \A k \in cpu.sp + 1 .. b : k \in 0 .. m.cpu.stack_size - 1 /\ k \in zeros
    BY <1>2, <1>1, <1>5
  <2> QED
    BY <1>8, <2>1
<1>12. \A k \in {b + 1, b + 2, b + 3, b + 4} : stack[k] = m.cpu.stack[k]
  <2>1. ASSUME NEW k \in {b + 1, b + 2, b + 3, b + 4}
        PROVE  k \in 0 .. m.cpu.stack_size - 1 /\ k \notin zeros
    <3> DEFINE size == m.cpu.stack_size
    <3>1. b \in Int /\ b >= -1 /\ size \in Nat /\ b + 4 < size
      BY <1>1, <1>2
    <3> HIDE DEF size
    <3>2. k \in Int /\ b < k /\ k <= b + 4
      BY <3>1
    <3>3. 0 <= k /\ k < size /\ ~(k <= b)
      BY <3>1, <3>2
    <3>4. k \notin zeros
      BY <1>5, <3>2, <3>3
    <3>5. k \in 0 .. size - 1
      BY <3>1, <3>2, <3>3
    <3> QED
      BY <3>4, <3>5 DEF size
  <2> QED
    BY <1>8, <2>1
<1>13. /\ cpu'.lv = lv /\ cpu'.nv = nv /\ cpu'.fp = fp /\ cpu'.stack = stack
       /\ cpu'.sp = m.cpu.sp /\ cpu'.stack_size = m.cpu.stack_size
       /\ cpu'.pc = m.cpu.pc
  BY <1>7 DEF r
<1>14. /\ cpu'.lv = cpu.sp - args + 1 /\ cpu'.nv = args + locals
       /\ cpu'.fp = cpu.sp + locals + 1 /\ cpu'.sp = cpu.sp + locals + 4
  BY <1>1, <1>3, <1>4, <1>13 DEF nv
<1>15. CallMade(args, locals)
  <2>1. /\ \A k \in cpu.sp + 1 .. cpu.sp + locals : stack[k] = 0
        /\ stack[cpu.sp + locals + 1] = cpu.lv /\ stack[cpu.sp + locals + 2] = cpu.nv
        /\ stack[cpu.sp + locals + 3] = cpu.fp /\ stack[cpu.sp + locals + 4] = cpu.pc + 3
    BY <1>11, <1>12, <1>3 DEF b, Linked
  <2>2. cpu'.stack_size \in Nat /\ cpu'.sp < cpu'.stack_size
    BY <1>1, <1>2, <1>13
  <2>3. /\ cpu'.stack \in [0 .. cpu'.stack_size - 1 -> Word]
        /\ \A k \in 0 .. cpu.sp : cpu'.stack[k] = cpu.stack[k]
    BY <1>9, <1>10, <1>13
  <2> HIDE DEF b
  <2> QED
    BY <1>13, <1>14, <2>1, <2>2, <2>3 DEF CallMade
<1> QED
  BY <1>7, <1>13, <1>15 DEF r

(* INVOKEVIRTUAL of a program that has the arguments.                      *)
LEMMA CallResult ==
    ASSUME IInv, exec_op_invokevirtual, status' = "running",
           Arguments <= cpu.sp + 1
    PROVE  \E locals \in Nat :
              /\ CallMade(Arguments, locals)
              /\ Arguments \in Nat
              /\ get_constant(arg_short(1)) \in Int
<1> DEFINE target == get_constant(arg_short(1))
           args   == Unsigned16(CodeShort(target))
           locals == Unsigned16(CodeShort(target + 2))
           m      == [Machine EXCEPT !.cpu.pc = target + 4, !.cpu.sp = @ + locals]
<1>1. HasArgs(2) /\ IsConstant(arg_short(1)) /\ target >= 0 /\ target + 4 <= CodeSize
  BY DEF exec_op_invokevirtual, DestroyNow
<1>2. PICK m1 \in stack_push(m, cpu.lv) :
      \E m2 \in stack_push(m1, cpu.nv) :
      \E m3 \in stack_push(m2, cpu.fp) :
      \E m4 \in stack_push(m3, cpu.pc + 3) : Become(Entered(m4, args, locals))
  BY <1>1 DEF exec_op_invokevirtual
<1>3. PICK m2 \in stack_push(m1, cpu.nv) :
       \E m3 \in stack_push(m2, cpu.fp) :
       \E m4 \in stack_push(m3, cpu.pc + 3) : Become(Entered(m4, args, locals))
  BY <1>2
<1>4. PICK m3 \in stack_push(m2, cpu.fp) :
       \E m4 \in stack_push(m3, cpu.pc + 3) : Become(Entered(m4, args, locals))
  BY <1>3
<1>5. PICK m4 \in stack_push(m3, cpu.pc + 3) : Become(Entered(m4, args, locals))
  BY <1>4
<1>6. /\ target \in Int /\ args \in Nat /\ locals \in Nat
      /\ cpu.lv \in Word /\ cpu.nv \in Word /\ cpu.fp \in Word /\ cpu.pc + 3 \in Word
  BY <1>1, CallOperands
<1>7. Arguments = args
  BY DEF Arguments
<1> HIDE DEF target, args, locals
<1>8. /\ IsMachine(m) /\ m.cpu.sp = cpu.sp + locals
      /\ m.cpu.stack = cpu.stack /\ m.cpu.stack_size = cpu.stack_size
  BY <1>6, CallMachine, Zenon
<1> HIDE DEF m
<1>9. Pushed(m, m1, cpu.lv)
  BY <1>2, <1>6, <1>8, StackPush
<1>10. Pushed(m1, m2, cpu.nv)
  BY <1>3, <1>6, <1>9, StackPush DEF Pushed
<1>11. Pushed(m2, m3, cpu.fp)
  BY <1>4, <1>6, <1>10, StackPush DEF Pushed
<1>12. Pushed(m3, m4, cpu.pc + 3)
  BY <1>5, <1>6, <1>11, StackPush DEF Pushed
<1> DEFINE r == Entered(m4, args, locals)
<1>13. IsMachine(m4) /\ (r.ok => m4.ok)
  BY <1>12 DEF Pushed, Entered, IsMachine
<1>14. r.ok /\ cpu' = r.cpu
  <2>1. Become(r)
    BY <1>5
  <2> HIDE DEF r
  <2> QED
    BY <2>1 DEF Become, DestroyNow
<1>15. Linked(m4, cpu.sp + locals, <<cpu.lv, cpu.nv, cpu.fp, cpu.pc + 3>>)
  BY <1>6, <1>8, <1>9, <1>10, <1>11, <1>12, <1>13, <1>14, LinkPushed
<1>16. CallMade(args, locals)
  BY <1>6, <1>7, <1>13, <1>14, <1>15, EnteredResult
<1> QED
  BY <1>6, <1>7, <1>16 DEF target

(* The arguments are words of the caller.                                  *)
LEMMA CallTakesItsOwn ==
    ASSUME IInv, frames \in Seq(Frame), Apart, TakesItsOwn, cpu.pc < CodeSize,
           exec_op_invokevirtual, status' = "running"
    PROVE  /\ Arguments \in Nat /\ First + Arguments <= cpu.sp + 1
           /\ get_constant(arg_short(1)) \in Int
<1> DEFINE target == get_constant(arg_short(1))
<1>1. /\ HasArgs(2) /\ IsConstant(arg_short(1)) /\ target >= 0 /\ target + 4 <= CodeSize
      /\ CodeByte(cpu.pc) = OP_INVOKEVIRTUAL
  BY DEF exec_op_invokevirtual, DestroyNow, Fetch, Opcode
<1>2. Arguments \in Nat /\ target \in Int
  BY <1>1, CallOperands DEF Arguments
<1>3. target \in 0 .. CodeSize - 4
  BY <1>1, <1>2, ProgramIsCode
<1>4. Operands >= Arguments
  BY <1>1, <1>3 DEF TakesItsOwn, IsCall
<1>5. Operands = cpu.sp - First + 1
  BY DEF Operands, First
<1>6. First \in Nat /\ cpu.sp \in Int
  BY FrameFacts, StackFacts
<1> HIDE DEF target, Operands, Arguments, First
<1>7. First + Arguments <= cpu.sp + 1
  BY <1>2, <1>4, <1>5, <1>6
<1> QED
  BY <1>2, <1>7 DEF target

LEMMA TopWordsAreWords ==
    ASSUME IInv, NEW n \in Nat, n <= cpu.sp + 1
    PROVE  /\ TopWords(n) \in Seq(Word) /\ Len(TopWords(n)) = n
           /\ \A k \in 1 .. n : TopWords(n)[k] = cpu.stack[cpu.sp - n + k]
<1>1. ASSUME NEW k \in 1 .. n
      PROVE  cpu.stack[cpu.sp - n + k] \in Word
  <2>1. /\ cpu.sp \in Int /\ cpu.sp < cpu.stack_size /\ cpu.stack_size \in Nat
        /\ cpu.stack \in [0 .. cpu.stack_size - 1 -> Word]
    BY StackFacts
  <2>2. cpu.sp - n + k \in 0 .. cpu.stack_size - 1
    BY <2>1
  <2> QED
    BY <2>1, <2>2
<1>2. TopWords(n) \in Seq(Word) /\ TopWords(n) = [k \in 1 .. n |-> cpu.stack[cpu.sp - n + k]]
  BY <1>1, IsASeq DEF TopWords
<1> QED
  BY <1>2, LenProperties

(* The frames after a call: those before, and one more.                    *)
Entering(f) ==
    /\ f \in Frame /\ frames' = Append(frames, f)
    /\ f.lv = cpu.lv /\ f.nv = cpu.nv /\ f.fp = cpu.fp /\ f.pc = cpu.pc + 3

LEMMA CallEnters ==
    ASSUME IInv, frames \in Seq(Frame), Apart, TakesItsOwn, cpu.pc < CodeSize,
           Call, status' = "running"
    PROVE  /\ Arguments \in Nat /\ First + Arguments <= cpu.sp + 1
           /\ \E locals \in Nat : CallMade(Arguments, locals)
           /\ \E f : Entering(f)
<1>1. exec_op_invokevirtual
  BY DEF Call
<1>2. /\ Arguments \in Nat /\ First + Arguments <= cpu.sp + 1
      /\ get_constant(arg_short(1)) \in Int
  BY <1>1, CallTakesItsOwn
<1>3. Arguments <= cpu.sp + 1
  <2>1. First \in Nat /\ cpu.sp \in Int
    BY FrameFacts, StackFacts
  <2> HIDE DEF First, Arguments
  <2> QED
    BY <1>2, <2>1
<1>4. \E locals \in Nat : CallMade(Arguments, locals)
  BY <1>1, <1>3, CallResult
<1> DEFINE f == [lv |-> cpu.lv, nv |-> cpu.nv, fp |-> cpu.fp, pc |-> cpu.pc + 3,
                 entry |-> get_constant(arg_short(1)), args |-> TopWords(Arguments)]
<1>5. TopWords(Arguments) \in Seq(Word)
  BY <1>2, <1>3, TopWordsAreWords
<1>6. /\ cpu.lv \in Nat /\ cpu.nv \in Nat /\ cpu.fp \in Nat /\ cpu.pc + 3 \in Nat
  BY StackFacts
<1>7. f \in Frame
  BY <1>2, <1>5, <1>6 DEF Frame
<1>8. frames' = Append(frames, f)
  BY DEF Call
<1>9. Entering(f)
  BY <1>7, <1>8 DEF Entering
<1> QED
  BY <1>2, <1>4, <1>9

(* How the methods in progress change.                                     *)
LEMMA EnteredFrames ==
    ASSUME IInv, frames \in Seq(Frame), NEW f, Entering(f)
    PROVE  /\ frames' \in Seq(Frame) /\ Depth' = Depth + 1
           /\ \A i \in 1 .. Depth - 1 : frames'[i] = frames[i]
           /\ frames'[Depth] = f
           /\ \A i : i = Depth + 1 => Registers(i)' = cpu' /\ FirstOperand(i)' = cpu'.fp + 4
           /\ \A i \in 1 .. Depth :
                 /\ Registers(i)'.lv = Registers(i).lv
                 /\ Registers(i)'.nv = Registers(i).nv
                 /\ Registers(i)'.fp = Registers(i).fp
                 /\ FirstOperand(i)' = FirstOperand(i)
<1>1. /\ Depth \in Nat /\ Len(frames) = Depth - 1 /\ Depth >= 1
      /\ Registers(Depth) = cpu
      /\ \A i \in 1 .. Depth - 1 : Registers(i) = frames[i]
  BY FrameFacts
<1>2. /\ frames' \in Seq(Frame) /\ Len(frames') = Depth
      /\ \A i \in 1 .. Depth - 1 : frames'[i] = frames[i]
      /\ frames'[Depth] = f
  BY <1>1, AppendProperties DEF Entering
<1>3. Depth' = Depth + 1
  BY <1>2 DEF Depth
<1>4. ASSUME NEW i, i = Depth + 1
      PROVE  Registers(i)' = cpu' /\ FirstOperand(i)' = cpu'.fp + 4
  <2>1. Registers(i)' = cpu'
    BY <1>1, <1>3, <1>4 DEF Registers
  <2>2. i # 1
    BY <1>1, <1>4
  <2> QED
    BY <2>1, <2>2 DEF FirstOperand
<1>5. \A i \in 1 .. Depth : Registers(i)' = frames'[i]
  BY <1>1, <1>3 DEF Registers
<1>6. ASSUME NEW i \in 1 .. Depth
      PROVE  /\ Registers(i)'.lv = Registers(i).lv
             /\ Registers(i)'.nv = Registers(i).nv
             /\ Registers(i)'.fp = Registers(i).fp
  <2>1. CASE i = Depth
    BY <1>1, <1>2, <1>5, <2>1 DEF Entering
  <2>2. CASE i # Depth
    <3>1. i \in 1 .. Depth - 1
      BY <1>1, <2>2
    <3> QED
      BY <1>1, <1>2, <1>5, <3>1
  <2> QED
    BY <2>1, <2>2
<1>7. \A i \in 1 .. Depth : FirstOperand(i)' = FirstOperand(i)
  BY <1>1, <1>6 DEF FirstOperand
<1> QED
  BY <1>2, <1>3, <1>4, <1>6, <1>7

LEMMA CallKeepsApart ==
    ASSUME IInv, frames \in Seq(Frame), Apart, NEW f, Entering(f),
           NEW args \in Nat, First + args <= cpu.sp + 1,
           NEW locals \in Nat, CallMade(args, locals)
    PROVE  Apart'
<1>1. /\ cpu'.lv = cpu.sp - args + 1 /\ cpu'.nv = args + locals
      /\ cpu'.fp = cpu.sp + locals + 1 /\ cpu'.sp = cpu.sp + locals + 4
  BY DEF CallMade
<1>2. /\ Depth \in Nat /\ Depth >= 1 /\ Depth' = Depth + 1
      /\ \A i : i = Depth + 1 => Registers(i)' = cpu' /\ FirstOperand(i)' = cpu'.fp + 4
  BY FrameFacts, EnteredFrames
<1>3. \A i \in 1 .. Depth :
         /\ Registers(i)'.lv = Registers(i).lv
         /\ Registers(i)'.nv = Registers(i).nv
         /\ Registers(i)'.fp = Registers(i).fp
         /\ FirstOperand(i)' = FirstOperand(i)
  BY EnteredFrames
<1>4. cpu.sp \in Int /\ First \in Nat
  BY FrameFacts, StackFacts
<1>5. \A i \in 1 .. Depth : FirstOperand(i) \in Nat /\ FirstOperand(i) <= First
  BY FrameFacts, ApartFacts
<1> HIDE DEF First
<1>6. Registers(1)'.lv = 0
  BY <1>2, <1>3 DEF Apart
<1>7. ASSUME NEW i \in 1 .. Depth + 1
      PROVE  Registers(i)'.fp = Registers(i)'.lv + Registers(i)'.nv
  <2>1. CASE i = Depth + 1
    BY <1>1, <1>2, <1>4, <2>1
  <2>2. CASE i # Depth + 1
    <3>1. i \in 1 .. Depth
      BY <1>2, <2>2
    <3> QED
      BY <1>3, <3>1 DEF Apart
  <2> QED
    BY <2>1, <2>2
<1>8. ASSUME NEW j \in 1 .. Depth + 1, NEW i \in 1 .. j - 1
      PROVE  FirstOperand(i)' <= Registers(j)'.lv
  <2>1. i \in 1 .. Depth
    BY <1>2
  <2>2. CASE j = Depth + 1
    <3>1. FirstOperand(i)' \in Nat /\ FirstOperand(i)' <= First
      BY <1>3, <1>5, <2>1
    <3>2. First <= cpu'.lv /\ cpu'.lv \in Int
      BY <1>1, <1>4
    <3> QED
      BY <1>2, <1>4, <2>2, <3>1, <3>2
  <2>3. CASE j # Depth + 1
    <3>1. j \in 1 .. Depth
      BY <1>2, <2>3
    <3> QED
      BY <1>3, <2>1, <3>1 DEF Apart
  <2> QED
    BY <2>2, <2>3
<1>9. cpu'.sp >= FirstOperand(Depth)' - 1
  <2>1. FirstOperand(Depth)' = cpu'.fp + 4
    BY <1>2
  <2> QED
    BY <1>1, <1>4, <2>1
<1> QED
  BY <1>2, <1>6, <1>7, <1>8, <1>9 DEF Apart

LEMMA CallKeepsLinks ==
    ASSUME IInv, frames \in Seq(Frame), Apart, LinksIntact, status = "running",
           NEW f, Entering(f), NEW args \in Nat, NEW locals \in Nat,
           CallMade(args, locals)
    PROVE  LinksIntact'
<1>1. /\ Depth \in Nat /\ Depth >= 1 /\ Len(frames) = Depth - 1
      /\ Depth' = Depth + 1 /\ (\A i : i = Depth + 1 => Registers(i)' = cpu')
      /\ frames' \in Seq(Frame) /\ Len(frames') = Depth
      /\ \A i \in 1 .. Depth - 1 : frames'[i] = frames[i]
      /\ frames'[Depth] = f
  <2>1. Len(frames') + 1 = Depth' /\ Len(frames') \in Nat
    BY EnteredFrames, LenProperties DEF Depth
  <2> QED
    BY <2>1, FrameFacts, EnteredFrames
<1>2. \A i \in 1 .. Depth : Registers(i)'.fp = Registers(i).fp
  BY EnteredFrames
<1>3. /\ cpu.sp \in Int /\ cpu.sp >= -1
      /\ cpu'.sp = cpu.sp + locals + 4 /\ cpu'.fp = cpu.sp + locals + 1
      /\ cpu'.stack_size \in Nat /\ cpu'.sp < cpu'.stack_size
      /\ DOMAIN cpu'.stack = 0 .. cpu'.stack_size - 1
      /\ \A k \in 0 .. cpu.sp : cpu'.stack[k] = cpu.stack[k]
  BY StackFacts DEF CallMade
<1> SUFFICES ASSUME NEW i \in 1 .. Depth
             PROVE  LET at == Registers(i + 1)'.fp
                        g  == frames'[i]
                    IN  /\ {at, at + 1, at + 2, at + 3} \subseteq DOMAIN cpu'.stack
                        /\ cpu'.stack[at] = g.lv     /\ cpu'.stack[at + 1] = g.nv
                        /\ cpu'.stack[at + 2] = g.fp /\ cpu'.stack[at + 3] = g.pc
  BY <1>1 DEF LinksIntact
<1>4. CASE i = Depth
  <2> DEFINE at == cpu'.fp
  <2>1. Registers(i + 1)'.fp = at /\ frames'[i] = f
    BY <1>1, <1>4
  <2>2. /\ at = cpu.sp + locals + 1 /\ at + 1 = cpu.sp + locals + 2
        /\ at + 2 = cpu.sp + locals + 3 /\ at + 3 = cpu.sp + locals + 4
    BY <1>3
  <2>4. /\ cpu'.stack[at] = f.lv     /\ cpu'.stack[at + 1] = f.nv
        /\ cpu'.stack[at + 2] = f.fp /\ cpu'.stack[at + 3] = f.pc
    BY <2>2 DEF CallMade, Entering
  <2>5. at \in Nat /\ at + 3 < cpu'.stack_size
    BY <1>3
  <2> HIDE DEF at
  <2>3. {at, at + 1, at + 2, at + 3} \subseteq DOMAIN cpu'.stack
    BY <1>3, <2>5
  <2> QED
    BY <2>1, <2>3, <2>4
<1>5. CASE i # Depth
  <2> DEFINE at == Registers(i + 1).fp
  <2>1. i \in 1 .. Depth - 1 /\ i + 1 \in 1 .. Depth
    BY <1>1, <1>5
  <2>2. Registers(i + 1)'.fp = at /\ frames'[i] = frames[i]
    BY <1>1, <1>2, <2>1
  <2>3. at \in Nat /\ at + 4 <= First
    BY <2>1, LinksAreForeign, Zenon
  <2>4. First \in Nat /\ First <= cpu.sp + 1
    BY FrameFacts, ApartFacts
  <2>5. /\ cpu.stack[at] = frames[i].lv     /\ cpu.stack[at + 1] = frames[i].nv
        /\ cpu.stack[at + 2] = frames[i].fp /\ cpu.stack[at + 3] = frames[i].pc
    BY <1>1, <2>1 DEF LinksIntact
  <2> HIDE DEF at, First
  <2>6. at + 3 <= cpu.sp
    BY <1>3, <2>3, <2>4
  <2>7. {at, at + 1, at + 2, at + 3} \subseteq 0 .. cpu.sp
    BY <1>3, <2>3, <2>6
  <2>8. 0 .. cpu.sp \subseteq DOMAIN cpu'.stack
    BY <1>3
  <2> QED
    BY <1>3, <2>2, <2>5, <2>7, <2>8
<1> QED
  BY <1>4, <1>5

LEMMA CallKeeps ==
    ASSUME CInv, IInv', TakesItsOwn, cpu.pc < CodeSize, Call
    PROVE  CInv'
<1>1. IInv /\ frames \in Seq(Frame) /\ Apart /\ LinksIntact /\ status = "running"
  BY DEF CInv, Call, exec_op_invokevirtual, Fetch
<1>2. CASE status' = "running"
  <2>1. Arguments \in Nat /\ First + Arguments <= cpu.sp + 1
    BY <1>1, <1>2, CallEnters
  <2>2. PICK locals \in Nat : CallMade(Arguments, locals)
    BY <1>1, <1>2, CallEnters
  <2>3. PICK f : Entering(f)
    BY <1>1, <1>2, CallEnters
  <2> HIDE DEF First, Arguments
  <2>4. frames' \in Seq(Frame)
    BY <1>1, <2>3, EnteredFrames
  <2> QED
    BY <1>1, <1>2, <2>1, <2>2, <2>3, <2>4, CallKeepsApart, CallKeepsLinks DEF CInv
<1>3. CASE status' # "running"
  <2>1. frames' = frames
    BY <1>3 DEF Call
  <2>2. status' # "undefined"
    <3>1. DestroyNow \/ \E m : Become(m)
      BY DEF Call, exec_op_invokevirtual
    <3> QED
      BY <1>1, <3>1 DEF Become, DestroyNow
  <2> QED
    BY <1>1, <1>3, <2>1, <2>2 DEF CInv, LinksIntact
<1> QED
  BY <1>2, <1>3

-----------------------------------------------------------------------------
(* A return                                                                *)

LEMMA ReturnedFields ==
    ASSUME IInv, NEW junk \in Junk, NEW m, m = Returned(junk)
    PROVE  /\ m.ok /\ m.cpu.stack = cpu.stack /\ m.cpu.stack_size = cpu.stack_size
           /\ m.cpu.pc = StackAt(cpu, cpu.fp + 3, junk)
           /\ m.cpu.fp = StackAt(cpu, cpu.fp + 2, junk)
           /\ m.cpu.nv = StackAt(cpu, cpu.fp + 1, junk)
           /\ m.cpu.lv = StackAt(cpu, cpu.fp, junk)
           /\ m.cpu.sp = cpu.fp - 1 - cpu.nv
<1>1. IsCpu(cpu)
  BY MachineIsGood DEF Good, IsMachine
<1> DEFINE pc == StackAt(cpu, cpu.fp + 3, junk)
           fp == StackAt(cpu, cpu.fp + 2, junk)
           nv == StackAt(cpu, cpu.fp + 1, junk)
           lv == StackAt(cpu, cpu.fp, junk)
           sp == cpu.fp - 1 - cpu.nv
<1>2. m = [Machine EXCEPT !.cpu.pc = pc, !.cpu.fp = fp, !.cpu.nv = nv,
                          !.cpu.lv = lv, !.cpu.sp = sp]
  BY DEF Returned
<1> HIDE DEF pc, fp, nv, lv, sp
<1>3. m.ok /\ m.cpu = [cpu EXCEPT !.pc = pc, !.fp = fp, !.nv = nv, !.lv = lv, !.sp = sp]
  BY <1>2 DEF Machine
<1>4. /\ m.cpu.pc = pc /\ m.cpu.fp = fp /\ m.cpu.nv = nv /\ m.cpu.lv = lv
      /\ m.cpu.sp = sp
      /\ m.cpu.stack = cpu.stack /\ m.cpu.stack_size = cpu.stack_size
  BY <1>1, <1>3, ZenonT(30) DEF IsCpu
<1> QED
  BY <1>3, <1>4 DEF pc, fp, nv, lv, sp

(* What a return reads is what the call had written.                       *)
Restored(m) ==
    /\ m.ok /\ m.cpu.stack = cpu.stack /\ m.cpu.stack_size = cpu.stack_size
    /\ m.cpu.lv = Last(frames).lv /\ m.cpu.nv = Last(frames).nv
    /\ m.cpu.fp = Last(frames).fp /\ m.cpu.pc = Last(frames).pc
    /\ m.cpu.sp = cpu.lv - 1

LEMMA LinkIsRead ==
    ASSUME CInv, status = "running", frames # <<>>, NEW junk \in Junk
    PROVE  Restored(Returned(junk))
<1>1. IInv /\ frames \in Seq(Frame) /\ Apart /\ LinksIntact
  BY DEF CInv
<1>2. /\ Len(frames) \in Nat /\ Len(frames) = Depth - 1 /\ Depth \in Nat /\ Depth >= 2
      /\ Registers(Depth) = cpu
  BY <1>1, FrameFacts
<1>3. Len(frames) \in 1 .. Len(frames) /\ Len(frames) + 1 = Depth
  BY <1>2
<1>4. /\ {cpu.fp, cpu.fp + 1, cpu.fp + 2, cpu.fp + 3} \subseteq DOMAIN cpu.stack
      /\ cpu.stack[cpu.fp] = Last(frames).lv     /\ cpu.stack[cpu.fp + 1] = Last(frames).nv
      /\ cpu.stack[cpu.fp + 2] = Last(frames).fp /\ cpu.stack[cpu.fp + 3] = Last(frames).pc
  <2> DEFINE n == Len(frames)
  <2>1. n \in 1 .. n /\ Registers(n + 1) = cpu /\ Last(frames) = frames[n]
    BY <1>2, <1>3 DEF Last
  <2>2. \A i \in 1 .. n :
            LET at == Registers(i + 1).fp
                f  == frames[i]
            IN  /\ {at, at + 1, at + 2, at + 3} \subseteq DOMAIN cpu.stack
                /\ cpu.stack[at] = f.lv     /\ cpu.stack[at + 1] = f.nv
                /\ cpu.stack[at + 2] = f.fp /\ cpu.stack[at + 3] = f.pc
    BY <1>1 DEF LinksIntact
  <2> HIDE DEF n
  <2> QED
    BY <2>1, <2>2
<1>5. DOMAIN cpu.stack = 0 .. cpu.stack_size - 1
  BY <1>1, StackFacts
<1>6. \A k \in DOMAIN cpu.stack : StackAt(cpu, k, junk) = cpu.stack[k]
  BY <1>5 DEF StackAt
<1>7. cpu.fp - 1 - cpu.nv = cpu.lv - 1
  BY <1>1, StackFacts, ApartFacts
<1> DEFINE m == Returned(junk)
<1>8. /\ m.ok /\ m.cpu.stack = cpu.stack /\ m.cpu.stack_size = cpu.stack_size
      /\ m.cpu.pc = StackAt(cpu, cpu.fp + 3, junk)
      /\ m.cpu.fp = StackAt(cpu, cpu.fp + 2, junk)
      /\ m.cpu.nv = StackAt(cpu, cpu.fp + 1, junk)
      /\ m.cpu.lv = StackAt(cpu, cpu.fp, junk)
      /\ m.cpu.sp = cpu.fp - 1 - cpu.nv
  BY <1>1, ReturnedFields
<1> HIDE DEF m
<1> QED
  BY <1>4, <1>6, <1>7, <1>8 DEF Restored, m

(* What a return makes of the stack: the result takes the place of the     *)
(* first argument, and the words below it are as they were.                *)
ReturnMade ==
    /\ cpu'.lv = Last(frames).lv /\ cpu'.nv = Last(frames).nv
    /\ cpu'.fp = Last(frames).fp /\ cpu'.pc = Last(frames).pc
    /\ cpu'.sp = cpu.lv
    /\ cpu'.stack_size \in Nat /\ cpu.stack_size <= cpu'.stack_size
    /\ cpu'.stack \in [0 .. cpu'.stack_size - 1 -> Word]
    /\ \A k \in 0 .. cpu.lv - 1 : cpu'.stack[k] = cpu.stack[k]
    /\ cpu'.stack[cpu.lv] = Top(1)

LEMMA ReturnResult ==
    ASSUME CInv, frames # <<>>, exec_op_ireturn, status' = "running"
    PROVE  ReturnMade
<1>1. IInv /\ frames \in Seq(Frame) /\ Apart /\ LinksIntact /\ status = "running"
  BY DEF CInv, exec_op_ireturn, Fetch
<1>2. PICK junk \in Junk :
         /\ CanPop(1) /\ IsFrame(Returned(junk).cpu)
         /\ Pushing(Returned(junk), Top(1))
  BY DEF exec_op_ireturn, DestroyNow
<1> DEFINE m == Returned(junk)
<1>3. Restored(m)
  BY <1>1, <1>2, LinkIsRead
<1>4. IsMachine(m) /\ Top(1) \in Word
  BY <1>1, <1>2, ReturnedIsGood, OperandsInStack DEF Good
<1>5. PICK r \in stack_push(m, Top(1)) : Become(r)
  BY <1>2 DEF Pushing
<1> DEFINE w == Top(1)
<1> HIDE DEF m, w
<1>6. Pushed(m, r, w)
  BY <1>4, <1>5, StackPush DEF w
<1>7. r.ok /\ cpu' = r.cpu
  BY <1>5 DEF Become, DestroyNow
<1>8. /\ r.cpu.lv = m.cpu.lv /\ r.cpu.nv = m.cpu.nv /\ r.cpu.fp = m.cpu.fp
      /\ r.cpu.pc = m.cpu.pc /\ r.cpu.sp = m.cpu.sp + 1
      /\ m.cpu.stack_size <= r.cpu.stack_size
      /\ \A k \in 0 .. m.cpu.stack_size - 1 :
                     k <= m.cpu.sp => r.cpu.stack[k] = m.cpu.stack[k]
      /\ r.cpu.sp >= 0 => r.cpu.stack[r.cpu.sp] = w
  BY <1>6, <1>7 DEF Pushed, SameRegisters
<1>9. cpu.lv \in Nat /\ cpu.lv < cpu.stack_size /\ cpu.stack_size \in Nat
  BY <1>1, StackFacts
<1>10. /\ r.cpu.stack_size \in Nat
       /\ r.cpu.stack \in [0 .. r.cpu.stack_size - 1 -> Word]
  BY <1>6, WordMaxAssumption DEF Pushed, IsMachine, IsCpu
<1>11. r.cpu.sp = cpu.lv
  BY <1>3, <1>8, <1>9 DEF Restored
<1>12. \A k \in 0 .. cpu.lv - 1 : r.cpu.stack[k] = cpu.stack[k]
  BY <1>3, <1>8, <1>9 DEF Restored
<1> QED
  BY <1>3, <1>7, <1>8, <1>9, <1>10, <1>11, <1>12 DEF ReturnMade, Restored, w

(* A return of a program that takes only its own is not refused.           *)
LEMMA ReturnSucceeds ==
    ASSUME CInv, TakesItsOwn, cpu.pc < CodeSize, frames # <<>>,
           exec_op_ireturn, Last(frames).pc < CodeSize
    PROVE  status' = "running"
<1>1. IInv /\ frames \in Seq(Frame) /\ Apart /\ LinksIntact /\ status = "running"
  BY DEF CInv, exec_op_ireturn, Fetch
<1>2. PICK junk \in Junk :
         IF CanPop(1) /\ cpu.fp >= cpu.lv /\ IsFrame(Returned(junk).cpu)
         THEN Pushing(Returned(junk), Top(1))
         ELSE DestroyNow
  BY DEF exec_op_ireturn
<1> DEFINE m == Returned(junk)
<1>3. Restored(m)
  BY <1>1, <1>2, LinkIsRead
<1>4. /\ cpu.lv \in Nat /\ cpu.lv < cpu.stack_size /\ cpu.stack_size \in Nat
      /\ cpu.sp \in Int /\ cpu.fp \in Nat /\ cpu.nv \in Nat /\ First \in Nat
      /\ cpu.fp = cpu.lv + cpu.nv /\ cpu.fp <= First
  BY <1>1, StackFacts, ApartFacts, FrameFacts
<1>5. First + 1 <= cpu.sp + 1
  <2>1. CodeByte(cpu.pc) = OP_IRETURN
    BY DEF exec_op_ireturn, Fetch, Opcode
  <2>2. Fits(First, Needs(CodeByte(cpu.pc)))
    BY <1>1, NeedsFit
  <2>3. Needs(OP_IRETURN) = 1
    BY NeedsOf DEF One
  <2> QED
    BY <2>1, <2>2, <2>3 DEF Fits
<1>6. CanPop(1) /\ cpu.fp >= cpu.lv
  <2> HIDE DEF First
  <2> QED
    BY <1>4, <1>5 DEF CanPop
<1>7. /\ Last(frames).lv \in Nat /\ Last(frames).nv \in Nat /\ Last(frames).pc \in Nat
      /\ Last(frames).fp \in Nat
      /\ Last(frames).lv <= Last(frames).fp /\ Last(frames).fp <= cpu.lv
  <2> DEFINE d == Depth - 1
  <2>1. d \in 1 .. Depth - 1 /\ d \in 1 .. Depth /\ Last(frames) = Registers(d)
        /\ Last(frames) \in Frame
    BY <1>1, FrameFacts DEF Last
  <2>2. /\ Last(frames).lv \in Nat /\ Last(frames).nv \in Nat /\ Last(frames).pc \in Nat
        /\ Last(frames).fp \in Nat
    BY <2>1 DEF Frame
  <2>3. FirstOperand(d) \in Nat
    BY <1>1, <2>1, FrameFacts
  <2> HIDE DEF d
  <2>4. /\ Last(frames).lv <= Last(frames).fp /\ Last(frames).fp <= FirstOperand(d)
        /\ FirstOperand(d) <= cpu.lv
    BY <1>1, <2>1, ApartFacts
  <2> QED
    BY <1>4, <2>2, <2>3, <2>4
<1>8. IsFrame(m.cpu)
  <2> HIDE DEF m
  <2>1. CodeSize \in Nat
    BY <1>1, ProgramIsCode
  <2> QED
    BY <1>3, <1>4, <1>7, <2>1 DEF IsFrame, Restored
<1>9. Pushing(m, Top(1))
  BY <1>2, <1>6, <1>8
<1>10. PICK r \in stack_push(m, Top(1)) : Become(r)
  BY <1>9 DEF Pushing
<1>11. IsMachine(m) /\ m.ok
  BY <1>1, <1>2, <1>3, <1>8, ReturnedIsGood DEF Good, Restored
<1> HIDE DEF m
<1>12. PICK g \in WithRoom([m EXCEPT !.cpu.sp = @ + 1]) : r = WithTop(g, Top(1))
  BY <1>10 DEF stack_push
<1>13. g = [m EXCEPT !.cpu.sp = @ + 1]
  <2> DEFINE up == [m EXCEPT !.cpu.sp = @ + 1]
  <2>1. up.cpu.sp = cpu.lv /\ up.cpu.stack_size = cpu.stack_size
    BY <1>3, <1>4, <1>11 DEF Restored, IsMachine, IsCpu
  <2> HIDE DEF up
  <2>2. g \in WithRoom(up)
    BY <1>12 DEF up
  <2>3. g = up
    BY <1>4, <2>1, <2>2 DEF WithRoom
  <2> QED
    BY <2>3 DEF up
<1>14. r.ok
  <2>1. g.ok
    BY <1>11, <1>13 DEF IsMachine
  <2>2. g \in [ok : BOOLEAN, cpu : {g.cpu}, mem : {g.mem}, creations : {g.creations}, net : {g.net}]
    BY <1>11, <1>13 DEF IsMachine
  <2>3. r = [g EXCEPT !.cpu.stack[g.cpu.sp] = Top(1)]
    BY <1>12, <2>1 DEF WithTop
  <2> QED
    BY <2>1, <2>2, <2>3
<1> QED
  BY <1>1, <1>10, <1>14 DEF Become

(* The frames after a return: the caller is the method that runs.          *)
LEMMA LeftFrames ==
    ASSUME IInv, IInv', frames \in Seq(Frame), frames # <<>>, frames' = Front(frames),
           ReturnMade
    PROVE  /\ frames' \in Seq(Frame) /\ Depth' = Depth - 1
           /\ \A i \in 1 .. Depth - 2 : frames'[i] = frames[i]
           /\ \A i \in 1 .. Depth - 1 :
                 /\ Registers(i)'.lv = Registers(i).lv
                 /\ Registers(i)'.nv = Registers(i).nv
                 /\ Registers(i)'.fp = Registers(i).fp
                 /\ Registers(i)'.pc = Registers(i).pc
                 /\ FirstOperand(i)' = FirstOperand(i)
<1>1. /\ Depth \in Nat /\ Len(frames) = Depth - 1 /\ Depth >= 2
      /\ \A i \in 1 .. Depth - 1 : Registers(i) = frames[i] /\ frames[i] \in Frame
  BY FrameFacts
<1> DEFINE d == Depth - 1
<1>2. d \in Nat /\ d >= 1 /\ d \in 1 .. d /\ Len(frames) = d /\ Depth - 2 = d - 1
      /\ Depth = d + 1
  BY <1>1
<1> HIDE DEF d
<1>3. frames' = SubSeq(frames, 1, d - 1) /\ Last(frames) = frames[d]
  BY <1>2 DEF Front, Last
<1>4. \A i \in 1 .. d - 1 : frames[i] \in Frame /\ frames[1 + i - 1] = frames[i]
  BY <1>1, <1>2
<1>5. /\ frames' \in Seq(Frame) /\ Len(frames') = d - 1
      /\ \A i \in 1 .. d - 1 : frames'[i] = frames[i]
  <2> DEFINE e == d - 1
  <2>1. e \in Nat /\ \A i \in 1 .. e : frames[i] \in Frame /\ frames[1 + i - 1] = frames[i]
    BY <1>2, <1>4
  <2> HIDE DEF e
  <2>2. 1 \in Int /\ e \in Int
    BY <2>1
  <2>3. /\ SubSeq(frames, 1, e) \in Seq(Frame)
        /\ Len(SubSeq(frames, 1, e)) = IF 1 <= e THEN e - 1 + 1 ELSE 0
        /\ \A i \in 1 .. e - 1 + 1 : SubSeq(frames, 1, e)[i] = frames[1 + i - 1]
    BY <2>1, <2>2, SubSeqProperties
  <2>4. e - 1 + 1 = e /\ (IF 1 <= e THEN e ELSE 0) = e
    BY <2>1
  <2>5. frames' = SubSeq(frames, 1, e)
    BY <1>3 DEF e
  <2>6. /\ frames' \in Seq(Frame) /\ Len(frames') = e
        /\ \A i \in 1 .. e : frames'[i] = frames[i]
    BY <2>1, <2>3, <2>4, <2>5
  <2> QED
    BY <2>6 DEF e
<1>6. Depth' = d
  BY <1>2, <1>5 DEF Depth
<1>7. \A i \in 1 .. d - 1 : Registers(i)' = frames'[i]
  BY <1>2, <1>6 DEF Registers
<1>8. \A i : i = d => Registers(i)' = cpu'
  BY <1>2, <1>6 DEF Registers
<1>9. ASSUME NEW i \in 1 .. d
      PROVE  /\ Registers(i)'.lv = Registers(i).lv
             /\ Registers(i)'.nv = Registers(i).nv
             /\ Registers(i)'.fp = Registers(i).fp
             /\ Registers(i)'.pc = Registers(i).pc
  <2>1. CASE i = d
    <3>1. Registers(i) = Last(frames) /\ Registers(i)' = cpu'
      BY <1>1, <1>2, <1>3, <1>8, <2>1
    <3> QED
      BY <3>1 DEF ReturnMade
  <2>2. CASE i # d
    <3>1. i \in 1 .. d - 1
      BY <1>2, <2>2
    <3>2. Registers(i)' = Registers(i)
      BY <1>1, <1>2, <1>5, <1>7, <3>1
    <3> QED
      BY <3>2
  <2> QED
    BY <2>1, <2>2
<1>10. \A i \in 1 .. d : FirstOperand(i)' = FirstOperand(i)
  BY <1>9 DEF FirstOperand
<1>11. \A i \in 1 .. Depth - 2 : frames'[i] = frames[i]
  BY <1>2, <1>5
<1> QED
  BY <1>5, <1>6, <1>9, <1>10, <1>11 DEF d

LEMMA ReturnKeepsApart ==
    ASSUME IInv, IInv', frames \in Seq(Frame), frames # <<>>, frames' = Front(frames),
           Apart, ReturnMade
    PROVE  Apart'
<1> DEFINE d == Depth - 1
<1>1. /\ Depth \in Nat /\ Depth >= 2 /\ d \in Nat /\ d >= 1 /\ Depth = d + 1
      /\ d \in 1 .. d
  BY FrameFacts
<1>2. /\ Depth' = d
      /\ \A i \in 1 .. d : /\ Registers(i)'.lv = Registers(i).lv
                           /\ Registers(i)'.nv = Registers(i).nv
                           /\ Registers(i)'.fp = Registers(i).fp
                           /\ FirstOperand(i)' = FirstOperand(i)
  BY LeftFrames
<1>3. /\ cpu'.sp = cpu.lv /\ cpu.lv \in Nat /\ FirstOperand(d) <= cpu.lv
      /\ FirstOperand(d) \in Nat
  <2>1. d \in 1 .. Depth - 1 /\ d \in 1 .. Depth
    BY <1>1
  <2> HIDE DEF d
  <2>2. FirstOperand(d) <= cpu.lv /\ FirstOperand(d) \in Nat
    BY <2>1, ApartFacts, FrameFacts
  <2>3. cpu.lv \in Nat /\ cpu'.sp = cpu.lv
    BY StackFacts DEF ReturnMade
  <2> QED
    BY <2>2, <2>3
<1> HIDE DEF d
<1>4. Registers(1)'.lv = 0
  BY <1>1, <1>2 DEF Apart
<1>5. \A i \in 1 .. d : Registers(i)'.fp = Registers(i)'.lv + Registers(i)'.nv
  BY <1>1, <1>2 DEF Apart
<1>6. ASSUME NEW j \in 1 .. d, NEW i \in 1 .. j - 1
      PROVE  FirstOperand(i)' <= Registers(j)'.lv
  <2>1. i \in 1 .. d /\ j \in 1 .. Depth
    BY <1>1
  <2>2. FirstOperand(i) <= Registers(j).lv
    BY <2>1 DEF Apart
  <2> QED
    BY <1>2, <2>1, <2>2
<1>7. cpu'.sp >= FirstOperand(Depth)' - 1
  <2>1. FirstOperand(Depth)' = FirstOperand(d)
    BY <1>1, <1>2
  <2> QED
    BY <1>3, <2>1
<1> QED
  BY <1>2, <1>4, <1>5, <1>6, <1>7 DEF Apart

LEMMA ReturnKeepsLinks ==
    ASSUME IInv, IInv', frames \in Seq(Frame), frames # <<>>, frames' = Front(frames),
           Apart, LinksIntact, status = "running", ReturnMade
    PROVE  LinksIntact'
<1> DEFINE d == Depth - 1
<1>1. /\ Depth \in Nat /\ Depth >= 2 /\ d \in Nat /\ d >= 1 /\ Depth = d + 1
      /\ Len(frames) = d /\ Depth - 2 = d - 1
  BY FrameFacts
<1>2. /\ Depth' = d /\ frames' \in Seq(Frame)
      /\ \A i \in 1 .. Depth - 2 : frames'[i] = frames[i]
      /\ \A i \in 1 .. d : Registers(i)'.fp = Registers(i).fp
  BY LeftFrames
<1>3. /\ cpu.lv \in Nat /\ cpu.lv < cpu.stack_size /\ cpu.stack_size \in Nat
      /\ cpu'.stack_size \in Nat /\ cpu.stack_size <= cpu'.stack_size
      /\ DOMAIN cpu'.stack = 0 .. cpu'.stack_size - 1
      /\ \A k \in 0 .. cpu.lv - 1 : cpu'.stack[k] = cpu.stack[k]
  BY StackFacts DEF ReturnMade
<1> HIDE DEF d
<1>4. Len(frames') = d - 1
  <2>1. Len(frames') + 1 = d /\ Len(frames') \in Nat
    BY <1>2, LenProperties DEF Depth
  <2> QED
    BY <1>1, <2>1
<1> SUFFICES ASSUME NEW i \in 1 .. d - 1
             PROVE  LET at == Registers(i + 1)'.fp
                        f  == frames'[i]
                    IN  /\ {at, at + 1, at + 2, at + 3} \subseteq DOMAIN cpu'.stack
                        /\ cpu'.stack[at] = f.lv     /\ cpu'.stack[at + 1] = f.nv
                        /\ cpu'.stack[at + 2] = f.fp /\ cpu'.stack[at + 3] = f.pc
  BY <1>4 DEF LinksIntact
<1> DEFINE at == Registers(i + 1).fp
<1>5. i + 1 \in 1 .. d /\ i \in 1 .. d /\ i \in 1 .. Depth - 2
      /\ i + 1 \in 1 .. Depth - 1 /\ i + 1 \in 1 .. Depth /\ i + 1 # 1
  BY <1>1
<1>6. Registers(i + 1)'.fp = at /\ frames'[i] = frames[i]
  BY <1>2, <1>5
<1>7. at \in Nat /\ FirstOperand(i + 1) = at + 4 /\ at + 4 <= cpu.lv
  BY <1>5, FrameFacts, ApartFacts DEF FirstOperand
<1>8. /\ cpu.stack[at] = frames[i].lv     /\ cpu.stack[at + 1] = frames[i].nv
      /\ cpu.stack[at + 2] = frames[i].fp /\ cpu.stack[at + 3] = frames[i].pc
  BY <1>1, <1>5 DEF LinksIntact
<1> HIDE DEF at
<1>9. {at, at + 1, at + 2, at + 3} \subseteq 0 .. cpu.lv - 1
  <2>1. \A k \in Nat : k < at + 4 => k \in 0 .. cpu.lv - 1
    BY <1>3, <1>7
  <2>2. \A k \in {at, at + 1, at + 2, at + 3} : k \in Nat /\ k < at + 4
    BY <1>7
  <2> QED
    BY <2>1, <2>2
<1>10. 0 .. cpu.lv - 1 \subseteq DOMAIN cpu'.stack
  BY <1>3
<1> QED
  BY <1>3, <1>6, <1>8, <1>9, <1>10

LEMMA RefusedReturn ==
    ASSUME status = "running", exec_op_ireturn
    PROVE  status' \in {"running", "destroyed"}
<1>1. DestroyNow \/ \E m : Become(m)
  BY DEF exec_op_ireturn, Pushing
<1> QED
  BY <1>1 DEF Become, DestroyNow

LEMMA ReturnKeeps ==
    ASSUME CInv, IInv', frames # <<>>, Return
    PROVE  CInv'
<1>1. IInv /\ frames \in Seq(Frame) /\ Apart /\ LinksIntact /\ status = "running"
  BY DEF CInv, Return, exec_op_ireturn, Fetch
<1>2. CASE status' = "running"
  <2>1. ReturnMade /\ frames' = Front(frames)
    BY <1>2, ReturnResult DEF Return
  <2> QED
    BY <1>1, <1>2, <2>1, LeftFrames, ReturnKeepsApart, ReturnKeepsLinks DEF CInv
<1>3. CASE status' # "running"
  <2>1. frames' = frames /\ status' # "undefined"
    BY <1>1, <1>3, RefusedReturn DEF Return
  <2> QED
    BY <1>1, <1>3, <2>1 DEF CInv, LinksIntact
<1> QED
  BY <1>2, <1>3

-----------------------------------------------------------------------------
(* The promise                                                             *)

LEMMA InitialRegisters ==
    ASSUME Init
    PROVE  /\ status \in {"running", "destroyed"}
           /\ cpu.lv = 0 /\ cpu.fp = cpu.nv /\ cpu.sp = cpu.nv - 1 /\ cpu.pc = 0
           /\ \A k \in 0 .. cpu.nv - 1 : cpu.stack[k] = 0
<1>1. FreshCpu(cpu) /\ status \in {"running", "destroyed"}
  BY FreshMachine DEF Init
<1> QED
  BY <1>1 DEF FreshCpu

LEMMA InitCInv == CInit => CInv
<1> SUFFICES ASSUME CInit PROVE CInv
  OBVIOUS
<1>1. IInv /\ frames = <<>> /\ frames \in Seq(Frame)
  BY InitIInv, EmptySeq DEF CInit
<1>2. /\ status \in {"running", "destroyed"}
      /\ cpu.lv = 0 /\ cpu.fp = cpu.nv /\ cpu.sp = cpu.nv - 1 /\ cpu.nv \in Nat
  BY <1>1, InitialRegisters, StackFacts DEF CInit
<1>3. Depth = 1 /\ Len(frames) = 0 /\ Registers(1) = cpu
  BY <1>1, FrameFacts
<1>4. Apart
  BY <1>2, <1>3 DEF Apart, FirstOperand
<1>5. LinksIntact
  BY <1>3 DEF LinksIntact
<1> QED
  BY <1>1, <1>2, <1>4, <1>5 DEF CInv

(* The opcode that a disciplined machine runs is a byte of the code.       *)
LEMMA GoesOnInCode ==
    ASSUME IInv, Disciplined, next_op_wide \/ ~finished
    PROVE  cpu.pc < CodeSize /\ TakesItsOwn
BY StackFacts, ProgramIsCode DEF Disciplined, finished

(* An instruction is executed only while the machine runs.                 *)
LEMMA StepFetches ==
    ASSUME Step
    PROVE  \E op : Fetch(op)
<1>1. \A op, word : Binary(op, word) => Fetch(op)
  BY DEF Binary
<1>2. \A op, k, taken : Branch(op, k, taken) => Fetch(op)
  BY DEF Branch
<1>3. exec_op_iadd \/ exec_op_isub \/ exec_op_iand \/ exec_op_ior
      \/ exec_op_ifeq \/ exec_op_iflt \/ exec_op_icmpeq
         => \E op : Fetch(op)
  BY <1>1, <1>2 DEF exec_op_iadd, exec_op_isub, exec_op_iand, exec_op_ior,
     exec_op_ifeq, exec_op_iflt, exec_op_icmpeq
<1>4. exec_op_nop \/ exec_op_bipush \/ exec_op_ldc_w
      \/ exec_op_iload \/ exec_op_istore \/ exec_op_pop
         => \E op : Fetch(op)
  BY DEF exec_op_nop, exec_op_bipush, exec_op_ldc_w,
     exec_op_iload, exec_op_istore, exec_op_pop
<1>5. exec_op_dup \/ exec_op_swap \/ exec_op_iinc
      \/ exec_op_goto \/ exec_op_ireturn \/ exec_op_invokevirtual
         => \E op : Fetch(op)
  BY DEF exec_op_dup, exec_op_swap, exec_op_iinc,
     exec_op_goto, exec_op_ireturn, exec_op_invokevirtual
<1>6. exec_op_wide \/ exec_op_in \/ exec_op_out
      \/ exec_op_err \/ exec_op_halt \/ exec_op_newarray
         => \E op : Fetch(op)
  BY DEF exec_op_wide, exec_op_in, exec_op_out,
     exec_op_err, exec_op_halt, exec_op_newarray
<1>7. exec_op_iaload \/ exec_op_iastore \/ exec_op_gc
      \/ exec_op_netbind \/ exec_op_netconnect \/ exec_op_netin
         => \E op : Fetch(op)
  BY DEF exec_op_iaload, exec_op_iastore, exec_op_gc,
     exec_op_netbind, exec_op_netconnect, exec_op_netin
<1>8. exec_op_netout \/ exec_op_netclose \/ InvalidOpcode
         => \E op : Fetch(op)
  BY DEF exec_op_netout, exec_op_netclose, InvalidOpcode
<1> QED
  BY <1>3, <1>4, <1>5, <1>6, <1>7, <1>8 DEF Step

LEMMA NextCInv == CInv /\ [CNext]_cvars => CInv'
<1> SUFFICES ASSUME CInv, [CNext]_cvars PROVE CInv'
  OBVIOUS
<1>1. IInv
  BY DEF CInv
<1>2. CASE UNCHANGED cvars
  <2>1. UNCHANGED <<cpu, frames, status>> /\ UNCHANGED vars
    BY <1>2 DEF cvars, vars
  <2>2. IInv'
    BY <1>1, <2>1, NextIInv
  <2>3. Apart' <=> Apart
    BY <2>1 DEF Apart, Depth, Registers, FirstOperand
  <2>4. LinksIntact' <=> LinksIntact
    BY <2>1 DEF LinksIntact, Depth, Registers
  <2> QED
    BY <2>1, <2>2, <2>3, <2>4 DEF CInv
<1>3. CASE Proceed /\ status # "running"
  <2>1. ~Step /\ ~exec_op_invokevirtual /\ ~exec_op_ireturn
    <3>1. \A op : ~Fetch(op)
      BY <1>3 DEF Fetch
    <3> QED
      BY <1>3, <3>1, StepFetches DEF exec_op_invokevirtual, exec_op_ireturn
  <2>2. UNCHANGED cvars
    BY <1>3, <2>1 DEF Proceed, Call, Return, OtherStep, RunStep, RunReturns, Over, cvars
  <2> QED
    BY <1>2, <2>2
<1>4. CASE Proceed /\ status = "running"
  <2>1. Disciplined
    BY <1>4 DEF Proceed
  <2>2. CASE (next_op_wide \/ ~finished) /\ Call
    <3>1. IInv'
      BY <1>1, <2>2, InvokeIInv DEF Call
    <3> QED
      BY <1>1, <2>1, <2>2, <3>1, GoesOnInCode, CallKeeps
  <2>3. CASE (next_op_wide \/ ~finished) /\ Return
    <3>1. IInv'
      BY <1>1, <2>3, IreturnIInv DEF Return
    <3>2. cpu.pc < CodeSize /\ TakesItsOwn
      BY <1>1, <2>1, <2>3, GoesOnInCode
    <3>3. frames # <<>>
      BY <2>3, <3>2 DEF Return, exec_op_ireturn, Fetch, Opcode, TakesItsOwn
    <3> QED
      BY <2>3, <3>1, <3>3, ReturnKeeps
  <2>4. CASE OtherStep /\ RunStep /\ CodeByte(cpu.pc) \notin {OP_INVOKEVIRTUAL, OP_IRETURN}
    <3>1. IInv'
      BY <1>1, <2>4, StepIInv DEF RunStep
    <3>2. cpu.pc < CodeSize /\ TakesItsOwn
      BY <1>1, <2>1, <2>4, GoesOnInCode DEF RunStep
    <3>3. OwnKept(First)
      BY <1>1, <1>4, <2>4, <3>2, StepOwn DEF CInv, RunStep
    <3> QED
      BY <1>4, <2>4, <3>1, <3>3, OwnStepKeeps DEF OtherStep
  <2>5. CASE RunReturns /\ UNCHANGED frames
    BY <1>1, <2>5, NextIInv DEF Next, RunReturns, CInv, LinksIntact
  <2> QED
    BY <1>4, <2>2, <2>3, <2>4, <2>5 DEF Proceed, OtherStep, Over
<1> QED
  BY <1>2, <1>3, <1>4 DEF CNext, Misuse

(* The four words at the fp of every method in progress are the registers  *)
(* its caller had, for every program and every depth of calls.             *)
THEOREM LinksStayIntact == CSpec => []LinksIntact
BY InitCInv, NextCInv, PTL DEF CSpec, CInv

(* The frames of the methods in progress lie one above the other.          *)
LEMMA ApartNests ==
    ASSUME CInv
    PROVE  FramesNest
<1> SUFFICES ASSUME status = "running" PROVE FramesNest
  BY DEF FramesNest
<1>1. IInv /\ frames \in Seq(Frame) /\ Apart
  BY DEF CInv
<1>2. ASSUME NEW i \in 1 .. Depth - 1
      PROVE  Registers(i + 1).lv >= FirstOperand(i)
  <2> DEFINE j == i + 1
  <2>1. j \in 1 .. Depth /\ i \in 1 .. j - 1 /\ i \in 1 .. Depth
    BY <1>1, FrameFacts
  <2>2. Registers(j).lv \in Nat /\ FirstOperand(i) \in Nat
    BY <1>1, <2>1, FrameFacts
  <2> HIDE DEF j
  <2>3. FirstOperand(i) <= Registers(j).lv
    BY <1>1, <2>1 DEF Apart
  <2>4. Registers(j).lv >= FirstOperand(i)
    BY <2>2, <2>3
  <2> QED
    BY <2>4 DEF j
<1> QED
  BY <1>1, <1>2 DEF FramesNest, Apart

THEOREM FramesStayNested == CSpec => []FramesNest
BY InitCInv, NextCInv, ApartNests, PTL DEF CSpec

(* A program that takes only its own never writes outside the stack.       *)
THEOREM OwnWordsOnly == CSpec => []NeverCorrupts
BY InitCInv, NextCInv, PTL DEF CSpec, CInv, NeverCorrupts

(* No return of such a program is refused.                                 *)
THEOREM ReturnsAreAccepted == CSpec => ReturnsSucceed
<1>1. CInv /\ [CNext]_cvars => [Return /\ Last(frames).pc < CodeSize => status' = "running"]_cvars
  <2> SUFFICES ASSUME CInv, CNext, Return, Last(frames).pc < CodeSize
               PROVE  status' = "running" \/ UNCHANGED cvars
    OBVIOUS
  <2>1. IInv /\ status = "running"
    BY DEF CInv, Return, exec_op_ireturn, Fetch
  <2>2. CASE Misuse
    BY <2>2 DEF Misuse
  <2>3. CASE Proceed
    <3>1. Disciplined
      BY <2>1, <2>3 DEF Proceed
    <3>2. CASE finished /\ ~next_op_wide
      <4>1. status' = "stopped"
        BY <2>1, <2>3, <3>2 DEF Proceed, OtherStep, RunStep, RunReturns, Over
      <4>2. status' \in {"running", "destroyed"}
        BY <2>1, RefusedReturn DEF Return
      <4> QED
        BY <4>1, <4>2
    <3>3. CASE next_op_wide \/ ~finished
      <4>1. cpu.pc < CodeSize /\ TakesItsOwn
        BY <2>1, <3>1, <3>3, GoesOnInCode
      <4>2. frames # <<>>
        BY <4>1 DEF Return, exec_op_ireturn, Fetch, Opcode, TakesItsOwn
      <4> QED
        BY <4>1, <4>2, ReturnSucceeds DEF Return
    <3> QED
      BY <3>2, <3>3
  <2> QED
    BY <2>2, <2>3 DEF CNext
<1> QED
  BY <1>1, InitCInv, NextCInv, PTL DEF CSpec, ReturnsSucceed

-----------------------------------------------------------------------------
(* Programs that never branch back                                         *)

(* An instruction that is no call moves the method on that it belongs to.  *)
LEMMA OwnStepMovesOn ==
    ASSUME CInv, UNCHANGED frames, OwnKept(First), status' = "running",
           BranchesForward
    PROVE  MovesOn
<1>1. IInv /\ frames \in Seq(Frame)
  BY DEF CInv
<1>2. cpu'.pc > cpu.pc
  BY DEF OwnKept, Onward
<1>3. Depth' = Depth /\ Depth \in 1 .. Depth /\ Registers(Depth) = cpu
  BY <1>1, FrameFacts DEF Depth
<1>4. \A i \in 1 .. Depth - 1 : Registers(i)' = Registers(i)
  BY <1>1, <1>3, FrameFacts DEF Registers
<1>5. \A i : i = Depth => Registers(i)' = cpu'
  BY <1>1, <1>3, FrameFacts DEF Registers
<1>6. PICK i \in 1 .. Depth : i = Depth
  BY <1>3
<1>7. i <= Depth' /\ Registers(i)'.pc > Registers(i).pc
  BY <1>1, <1>2, <1>3, <1>5, <1>6, FrameFacts
<1>8. \A j \in 1 .. i - 1 : Registers(j)'.pc = Registers(j).pc
  BY <1>4, <1>6
<1> QED
  BY <1>7, <1>8 DEF MovesOn

(* A call moves the caller on, behind the call.                            *)
LEMMA CallMovesOn ==
    ASSUME CInv, NEW f, Entering(f)
    PROVE  MovesOn
<1>1. IInv /\ frames \in Seq(Frame)
  BY DEF CInv
<1>2. /\ Depth' = Depth + 1 /\ frames'[Depth] = f
      /\ \A i \in 1 .. Depth - 1 : frames'[i] = frames[i]
  BY <1>1, EnteredFrames
<1>3. /\ Depth \in Nat /\ Depth \in 1 .. Depth /\ Registers(Depth) = cpu
      /\ \A i \in 1 .. Depth - 1 : Registers(i) = frames[i]
  BY <1>1, FrameFacts
<1>4. \A i \in 1 .. Depth : Registers(i)' = frames'[i]
  BY <1>2, <1>3 DEF Registers
<1>5. f.pc > cpu.pc
  BY <1>1, StackFacts DEF Entering
<1>6. PICK i \in 1 .. Depth : i = Depth
  BY <1>3
<1>7. i <= Depth' /\ Registers(i)'.pc > Registers(i).pc
  <2>1. Registers(i)' = f /\ Registers(i) = cpu
    BY <1>2, <1>3, <1>4, <1>6
  <2> QED
    BY <1>2, <1>3, <1>5, <1>6, <2>1
<1>8. \A j \in 1 .. i - 1 : Registers(j)'.pc = Registers(j).pc
  BY <1>2, <1>3, <1>4, <1>6
<1> QED
  BY <1>7, <1>8 DEF MovesOn

(* A return leaves every caller where it is to resume.                     *)
LEMMA ReturnMovesOn ==
    ASSUME CInv, IInv', frames # <<>>, Return, status' = "running"
    PROVE  MovesOn
<1>1. IInv /\ frames \in Seq(Frame) /\ ReturnMade /\ frames' = Front(frames)
  BY ReturnResult DEF CInv, Return
<1>2. /\ Depth' = Depth - 1
      /\ \A i \in 1 .. Depth - 1 : Registers(i)'.pc = Registers(i).pc
  BY <1>1, LeftFrames
<1>3. Depth' < Depth
  BY <1>1, <1>2, FrameFacts
<1> QED
  BY <1>2, <1>3 DEF MovesOn

(* The methods that wait resume at places in the code, or at its end.      *)
ResumeInCode == \A i \in 1 .. Len(frames) : frames[i].pc <= CodeSize

LEMMA InitResume == CInit => ResumeInCode
BY DEF CInit, ResumeInCode

LEMMA CallResumes ==
    ASSUME CInv, ResumeInCode, Call, status' = "running", NEW f, Entering(f)
    PROVE  ResumeInCode'
<1>1. IInv /\ frames \in Seq(Frame) /\ UNCHANGED program
  BY DEF CInv, Call, exec_op_invokevirtual, Fetch
<1>2. cpu.pc + 3 <= CodeSize
  <2>1. HasArgs(2)
    BY DEF Call, exec_op_invokevirtual, DestroyNow
  <2> QED
    BY <1>1, <2>1, ProgramIsCode DEF HasArgs
<1>3. /\ Depth \in Nat /\ Len(frames) = Depth - 1 /\ Len(frames') = Depth
      /\ frames'[Depth] = f
      /\ \A i \in 1 .. Depth - 1 : frames'[i] = frames[i]
  BY <1>1, FrameFacts, EnteredFrames DEF Depth
<1>4. CodeSize' = CodeSize
  BY <1>1 DEF CodeSize
<1>5. ASSUME NEW i \in 1 .. Depth
      PROVE  frames'[i].pc <= CodeSize
  <2>1. CASE i = Depth
    BY <1>2, <1>3, <2>1 DEF Entering
  <2>2. CASE i # Depth
    <3>1. i \in 1 .. Depth - 1
      BY <1>3, <2>2
    <3> QED
      BY <1>3, <3>1 DEF ResumeInCode
  <2> QED
    BY <2>1, <2>2
<1> QED
  BY <1>3, <1>4, <1>5 DEF ResumeInCode

LEMMA ReturnResumes ==
    ASSUME CInv, ResumeInCode, frames # <<>>, Return
    PROVE  ResumeInCode'
<1>1. IInv /\ frames \in Seq(Frame) /\ UNCHANGED program
  BY DEF CInv, Return, exec_op_ireturn, Fetch
<1>2. CodeSize' = CodeSize
  BY <1>1 DEF CodeSize
<1>3. CASE frames' = frames
  BY <1>2, <1>3 DEF ResumeInCode
<1>4. CASE frames' = Front(frames) /\ status' = "running"
  <2>1. IInv' /\ ReturnMade
    BY <1>1, <1>4, IreturnIInv, ReturnResult DEF Return
  <2>2. /\ Depth' = Depth - 1 /\ frames' \in Seq(Frame)
        /\ \A i \in 1 .. Depth - 2 : frames'[i] = frames[i]
    BY <1>1, <1>4, <2>1, LeftFrames
  <2>3. /\ Depth \in Nat /\ Len(frames) = Depth - 1 /\ Len(frames') = Depth - 2
    BY <1>1, <2>2, FrameFacts, LenProperties DEF Depth
  <2>4. \A i \in 1 .. Depth - 2 : i \in 1 .. Depth - 1
    BY <2>3
  <2> QED
    BY <1>2, <2>2, <2>3, <2>4 DEF ResumeInCode
<1> QED
  BY <1>3, <1>4 DEF Return

(* Each method in progress but main has a link area of four words.         *)
LEMMA UpTo ==
    ASSUME NEW N \in Nat, NEW S, 0 \in S,
           \A n \in 0 .. N - 1 : n \in S => n + 1 \in S
    PROVE  0 .. N \subseteq S
<1> DEFINE bad == {n \in 0 .. N : n \notin S}
<1>1. ASSUME bad # {} PROVE FALSE
  <2>1. bad \in SUBSET Nat
    OBVIOUS
  <2>2. PICK n \in bad : \A k \in bad : n <= k
    BY <1>1, <2>1, LeastElement
  <2>3. n \in 0 .. N /\ n \notin S /\ n # 0
    BY <2>2
  <2>4. n - 1 \in 0 .. N - 1 /\ n - 1 \in 0 .. N /\ ~(n <= n - 1) /\ n - 1 + 1 = n
    BY <2>3
  <2>5. n - 1 \in S
    BY <2>2, <2>4
  <2> QED
    BY <2>3, <2>4, <2>5
<1> QED
  BY <1>1

LEMMA DepthFitsStack ==
    ASSUME CInv, status = "running"
    PROVE  4 * (Depth - 1) <= cpu.sp + 1
<1>1. IInv /\ frames \in Seq(Frame) /\ Apart
  BY DEF CInv
<1> DEFINE N == Depth - 1
           S == {n \in 0 .. N : FirstOperand(n + 1) >= 4 * n}
<1>2. N \in Nat /\ Depth = N + 1
  BY <1>1, FrameFacts
<1>3. 0 \in S
  <2>1. FirstOperand(1) \in Nat /\ 0 + 1 = 1
    BY <1>1, FrameFacts
  <2> QED
    BY <1>2, <2>1
<1>4. ASSUME NEW n \in 0 .. N - 1, n \in S
      PROVE  n + 1 \in S
  <2> DEFINE i == n + 1
             j == n + 2
  <2>1. i \in 1 .. Depth - 1 /\ j \in 1 .. Depth /\ i \in 1 .. Depth
        /\ i \in 1 .. j - 1 /\ j # 1 /\ n + 1 \in 0 .. N /\ n + 1 + 1 = j
    BY <1>2
  <2>2. /\ FirstOperand(i) \in Nat /\ FirstOperand(j) \in Nat
        /\ Registers(j).lv \in Nat /\ Registers(j).fp \in Nat
    BY <1>1, <2>1, FrameFacts
  <2>3. FirstOperand(j) = Registers(j).fp + 4
    BY <2>1 DEF FirstOperand
  <2>4. FirstOperand(i) <= Registers(j).lv /\ Registers(j).lv <= Registers(j).fp
    BY <1>1, <2>1, ApartFacts DEF Apart
  <2>5. FirstOperand(i) >= 4 * n
    BY <1>4
  <2> HIDE DEF i, j
  <2>6. FirstOperand(j) >= 4 * (n + 1)
    BY <2>2, <2>3, <2>4, <2>5
  <2> QED
    BY <2>1, <2>6 DEF j
<1>5. 0 .. N \subseteq S
  <2> HIDE DEF N, S
  <2> QED
    BY <1>2, <1>3, <1>4, UpTo
<1>6. FirstOperand(N + 1) >= 4 * N
  <2>1. N \in 0 .. N
    BY <1>2
  <2> QED
    BY <1>5, <2>1
<1>7. First = FirstOperand(N + 1) /\ First \in Nat /\ First <= cpu.sp + 1 /\ cpu.sp \in Int
  BY <1>1, <1>2, FrameFacts, ApartFacts, StackFacts
<1> HIDE DEF N, First
<1>8. 4 * N <= cpu.sp + 1
  BY <1>2, <1>6, <1>7
<1> QED
  BY <1>8 DEF N

LEMMA PlacesAreBounded ==
    ASSUME CInv, ResumeInCode, status = "running", cpu.pc < CodeSize
    PROVE  PlacesBounded
<1>1. IInv /\ frames \in Seq(Frame)
  BY DEF CInv
<1>2. CodeSize \in Nat /\ cpu.pc \in Nat
  BY <1>1, ProgramIsCode
<1>3. /\ Depth \in Nat /\ Len(frames) = Depth - 1 /\ Registers(Depth) = cpu
      /\ \A i \in 1 .. Depth - 1 : Registers(i) = frames[i] /\ frames[i] \in Frame
  BY <1>1, FrameFacts
<1>4. ASSUME NEW i \in 1 .. Depth
      PROVE  Registers(i).pc \in 0 .. CodeSize
  <2>1. CASE i = Depth
    BY <1>2, <1>3, <2>1
  <2>2. CASE i # Depth
    <3>1. i \in 1 .. Depth - 1
      BY <1>3, <2>2
    <3>2. frames[i].pc \in Nat /\ frames[i].pc <= CodeSize
      BY <1>3, <3>1 DEF Frame, ResumeInCode
    <3> QED
      BY <1>2, <1>3, <3>1, <3>2
  <2> QED
    BY <2>1, <2>2
<1> QED
  BY <1>4, DepthFitsStack DEF PlacesBounded

(* What a step does to the places: the action the theorem is about, and    *)
(* the next state keeps what it needs.                                     *)
LEMMA RunKept ==
    ASSUME CInv, ResumeInCode, [CNext]_cvars
    PROVE  /\ ResumeInCode'
           /\ \/ status' = "running" => PlacesBounded /\ (BranchesForward => MovesOn)
              \/ UNCHANGED cvars
<1>1. IInv
  BY DEF CInv
<1>2. CASE UNCHANGED cvars
  BY <1>2 DEF cvars, vars, ResumeInCode, CodeSize
<1>3. CASE Proceed
  <2>1. CASE (Over \/ RunReturns) /\ UNCHANGED frames
    <3>1. UNCHANGED <<frames, program>> /\ (status' # "running" \/ UNCHANGED cvars)
      BY <2>1 DEF Over, RunReturns, vars, cvars
    <3> QED
      BY <3>1 DEF ResumeInCode, CodeSize
  <2>2. CASE (next_op_wide \/ ~finished) /\ (\/ Call \/ Return
                \/ (/\ Step /\ UNCHANGED frames
                    /\ CodeByte(cpu.pc) \notin {OP_INVOKEVIRTUAL, OP_IRETURN}))
    <3>1. status = "running" /\ UNCHANGED program
      BY <2>2, StepFetches DEF Call, exec_op_invokevirtual, Return, exec_op_ireturn, Fetch
    <3>2. cpu.pc < CodeSize /\ TakesItsOwn /\ Apart /\ frames \in Seq(Frame)
      BY <1>1, <1>3, <2>2, <3>1, GoesOnInCode DEF Proceed, CInv
    <3>3. PlacesBounded
      BY <3>1, <3>2, PlacesAreBounded
    <3>4. CodeSize' = CodeSize
      BY <3>1 DEF CodeSize
    <3>5. CASE UNCHANGED frames /\ status' # "running"
      BY <3>4, <3>5 DEF ResumeInCode
    <3>6. CASE Call /\ status' = "running"
      <4>1. PICK f : Entering(f)
        BY <1>1, <3>2, <3>6, CallEnters
      <4> QED
        BY <3>3, <3>6, <4>1, CallMovesOn, CallResumes
    <3>7. CASE Return
      <4>1. frames # <<>>
        BY <3>2, <3>7 DEF Return, exec_op_ireturn, Fetch, Opcode, TakesItsOwn
      <4>2. IInv'
        BY <1>1, <3>7, IreturnIInv DEF Return
      <4>3. status' = "running" => MovesOn
        BY <3>7, <4>1, <4>2, ReturnMovesOn
      <4> QED
        BY <3>3, <3>7, <4>1, <4>3, ReturnResumes
    <3>8. CASE Step /\ UNCHANGED frames
               /\ CodeByte(cpu.pc) \notin {OP_INVOKEVIRTUAL, OP_IRETURN}
      <4>1. OwnKept(First)
        BY <1>1, <3>2, <3>8, StepOwn
      <4>2. status' = "running" /\ BranchesForward => MovesOn
        BY <3>8, <4>1, OwnStepMovesOn
      <4>3. ResumeInCode'
        BY <3>4, <3>8 DEF ResumeInCode
      <4> QED
        BY <3>3, <4>2, <4>3
    <3>9. Call => status' = "running" \/ UNCHANGED frames
      BY DEF Call
    <3> QED
      BY <2>2, <3>5, <3>6, <3>7, <3>8, <3>9
  <2>3. CASE OtherStep
    <3>1. UNCHANGED frames
      BY <2>3 DEF OtherStep
    <3>2. \/ Over \/ RunReturns
          \/ RunStep /\ CodeByte(cpu.pc) \notin {OP_INVOKEVIRTUAL, OP_IRETURN}
      BY <2>3 DEF OtherStep
    <3> QED
      BY <2>1, <2>2, <3>1, <3>2 DEF RunStep
  <2> QED
    BY <1>3, <2>2, <2>3 DEF Proceed
<1> QED
  BY <1>2, <1>3 DEF CNext, Misuse

(* Each instruction starts at one of finitely many places, and no step of  *)
(* a program that never branches back leads to where a method has been     *)
(* before: for every program, and every depth of calls.                    *)
THEOREM RunsMoveOn == CSpec => NeverGoesBack
<1>1. CInv /\ ResumeInCode /\ [CNext]_cvars
      => CInv' /\ ResumeInCode'
  BY NextCInv, RunKept
<1>2. CInv /\ ResumeInCode /\ [CNext]_cvars
      => [status' = "running" => PlacesBounded /\ (BranchesForward => MovesOn)]_cvars
  BY RunKept
<1> QED
  BY <1>1, <1>2, InitCInv, InitResume, PTL DEF CSpec, NeverGoesBack

-----------------------------------------------------------------------------
(* Calls on the one stack, as calls between methods that share nothing     *)

(* A list of n values. *)
IsList(f, n) == f = [i \in 1 .. n |-> f[i]]

LEMMA ListFacts ==
    ASSUME NEW n \in Nat, NEW f, IsList(f, n)
    PROVE  f \in Seq({f[i] : i \in 1 .. n}) /\ Len(f) = n /\ (f = <<>> <=> n = 0)
<1> DEFINE S == {f[i] : i \in 1 .. n}
<1>1. f \in Seq(S) /\ Len(f) = n
  <2>1. f \in [1 .. n -> S] /\ \A i \in 1 .. n : f[i] \in S
    BY DEF IsList
  <2>2. f \in Seq(S)
    <3>1. \A i \in 1 .. n : f[i] \in S
      BY <2>1
    <3> HIDE DEF S
    <3> QED
      BY <3>1, IsASeq DEF IsList
  <2>3. DOMAIN f = 1 .. n /\ DOMAIN f = 1 .. Len(f) /\ Len(f) \in Nat
    BY <2>1, <2>2, LenProperties
  <2> HIDE DEF S
  <2> QED
    BY <2>2, <2>3
<1> HIDE DEF S
<1>2. f = <<>> <=> n = 0
  BY <1>1, EmptySeq
<1> QED
  BY <1>1, <1>2 DEF S

LEMMA ListsEqual ==
    ASSUME NEW n, NEW f, NEW g, IsList(f, n), IsList(g, n), \A i \in 1 .. n : f[i] = g[i]
    PROVE  f = g
BY DEF IsList

LEMMA ListCut ==
    ASSUME NEW n \in Nat, NEW f, IsList(f, n), NEW m \in 0 .. n
    PROVE  IsList(SubSeq(f, 1, m), m) /\ \A i \in 1 .. m : SubSeq(f, 1, m)[i] = f[i]
<1> DEFINE S == {f[i] : i \in 1 .. n}
           g == SubSeq(f, 1, m)
<1>1. f \in Seq(S) /\ Len(f) = n
  BY ListFacts
<1> HIDE DEF S
<1>2. m \in Nat /\ 1 \in Int /\ m \in Int /\ \A i \in 1 .. m : f[i] \in S
  BY <1>1, ElementOfSeq
<1>3. /\ g \in Seq(S) /\ Len(g) = (IF 1 <= m THEN m - 1 + 1 ELSE 0)
      /\ \A i \in 1 .. m - 1 + 1 : g[i] = f[1 + i - 1]
  BY <1>2, SubSeqProperties
<1>4. m - 1 + 1 = m /\ (IF 1 <= m THEN m - 1 + 1 ELSE 0) = m
      /\ \A i \in 1 .. m : 1 + i - 1 = i
  BY <1>2
<1> HIDE DEF g
<1>5. g \in [1 .. m -> S] /\ \A i \in 1 .. m : g[i] = f[i]
  BY <1>3, <1>4, LenProperties
<1>6. IsList(g, m)
  BY <1>5 DEF IsList
<1> QED
  BY <1>5, <1>6 DEF g

LEMMA ListFront ==
    ASSUME NEW n \in Nat, n >= 1, NEW f, IsList(f, n)
    PROVE  /\ Last(f) = f[n]
           /\ IsList(Front(f), n - 1)
           /\ \A i \in 1 .. n - 1 : Front(f)[i] = f[i]
<1> DEFINE e == n - 1
<1>0. e \in 0 .. n
  OBVIOUS
<1> HIDE DEF e
<1>1. e \in 0 .. n /\ Len(f) = n
  BY <1>0, ListFacts
<1>2. IsList(SubSeq(f, 1, e), e) /\ \A i \in 1 .. e : SubSeq(f, 1, e)[i] = f[i]
  BY <1>1, ListCut
<1>3. Front(f) = SubSeq(f, 1, e) /\ Last(f) = f[n]
  BY <1>1 DEF Front, Last, e
<1>4. /\ Last(f) = f[n] /\ IsList(Front(f), e)
      /\ \A i \in 1 .. e : Front(f)[i] = f[i]
  BY <1>2, <1>3
<1> QED
  BY <1>4 DEF e

LEMMA FrontsEqual ==
    ASSUME NEW n \in Nat, n >= 1, NEW f, NEW g, IsList(f, n), IsList(g, n),
           \A i \in 1 .. n - 1 : f[i] = g[i]
    PROVE  Front(f) = Front(g)
<1>1. IsList(Front(f), n - 1) /\ \A i \in 1 .. n - 1 : Front(f)[i] = f[i]
  BY ListFront
<1>2. IsList(Front(g), n - 1) /\ \A i \in 1 .. n - 1 : Front(g)[i] = g[i]
  BY ListFront
<1> QED
  BY <1>1, <1>2, ListsEqual

LEMMA ListAppend ==
    ASSUME NEW n \in Nat, NEW f, IsList(f, n), NEW e
    PROVE  /\ IsList(Append(f, e), n + 1) /\ Append(f, e)[n + 1] = e
           /\ \A i \in 1 .. n : Append(f, e)[i] = f[i]
<1> DEFINE S == {f[i] : i \in 1 .. n}
           T == S \cup {e}
           g == Append(f, e)
<1>1. f \in Seq(S) /\ Len(f) = n
  BY ListFacts
<1>2. f \in Seq(T) /\ e \in T
  <2>1. \A i \in 1 .. n : f[i] \in T
    OBVIOUS
  <2> QED
    BY <2>1, IsASeq DEF IsList
<1> HIDE DEF S, T
<1>3. /\ g \in Seq(T) /\ Len(g) = n + 1 /\ g[n + 1] = e
      /\ \A i \in 1 .. n : g[i] = f[i]
  BY <1>1, <1>2, AppendProperties
<1> HIDE DEF g
<1>4. g \in [1 .. n + 1 -> T]
  BY <1>3, LenProperties
<1>5. IsList(g, n + 1)
  BY <1>4 DEF IsList
<1> QED
  BY <1>3, <1>5 DEF g

(* The words a up to b of this stack, and a method in these words.         *)
Segment(s, a, b) == [k \in 1 .. b - a + 1 |-> s[a + k - 1]]

Picture(s, lv, nv, first, last, pc) ==
    [locals   |-> Segment(s, lv, lv + nv - 1),
     operands |-> Segment(s, first, last),
     resume   |-> pc]

LEMMA SegmentFacts ==
    ASSUME NEW s, NEW a \in Int, NEW b \in Int, b - a + 1 >= 0
    PROVE  /\ IsList(Segment(s, a, b), b - a + 1) /\ b - a + 1 \in Nat
           /\ Len(Segment(s, a, b)) = b - a + 1
           /\ \A k \in 1 .. b - a + 1 : Segment(s, a, b)[k] = s[a + k - 1]
<1>1. b - a + 1 \in Nat
  OBVIOUS
<1>2. IsList(Segment(s, a, b), b - a + 1)
  BY DEF IsList, Segment
<1>3. Len(Segment(s, a, b)) = b - a + 1
  BY <1>1, <1>2, ListFacts
<1>4. \A k \in 1 .. b - a + 1 : Segment(s, a, b)[k] = s[a + k - 1]
  BY DEF Segment
<1> QED
  BY <1>1, <1>2, <1>3, <1>4

LEMMA SameSegment ==
    ASSUME NEW s, NEW t, NEW a \in Int, NEW b \in Int, \A k \in a .. b : t[k] = s[k]
    PROVE  Segment(t, a, b) = Segment(s, a, b)
<1>1. \A k \in 1 .. b - a + 1 : a + k - 1 \in a .. b
  OBVIOUS
<1>2. \A k \in 1 .. b - a + 1 : t[a + k - 1] = s[a + k - 1]
  BY <1>1
<1> QED
  BY <1>2 DEF Segment

Methods == [i \in 1 .. Depth |-> Method(i)]

LEMMA MethodIs ==
    ASSUME NEW i
    PROVE  /\ Method(i) = Picture(cpu.stack, Registers(i).lv, Registers(i).nv,
                                  FirstOperand(i), LastOperand(i), Registers(i).pc)
           /\ Method(i)' = Picture(cpu'.stack, Registers(i)'.lv, Registers(i)'.nv,
                                   FirstOperand(i)', LastOperand(i)', Registers(i)'.pc)
BY DEF Method, Picture, WordsFrom, Segment

(* Where the words of a method that waits lie.                             *)
LEMMA WaitingWords ==
    ASSUME IInv, frames \in Seq(Frame), Apart, NEW i \in 1 .. Depth - 1
    PROVE  /\ Registers(i).lv \in Nat /\ Registers(i).nv \in Nat
           /\ FirstOperand(i) \in Nat /\ LastOperand(i) \in Int
           /\ LastOperand(i) = Registers(i + 1).lv - 1
           /\ FirstOperand(i) <= LastOperand(i) + 1
           /\ LastOperand(i) < cpu.lv
           /\ Registers(i).lv + Registers(i).nv - 1 < cpu.lv
<1>1. /\ i \in 1 .. Depth /\ i + 1 \in 1 .. Depth /\ i \in Nat /\ i < Depth
      /\ Depth \in Nat
  BY FrameFacts
<1>2. /\ Registers(i).lv \in Nat /\ Registers(i).nv \in Nat /\ FirstOperand(i) \in Nat
      /\ Registers(i).fp \in Nat /\ cpu.lv \in Nat
      /\ Registers(i).fp = Registers(i).lv + Registers(i).nv
      /\ Registers(i).fp <= FirstOperand(i) /\ FirstOperand(i) <= cpu.lv
  BY <1>1, FrameFacts, ApartFacts, StackFacts DEF Apart
<1>3. LastOperand(i) = Registers(i + 1).lv - 1
  BY <1>1 DEF LastOperand
<1> DEFINE j == i + 1
<1>4. j \in 1 .. Depth /\ i \in 1 .. j - 1
  BY <1>1
<1> HIDE DEF j
<1>5. Registers(j).lv \in Nat /\ FirstOperand(i) <= Registers(j).lv
  BY <1>4, FrameFacts DEF Apart
<1>6. Registers(j).lv <= cpu.lv
  <2>1. CASE j = Depth
    BY <1>2, <2>1, FrameFacts
  <2>2. CASE j # Depth
    <3>1. j \in 1 .. Depth - 1
      BY <1>1, <1>4, <2>2
    <3>2. /\ Registers(j).lv <= Registers(j).fp /\ Registers(j).fp <= FirstOperand(j)
          /\ FirstOperand(j) <= cpu.lv /\ Registers(j).fp \in Nat /\ FirstOperand(j) \in Nat
      BY <1>4, <3>1, FrameFacts, ApartFacts
    <3> QED
      BY <1>2, <1>5, <3>2
  <2> QED
    BY <2>1, <2>2
<1>7. /\ LastOperand(i) = Registers(j).lv - 1 /\ LastOperand(i) \in Int
      /\ FirstOperand(i) <= LastOperand(i) + 1 /\ LastOperand(i) < cpu.lv
  BY <1>2, <1>3, <1>5, <1>6 DEF j
<1>8. Registers(i).lv + Registers(i).nv - 1 < cpu.lv
  BY <1>2
<1> QED
  BY <1>2, <1>7, <1>8 DEF j

(* A method that waits is as it was, if nothing below the locals of the    *)
(* running method has changed.                                             *)
LEMMA WaitingStays ==
    ASSUME IInv, frames \in Seq(Frame), Apart, NEW i \in 1 .. Depth - 1,
           \A k \in 0 .. cpu.lv - 1 : cpu'.stack[k] = cpu.stack[k],
           Registers(i)'.lv = Registers(i).lv, Registers(i)'.nv = Registers(i).nv,
           Registers(i)'.pc = Registers(i).pc,
           FirstOperand(i)' = FirstOperand(i), LastOperand(i)' = LastOperand(i)
    PROVE  Method(i)' = Method(i)
<1> DEFINE lv    == Registers(i).lv
           nv    == Registers(i).nv
           first == FirstOperand(i)
           last  == LastOperand(i)
<1>1. /\ lv \in Nat /\ nv \in Nat /\ first \in Nat /\ last \in Int
      /\ last < cpu.lv /\ lv + nv - 1 < cpu.lv /\ cpu.lv \in Nat
  BY WaitingWords, StackFacts
<1>2. /\ Method(i) = Picture(cpu.stack, lv, nv, first, last, Registers(i).pc)
      /\ Method(i)' = Picture(cpu'.stack, lv, nv, first, last, Registers(i).pc)
  BY MethodIs
<1> HIDE DEF lv, nv, first, last
<1>3. \A k \in lv .. lv + nv - 1 : k \in 0 .. cpu.lv - 1
  BY <1>1
<1>4. \A k \in first .. last : k \in 0 .. cpu.lv - 1
  BY <1>1
<1>5. lv \in Int /\ lv + nv - 1 \in Int /\ first \in Int
  BY <1>1
<1>6. /\ Segment(cpu'.stack, lv, lv + nv - 1) = Segment(cpu.stack, lv, lv + nv - 1)
      /\ Segment(cpu'.stack, first, last) = Segment(cpu.stack, first, last)
  BY <1>1, <1>3, <1>4, <1>5, SameSegment
<1> QED
  BY <1>2, <1>6 DEF Picture

LEMMA SameOperators ==
    ASSUME NEW f
    PROVE  Abstract!Front(f) = Front(f) /\ Abstract!Last(f) = Last(f)
BY DEF Front, Last, Abstract!Front, Abstract!Last

(* An instruction that is no call is work of the method that runs.         *)
LEMMA OwnStepWorks ==
    ASSUME CInv, status = "running", UNCHANGED frames, OwnKept(First), IInv'
    PROVE  Abstract!Next
<1>1. IInv /\ frames \in Seq(Frame) /\ Apart
  BY DEF CInv
<1>2. CASE status' = "running"
  <2>1. /\ cpu'.lv = cpu.lv /\ cpu'.nv = cpu.nv /\ cpu'.fp = cpu.fp
        /\ cpu.stack_size <= cpu'.stack_size
        /\ \A k \in 0 .. cpu.stack_size - 1 :
              Foreign(k, First) => cpu'.stack[k] = cpu.stack[k]
    BY <1>2 DEF OwnKept
  <2>2. \A k \in 0 .. cpu.lv - 1 : cpu'.stack[k] = cpu.stack[k]
    <3>1. \A k \in 0 .. cpu.lv - 1 : k \in 0 .. cpu.stack_size - 1 /\ k < cpu.lv
      BY <1>1, StackFacts
    <3> QED
      BY <2>1, <3>1 DEF Foreign
  <2>3. Depth' = Depth /\ Depth \in Nat /\ Depth >= 1 /\ Depth \in 1 .. Depth
    BY <1>1, FrameFacts DEF Depth
  <2>4. \A i \in 1 .. Depth : /\ Registers(i)'.lv = Registers(i).lv
                              /\ Registers(i)'.nv = Registers(i).nv
                              /\ Registers(i)'.fp = Registers(i).fp
                              /\ i < Depth => Registers(i)'.pc = Registers(i).pc
    BY <2>1, <2>3 DEF Registers
  <2>5. \A i \in 1 .. Depth : FirstOperand(i)' = FirstOperand(i)
    BY <2>4 DEF FirstOperand
  <2>6. ASSUME NEW i \in 1 .. Depth - 1
        PROVE  Method(i)' = Method(i)
    <3>1. i \in 1 .. Depth /\ i + 1 \in 1 .. Depth /\ i < Depth
      BY <2>3
    <3>2. LastOperand(i)' = LastOperand(i)
      BY <2>3, <2>4, <3>1 DEF LastOperand
    <3> QED
      BY <1>1, <2>2, <2>4, <2>5, <3>1, <3>2, WaitingStays
  <2>7. /\ IsList(Methods, Depth) /\ IsList(Methods', Depth)
        /\ \A i \in 1 .. Depth : Methods[i] = Method(i) /\ Methods'[i] = Method(i)'
    BY <2>3 DEF Methods, IsList
  <2>8. Front(Methods') = Front(Methods)
    <3>1. \A i \in 1 .. Depth - 1 : Methods'[i] = Methods[i]
      BY <2>3, <2>6, <2>7
    <3> QED
      BY <2>3, <2>7, <3>1, FrontsEqual
  <2>9. Len(Last(Methods').locals) = Len(Last(Methods).locals)
    <3>1. Last(Methods) = Method(Depth) /\ Last(Methods') = Methods'[Depth]
          /\ Methods'[Depth] = Method(Depth)'
      <4>1. \A i : i = Depth => Methods'[i] = Method(i)'
        BY <2>3, <2>7
      <4> QED
        BY <2>3, <2>7, <4>1, ListFront
    <3>2. /\ cpu.lv \in Nat /\ cpu.nv \in Nat
          /\ Registers(Depth).lv = cpu.lv /\ Registers(Depth).nv = cpu.nv
          /\ Registers(Depth)'.lv = cpu.lv /\ Registers(Depth)'.nv = cpu.nv
      BY <1>1, <2>1, <2>3, FrameFacts, StackFacts DEF Registers
    <3> DEFINE a == cpu.lv
               b == cpu.lv + cpu.nv - 1
    <3>3. /\ Method(Depth).locals = Segment(cpu.stack, a, b)
          /\ Method(Depth)'.locals = Segment(cpu'.stack, a, b)
      BY <3>2 DEF Method, WordsFrom, Segment
    <3>4. a \in Int /\ b \in Int /\ b - a + 1 >= 0
      BY <3>2
    <3> HIDE DEF a, b
    <3>5. \A s : Len(Segment(s, a, b)) = b - a + 1
      BY <3>4, SegmentFacts
    <3> QED
      BY <3>1, <3>3, <3>5
  <2>10. Len(Methods') = Len(Methods)
    BY <2>3, <2>7, ListFacts
  <2>11. Abstract!Work
    <3>1. (status # "running")' = (status # "running")
      BY <1>2
    <3>2. Abstract!Front(Methods') = Abstract!Front(Methods)
      BY <2>8, SameOperators
    <3>3. Len(Abstract!Last(Methods').locals) = Len(Abstract!Last(Methods).locals)
      BY <2>9, SameOperators
    <3> QED
      BY <2>10, <3>1, <3>2, <3>3 DEF Abstract!Work, Abstract!Deepest, Methods
  <2> QED
    BY <2>11 DEF Abstract!Next
<1>3. CASE status' # "running"
  <2>1. cpu' = cpu /\ frames' = frames
    BY <1>3 DEF OwnKept
  <2>2. Abstract!End
    BY <1>3, <2>1 DEF Abstract!End, Method, WordsFrom, Registers, FirstOperand, LastOperand, Depth
  <2> QED
    BY <2>2 DEF Abstract!Next
<1> QED
  BY <1>2, <1>3

LEMMA SegmentCut ==
    ASSUME NEW s, NEW a \in Int, NEW b \in Int, NEW m \in Nat, m <= b - a + 1
    PROVE  SubSeq(Segment(s, a, b), 1, m) = Segment(s, a, a + m - 1)
<1> DEFINE n == b - a + 1
           long == Segment(s, a, b)
           short == Segment(s, a, a + m - 1)
<1>1. n \in Nat /\ m \in 0 .. n /\ a + m - 1 - a + 1 = m
  OBVIOUS
<1>2. IsList(long, n) /\ \A k \in 1 .. n : long[k] = s[a + k - 1]
  BY <1>1, SegmentFacts
<1>3. IsList(short, m) /\ \A k \in 1 .. m : short[k] = s[a + k - 1]
  BY <1>1 DEF IsList, Segment
<1>4. \A k \in 1 .. m : k \in 1 .. n
  BY <1>1
<1> HIDE DEF n, long, short
<1>5. IsList(SubSeq(long, 1, m), m) /\ \A k \in 1 .. m : SubSeq(long, 1, m)[k] = long[k]
  BY <1>1, <1>2, ListCut
<1>6. SubSeq(long, 1, m) = short
  BY <1>2, <1>3, <1>4, <1>5, ListsEqual
<1> QED
  BY <1>6 DEF long, short

LEMMA SegmentAppend ==
    ASSUME NEW s, NEW a \in Int, NEW b \in Int, b - a + 1 >= 0
    PROVE  Append(Segment(s, a, b), s[b + 1]) = Segment(s, a, b + 1)
<1> DEFINE n == b - a + 1
           short == Segment(s, a, b)
           long == Segment(s, a, b + 1)
           w == s[b + 1]
<1>1. n \in Nat /\ b + 1 - a + 1 = n + 1 /\ a + (n + 1) - 1 = b + 1
  OBVIOUS
<1>2. IsList(short, n) /\ \A k \in 1 .. n : short[k] = s[a + k - 1]
  BY <1>1, SegmentFacts
<1>3. IsList(long, n + 1) /\ \A k \in 1 .. n + 1 : long[k] = s[a + k - 1]
  BY <1>1 DEF IsList, Segment
<1>4. long[n + 1] = w
  BY <1>1, <1>3
<1> HIDE DEF n, long, short, w
<1>5. /\ IsList(Append(short, w), n + 1) /\ Append(short, w)[n + 1] = w
      /\ \A k \in 1 .. n : Append(short, w)[k] = short[k]
  <2>1. n \in Nat
    BY <1>1
  <2>2. IsList(short, n)
    BY <1>2
  <2>3. \A e : /\ IsList(Append(short, e), n + 1) /\ Append(short, e)[n + 1] = e
               /\ \A k \in 1 .. n : Append(short, e)[k] = short[k]
    BY <2>1, <2>2, ListAppend
  <2> QED
    BY <2>3
<1>6. \A k \in 1 .. n + 1 : k = n + 1 \/ k \in 1 .. n
  BY <1>1
<1>7. \A k \in 1 .. n + 1 : Append(short, w)[k] = long[k]
  BY <1>2, <1>3, <1>4, <1>5, <1>6
<1>8. Append(short, w) = long
  BY <1>3, <1>5, <1>7, ListsEqual
<1> QED
  BY <1>8 DEF long, short, w

(* The method that runs.                                                   *)
LEMMA RunningMethod ==
    ASSUME IInv, frames \in Seq(Frame)
    PROVE  Method(Depth) = Picture(cpu.stack, cpu.lv, cpu.nv, First, cpu.sp, cpu.pc)
<1>1. /\ Registers(Depth) = cpu /\ FirstOperand(Depth) = First /\ Depth \in Nat
  BY FrameFacts
<1>2. LastOperand(Depth) = cpu.sp
  BY <1>1 DEF LastOperand
<1> QED
  BY <1>1, <1>2, MethodIs

(* The pictures that a call draws.                                         *)
CallerSeen(args) ==
    \A i : i = Depth =>
        Method(i)' = Picture(cpu.stack, cpu.lv, cpu.nv, First, cpu.sp - args, cpu.pc + 3)
CalleeSeen ==
    \A i : i = Depth + 1 =>
        Method(i)' = Picture(cpu'.stack, cpu'.lv, cpu'.nv, cpu'.fp + 4, cpu'.sp, cpu'.pc)

LEMMA CallPictures ==
    ASSUME IInv, frames \in Seq(Frame), Apart, NEW f, Entering(f),
           NEW args \in Nat, First + args <= cpu.sp + 1,
           NEW locals \in Nat, CallMade(args, locals)
    PROVE  /\ \A i \in 1 .. Depth - 1 : Method(i)' = Method(i)
           /\ CallerSeen(args) /\ CalleeSeen
<1>1. /\ Depth \in Nat /\ Depth >= 1 /\ Depth' = Depth + 1 /\ Depth \in 1 .. Depth
      /\ \A i \in 1 .. Depth - 1 : frames'[i] = frames[i] /\ Registers(i) = frames[i]
      /\ frames'[Depth] = f
      /\ \A i : i = Depth + 1 => Registers(i)' = cpu' /\ FirstOperand(i)' = cpu'.fp + 4
  BY FrameFacts, EnteredFrames
<1>2. \A i \in 1 .. Depth : /\ Registers(i)'.lv = Registers(i).lv
                            /\ Registers(i)'.nv = Registers(i).nv
                            /\ FirstOperand(i)' = FirstOperand(i)
  BY EnteredFrames
<1>3. \A i \in 1 .. Depth : Registers(i)' = frames'[i]
  BY <1>1 DEF Registers
<1>4. /\ cpu.sp \in Int /\ cpu.lv \in Nat /\ cpu.nv \in Nat /\ First \in Nat
      /\ cpu.fp = cpu.lv + cpu.nv /\ cpu.fp <= First /\ First <= cpu.sp + 1
      /\ cpu'.lv = cpu.sp - args + 1
      /\ \A k \in 0 .. cpu.sp : cpu'.stack[k] = cpu.stack[k]
  BY FrameFacts, StackFacts, ApartFacts DEF CallMade
<1>5. ASSUME NEW i \in 1 .. Depth - 1
      PROVE  Method(i)' = Method(i)
  <2>1. i \in 1 .. Depth /\ i + 1 \in 1 .. Depth /\ i < Depth /\ i < Depth'
    BY <1>1
  <2>2. Registers(i)' = Registers(i)
    BY <1>1, <1>3, <2>1
  <2>3. LastOperand(i)' = LastOperand(i)
    BY <1>2, <2>1 DEF LastOperand
  <2>4. \A k \in 0 .. cpu.lv - 1 : cpu'.stack[k] = cpu.stack[k]
    <3>1. \A k \in 0 .. cpu.lv - 1 : k \in 0 .. cpu.sp
      <4> HIDE DEF First
      <4> QED
        BY <1>4
    <3> QED
      BY <1>4, <3>1
  <2> QED
    BY <1>2, <2>1, <2>2, <2>3, <2>4, WaitingStays
<1>6. CallerSeen(args)
  <2> SUFFICES ASSUME NEW i, i = Depth
               PROVE  Method(i)' = Picture(cpu.stack, cpu.lv, cpu.nv, First,
                                           cpu.sp - args, cpu.pc + 3)
    BY DEF CallerSeen
  <2>1. /\ Registers(i)'.lv = cpu.lv /\ Registers(i)'.nv = cpu.nv
        /\ Registers(i)'.pc = cpu.pc + 3 /\ FirstOperand(i)' = First
    BY <1>1, <1>2, <1>3, FrameFacts DEF Entering
  <2>2. LastOperand(i)' = cpu.sp - args
    <3>1. i < Depth'
      BY <1>1
    <3>2. LastOperand(i)' = cpu'.lv - 1
      BY <1>1, <3>1 DEF LastOperand
    <3> HIDE DEF First
    <3> QED
      BY <1>4, <3>2
  <2>3. Method(i)' = Picture(cpu'.stack, cpu.lv, cpu.nv, First, cpu.sp - args, cpu.pc + 3)
    BY <2>1, <2>2, MethodIs
  <2> DEFINE a == cpu.lv
             b == cpu.lv + cpu.nv - 1
             c == First
             d == cpu.sp - args
  <2>4. /\ a \in Int /\ b \in Int /\ c \in Int /\ d \in Int
        /\ \A k \in a .. b : k \in 0 .. cpu.sp
        /\ \A k \in c .. d : k \in 0 .. cpu.sp
    <3> HIDE DEF First
    <3>1. a \in Int /\ b \in Int /\ c \in Int /\ d \in Int
      BY <1>4
    <3>2. 0 <= a /\ 0 <= c
      BY <1>4
    <3>3. b <= cpu.sp
      BY <1>4
    <3>4. d <= cpu.sp
      BY <1>4
    <3> HIDE DEF a, b, c, d
    <3>5. \A k \in a .. b : k \in 0 .. cpu.sp
      BY <1>4, <3>1, <3>2, <3>3
    <3>6. \A k \in c .. d : k \in 0 .. cpu.sp
      BY <1>4, <3>1, <3>2, <3>4
    <3> QED
      BY <3>1, <3>5, <3>6
  <2> HIDE DEF a, b, c, d
  <2>5. Segment(cpu'.stack, a, b) = Segment(cpu.stack, a, b)
    <3>1. \A k \in a .. b : cpu'.stack[k] = cpu.stack[k]
      BY <1>4, <2>4
    <3> QED
      BY <2>4, <3>1, SameSegment
  <2>6. Segment(cpu'.stack, c, d) = Segment(cpu.stack, c, d)
    <3>1. \A k \in c .. d : cpu'.stack[k] = cpu.stack[k]
      BY <1>4, <2>4
    <3> QED
      BY <2>4, <3>1, SameSegment
  <2> QED
    BY <2>3, <2>5, <2>6 DEF Picture, a, b, c, d
<1>7. CalleeSeen
  <2> SUFFICES ASSUME NEW i, i = Depth + 1
               PROVE  Method(i)' = Picture(cpu'.stack, cpu'.lv, cpu'.nv, cpu'.fp + 4,
                                           cpu'.sp, cpu'.pc)
    BY DEF CalleeSeen
  <2>1. Registers(i)' = cpu' /\ FirstOperand(i)' = cpu'.fp + 4
    BY <1>1
  <2>2. LastOperand(i)' = cpu'.sp
    BY <1>1 DEF LastOperand
  <2> QED
    BY <2>1, <2>2, MethodIs
<1> QED
  BY <1>5, <1>6, <1>7

(* The call, as CallStack has it.                                          *)
LEMMA CallSeen ==
    ASSUME IInv, frames \in Seq(Frame), Apart, status = "running", status' = "running",
           NEW f, Entering(f), NEW args \in Nat, First + args <= cpu.sp + 1,
           NEW locals \in Nat, CallMade(args, locals)
    PROVE  Abstract!Call
<1> DEFINE d      == Depth
           caller == Last(Methods)
           callee == Last(Methods')
<1>1. /\ d \in Nat /\ d >= 1 /\ Depth' = d + 1 /\ d \in 1 .. d /\ d + 1 \in 1 .. d + 1
      /\ d + 1 \in Nat /\ d + 1 >= 1 /\ d + 1 - 1 = d
  BY FrameFacts, EnteredFrames
<1>2. cpu.sp \in Int /\ First \in Nat /\ First + args <= cpu.sp + 1
  BY FrameFacts, StackFacts
<1>25. /\ cpu'.lv = cpu.sp - args + 1 /\ cpu'.nv = args + locals
       /\ cpu'.fp = cpu.sp + locals + 1 /\ cpu'.sp = cpu.sp + locals + 4
  BY DEF CallMade
<1>24. /\ \A k \in 0 .. cpu.sp : cpu'.stack[k] = cpu.stack[k]
       /\ \A k \in cpu.sp + 1 .. cpu.sp + locals : cpu'.stack[k] = 0
  BY DEF CallMade
<1>3. (\A i \in 1 .. d - 1 : Method(i)' = Method(i)) /\ CallerSeen(args) /\ CalleeSeen
  BY CallPictures
<1>4. Method(d) = Picture(cpu.stack, cpu.lv, cpu.nv, First, cpu.sp, cpu.pc)
  BY RunningMethod
<1>5. \A i : i = d => Method(i)' = Picture(cpu.stack, cpu.lv, cpu.nv, First,
                                           cpu.sp - args, cpu.pc + 3)
  BY <1>3 DEF CallerSeen
<1>6. \A i : i = d + 1 => Method(i)' = Picture(cpu'.stack, cpu'.lv, cpu'.nv,
                                               cpu'.fp + 4, cpu'.sp, cpu'.pc)
  BY <1>3 DEF CalleeSeen
<1>7. IsList(Methods, d) /\ \A i \in 1 .. d : Methods[i] = Method(i)
  BY DEF Methods, IsList
<1>8. IsList(Methods', d + 1) /\ \A i \in 1 .. d + 1 : Methods'[i] = Method(i)'
  BY <1>1 DEF Methods, IsList
<1> DEFINE sp    == cpu.sp
           first == First
           size  == sp - first + 1
           kept  == size - args
<1> HIDE DEF d
<1>26. sp \in Int /\ first \in Nat /\ first + args <= sp + 1
  BY <1>2
<1>9. Len(Methods) = d /\ Len(Methods') = d + 1
  BY <1>1, <1>7, <1>8, ListFacts
<1>10. caller = Picture(cpu.stack, cpu.lv, cpu.nv, First, cpu.sp, cpu.pc)
  BY <1>1, <1>4, <1>7, ListFront
<1>11. callee = Picture(cpu'.stack, cpu'.lv, cpu'.nv, cpu'.fp + 4, cpu'.sp, cpu'.pc)
  BY <1>1, <1>6, <1>8, ListFront
<1>12. /\ IsList(Front(Methods'), d)
       /\ \A i \in 1 .. d : Front(Methods')[i] = Methods'[i]
  <2> DEFINE e == d + 1
  <2>1. e \in Nat /\ e >= 1 /\ IsList(Methods', e) /\ e - 1 = d
    BY <1>1, <1>8
  <2> HIDE DEF e
  <2> QED
    BY <2>1, ListFront
<1> HIDE DEF caller, callee
<1> HIDE DEF sp, first
<1>13. size \in Nat /\ kept \in Nat /\ kept <= size /\ size - args = kept
  BY <1>26
<1>14. caller.operands = Segment(cpu.stack, first, sp) /\ Len(caller.operands) = size
  <2>1. caller.operands = Segment(cpu.stack, first, sp)
    BY <1>10 DEF Picture, sp, first
  <2>2. first \in Int /\ sp - first + 1 >= 0
    BY <1>26
  <2> QED
    BY <1>26, <2>1, <2>2, SegmentFacts
<1>15. SubSeq(caller.operands, 1, kept) = Segment(cpu.stack, first, sp - args)
  <2>1. first + kept - 1 = sp - args
    BY <1>26
  <2>2. first \in Int /\ sp \in Int /\ kept <= sp - first + 1
    BY <1>26
  <2> HIDE DEF kept
  <2>3. SubSeq(Segment(cpu.stack, first, sp), 1, kept)
           = Segment(cpu.stack, first, first + kept - 1)
    BY <1>13, <2>2, SegmentCut
  <2> QED
    BY <1>14, <2>1, <2>3
<1> DEFINE left == Abstract!Calling(caller, args)
<1>16. left = Picture(cpu.stack, cpu.lv, cpu.nv, first, sp - args, cpu.pc + 3)
  <2>1. caller = [locals   |-> Segment(cpu.stack, cpu.lv, cpu.lv + cpu.nv - 1),
                  operands |-> Segment(cpu.stack, first, sp),
                  resume   |-> cpu.pc]
    BY <1>10 DEF Picture, sp, first
  <2>2. Len(caller.operands) - args = kept
    BY <1>13, <1>14
  <2> HIDE DEF kept
  <2>3. left = [caller EXCEPT !.operands = SubSeq(caller.operands, 1, kept),
                              !.resume = @ + 3]
    BY <2>2 DEF Abstract!Calling
  <2> DEFINE words == SubSeq(caller.operands, 1, kept)
  <2> HIDE DEF left, words
  <2>4. left = [locals   |-> Segment(cpu.stack, cpu.lv, cpu.lv + cpu.nv - 1),
                operands |-> words,
                resume   |-> cpu.pc + 3]
    BY <2>1, <2>3 DEF words
  <2> QED
    BY <1>15, <2>4 DEF Picture, words
<1>17. Front(Methods') = [Methods EXCEPT ![d] = left]
  <2> DEFINE g == [Methods EXCEPT ![d] = left]
  <2> HIDE DEF left
  <2>1. IsList(g, d) /\ \A i \in 1 .. d : g[i] = IF i = d THEN left ELSE Method(i)
    BY <1>1, <1>7 DEF IsList
  <2> HIDE DEF g
  <2>2. ASSUME NEW i \in 1 .. d
        PROVE  Front(Methods')[i] = g[i]
    <3>1. Front(Methods')[i] = Method(i)'
      BY <1>1, <1>8, <1>12
    <3>2. CASE i = d
      BY <1>5, <1>16, <2>1, <3>1, <3>2 DEF sp, first
    <3>3. CASE i # d
      <4>1. i \in 1 .. d - 1
        BY <1>1, <3>3
      <4> QED
        BY <1>3, <2>1, <3>1, <3>3, <4>1
    <3> QED
      BY <3>2, <3>3
  <2>3. Front(Methods') = g
    BY <1>12, <2>1, <2>2, ListsEqual
  <2> QED
    BY <2>3 DEF g
<1>18. callee.operands = <<>>
  <2>1. callee.operands = Segment(cpu'.stack, cpu'.fp + 4, cpu'.sp)
    BY <1>11 DEF Picture
  <2> DEFINE a == cpu'.fp + 4
             b == cpu'.sp
  <2>2. a = sp + locals + 1 + 4 /\ b = sp + locals + 4
    BY <1>25 DEF sp
  <2>4. a \in Int /\ b \in Int /\ b - a + 1 = 0
    <3> HIDE DEF a, b
    <3> QED
      BY <1>26, <2>2
  <2> HIDE DEF a, b
  <2>3. IsList(Segment(cpu'.stack, a, b), 0)
    BY <2>4, SegmentFacts
  <2> QED
    BY <2>1, <2>3, ListFacts DEF a, b
<1>19. /\ Len(callee.locals) = args + locals
       /\ \A k \in 1 .. args + locals :
             callee.locals[k] = IF k <= args THEN caller.operands[kept + k] ELSE 0
  <2> DEFINE a == cpu'.lv
             b == cpu'.lv + cpu'.nv - 1
             n == args + locals
  <2>1. callee.locals = Segment(cpu'.stack, a, b)
    BY <1>11 DEF Picture
  <2>8. a = sp - args + 1 /\ b = a + n - 1
    BY <1>25 DEF sp
  <2> HIDE DEF a, b
  <2>2. a \in Int /\ b \in Int /\ b - a + 1 = n /\ n \in Nat /\ a = sp - args + 1
    BY <1>26, <2>8
  <2>3. \A k \in 1 .. n : k <= args => /\ kept + k \in 1 .. size
                                       /\ first + (kept + k) - 1 = a + k - 1
                                       /\ a + k - 1 \in 0 .. sp
    BY <1>26, <2>8
  <2>4. \A k \in 1 .. n : k > args => a + k - 1 \in sp + 1 .. sp + locals
    BY <1>26, <2>8
  <2>5. \A k \in 1 .. size : caller.operands[k] = cpu.stack[first + k - 1]
    <3>1. first \in Int /\ sp \in Int /\ sp - first + 1 >= 0
      BY <1>26
    <3> QED
      BY <1>14, <3>1, SegmentFacts
  <2> HIDE DEF a, b, n, kept, size
  <2>6. /\ Len(Segment(cpu'.stack, a, b)) = n
        /\ \A k \in 1 .. n : Segment(cpu'.stack, a, b)[k] = cpu'.stack[a + k - 1]
    <3>1. b - a + 1 >= 0
      BY <2>2
    <3>2. \A s : /\ Len(Segment(s, a, b)) = b - a + 1
                 /\ \A k \in 1 .. b - a + 1 : Segment(s, a, b)[k] = s[a + k - 1]
      BY <2>2, <3>1, SegmentFacts
    <3> QED
      BY <2>2, <3>2
  <2>7. ASSUME NEW k \in 1 .. n
        PROVE  callee.locals[k] = IF k <= args THEN caller.operands[kept + k] ELSE 0
    <3>1. callee.locals[k] = cpu'.stack[a + k - 1]
      BY <2>1, <2>6
    <3>2. CASE k <= args
      <4>1. caller.operands[kept + k] = cpu.stack[a + k - 1]
        BY <2>3, <2>5, <3>2
      <4> QED
        BY <1>24, <2>3, <3>1, <3>2, <4>1 DEF sp
    <3>3. CASE ~(k <= args)
      <4>1. a + k - 1 \in sp + 1 .. sp + locals
        BY <2>2, <2>4, <3>3
      <4> QED
        BY <1>24, <3>1, <3>3, <4>1 DEF sp
    <3> QED
      BY <3>2, <3>3
  <2> QED
    BY <2>1, <2>6, <2>7 DEF n
<1>20. args \in 0 .. Len(caller.operands) /\ Len(caller.operands) - args = kept
       /\ args <= Len(callee.locals)
  BY <1>13, <1>14, <1>19
<1>21. (status # "running")' = (status # "running")
  OBVIOUS
<1>22. /\ caller = Abstract!Last(Methods) /\ callee = Abstract!Last(Methods')
       /\ Abstract!Front(Methods') = Front(Methods')
  BY SameOperators DEF caller, callee
<1> DEFINE n == args
<1>23. /\ Len(Methods') = Len(Methods) + 1
       /\ n \in 0 .. Len(caller.operands)
       /\ Abstract!Front(Methods') =
             [Methods EXCEPT ![Len(Methods)] = Abstract!Calling(caller, n)]
       /\ n <= Len(callee.locals)
       /\ \A k \in 1 .. Len(callee.locals) :
             callee.locals[k] =
                IF k <= n THEN caller.operands[Len(caller.operands) - n + k] ELSE 0
       /\ callee.operands = <<>>
  <2> HIDE DEF kept
  <2> QED
    BY <1>9, <1>17, <1>18, <1>19, <1>20, <1>22
<1> HIDE DEF n
<1> QED
  BY <1>21, <1>22, <1>23 DEF Abstract!Call, Abstract!Deepest, Methods

(* The method that waits longest for nothing but this return: its operands *)
(* end under the locals of the method that runs, and then with the result. *)
CallerBack(e) ==
    /\ Method(e)' = Picture(cpu'.stack, Registers(e).lv, Registers(e).nv,
                            FirstOperand(e), cpu.lv, Registers(e).pc)
    /\ Method(e) = Picture(cpu.stack, Registers(e).lv, Registers(e).nv,
                           FirstOperand(e), cpu.lv - 1, Registers(e).pc)

LEMMA ReturnPictures ==
    ASSUME IInv, IInv', frames \in Seq(Frame), frames # <<>>, frames' = Front(frames),
           Apart, ReturnMade
    PROVE  /\ \A i \in 1 .. Depth - 2 : Method(i)' = Method(i)
           /\ \A e : e = Depth - 1 => CallerBack(e)
<1>1. /\ Depth \in Nat /\ Depth >= 2 /\ Depth' = Depth - 1
      /\ \A i \in 1 .. Depth - 1 : /\ Registers(i)'.lv = Registers(i).lv
                                   /\ Registers(i)'.nv = Registers(i).nv
                                   /\ Registers(i)'.pc = Registers(i).pc
                                   /\ FirstOperand(i)' = FirstOperand(i)
  BY FrameFacts, LeftFrames
<1>2. \A k \in 0 .. cpu.lv - 1 : cpu'.stack[k] = cpu.stack[k]
  BY DEF ReturnMade
<1>3. ASSUME NEW i \in 1 .. Depth - 2
      PROVE  Method(i)' = Method(i)
  <2>1. i \in 1 .. Depth - 1 /\ i + 1 \in 1 .. Depth - 1 /\ i < Depth /\ i < Depth'
    BY <1>1
  <2>2. LastOperand(i)' = LastOperand(i)
    BY <1>1, <2>1 DEF LastOperand
  <2> QED
    BY <1>1, <1>2, <2>1, <2>2, WaitingStays
<1>4. ASSUME NEW e, e = Depth - 1
      PROVE  CallerBack(e)
  <2>1. e \in 1 .. Depth - 1 /\ e < Depth /\ ~(e < Depth') /\ e + 1 = Depth
    BY <1>1, <1>4
  <2>2. LastOperand(e)' = cpu.lv
    BY <2>1 DEF LastOperand, ReturnMade
  <2>3. LastOperand(e) = cpu.lv - 1
    BY <2>1, FrameFacts DEF LastOperand
  <2> QED
    BY <1>1, <2>1, <2>2, <2>3, MethodIs DEF CallerBack
<1> QED
  BY <1>3, <1>4

LEMMA ReturnSeen ==
    ASSUME IInv, IInv', frames \in Seq(Frame), frames # <<>>, frames' = Front(frames),
           Apart, status = "running", status' = "running", ReturnMade, First <= cpu.sp
    PROVE  Abstract!Return
<1>0. PICK e \in Nat : e = Depth - 1
  BY FrameFacts
<1> DEFINE d == Depth
<1>1. /\ d \in Nat /\ d >= 2 /\ d >= 1 /\ e \in Nat /\ e >= 1 /\ d = e + 1 /\ d - 1 = e
      /\ Depth - 2 = e - 1 /\ Depth' = e
      /\ e \in 1 .. e /\ d \in 1 .. d /\ e \in 1 .. d /\ e \in 1 .. d - 1
  BY <1>0, FrameFacts, LeftFrames
<1>2. (\A i \in 1 .. Depth - 2 : Method(i)' = Method(i)) /\ CallerBack(e)
  BY <1>0, ReturnPictures
<1>3. Method(d) = Picture(cpu.stack, cpu.lv, cpu.nv, First, cpu.sp, cpu.pc)
  BY RunningMethod
<1>4. IsList(Methods, d) /\ \A i \in 1 .. d : Methods[i] = Method(i)
  BY DEF Methods, IsList
<1>5. IsList(Methods', e) /\ \A i \in 1 .. e : Methods'[i] = Method(i)'
  BY <1>1 DEF Methods, IsList
<1> DEFINE lv    == Registers(e).lv
           nv    == Registers(e).nv
           first == FirstOperand(e)
           top   == cpu.lv
<1>6. /\ lv \in Nat /\ nv \in Nat /\ first \in Nat /\ top \in Nat
      /\ first <= top /\ lv + nv - 1 < top
  <2>1. /\ Registers(e).lv \in Nat /\ Registers(e).nv \in Nat /\ FirstOperand(e) \in Nat
        /\ Registers(e).lv + Registers(e).nv - 1 < cpu.lv
    BY <1>1, WaitingWords
  <2>2. FirstOperand(e) <= cpu.lv
    BY <1>1, ApartFacts
  <2> QED
    BY <2>1, <2>2, StackFacts
<1>7. /\ Method(e)' = Picture(cpu'.stack, lv, nv, first, top, Registers(e).pc)
      /\ Method(e) = Picture(cpu.stack, lv, nv, first, top - 1, Registers(e).pc)
  BY <1>2 DEF CallerBack
<1>8. (\A k \in 0 .. top - 1 : cpu'.stack[k] = cpu.stack[k]) /\ cpu'.stack[top] = Top(1)
  BY DEF ReturnMade
<1> HIDE DEF d, lv, nv, first, top
<1>9. Segment(cpu'.stack, lv, lv + nv - 1) = Segment(cpu.stack, lv, lv + nv - 1)
  <2> DEFINE b == lv + nv - 1
  <2>1. lv \in Int /\ b \in Int /\ \A k \in lv .. b : k \in 0 .. top - 1
    BY <1>6
  <2> HIDE DEF b
  <2>2. \A k \in lv .. b : cpu'.stack[k] = cpu.stack[k]
    BY <1>8, <2>1
  <2>3. Segment(cpu'.stack, lv, b) = Segment(cpu.stack, lv, b)
    BY <2>1, <2>2, SameSegment
  <2> QED
    BY <2>3 DEF b
<1>10. Segment(cpu'.stack, first, top) = Append(Segment(cpu.stack, first, top - 1), Top(1))
  <2> DEFINE b == top - 1
  <2>1. first \in Int /\ b \in Int /\ b + 1 = top /\ b - first + 1 >= 0
    BY <1>6
  <2>2. \A k \in first .. b : k \in 0 .. top - 1
    BY <1>6
  <2> HIDE DEF b
  <2>3. \A k \in first .. b : cpu'.stack[k] = cpu.stack[k]
    BY <1>8, <2>2
  <2>4. Segment(cpu'.stack, first, b) = Segment(cpu.stack, first, b)
    BY <2>1, <2>3, SameSegment
  <2>5. Append(Segment(cpu'.stack, first, b), cpu'.stack[b + 1])
           = Segment(cpu'.stack, first, b + 1)
    BY <2>1, SegmentAppend
  <2> QED
    BY <1>8, <2>1, <2>4, <2>5 DEF b
<1> DEFINE back == Abstract!Resumed(Method(e), Top(1))
<1>11. Method(e)' = back
  <2> DEFINE words == Segment(cpu.stack, first, top - 1)
             locals == Segment(cpu.stack, lv, lv + nv - 1)
             pc == Registers(e).pc
  <2>1. /\ Method(e) = [locals |-> locals, operands |-> words, resume |-> pc]
        /\ Method(e)' = [locals |-> locals, operands |-> Append(words, Top(1)), resume |-> pc]
    BY <1>7, <1>9, <1>10 DEF Picture
  <2> HIDE DEF words, locals, pc
  <2>3. back = [locals |-> locals, operands |-> Append(words, Top(1)), resume |-> pc]
    <3>1. PICK x : x = Method(e)
      OBVIOUS
    <3>2. x = [locals |-> locals, operands |-> words, resume |-> pc]
      BY <2>1, <3>1
    <3>3. PICK w : w = Top(1)
      OBVIOUS
    <3>4. Abstract!Resumed(x, w) = [x EXCEPT !.operands = Append(x.operands, w)]
      BY DEF Abstract!Resumed
    <3>5. Abstract!Resumed(x, w)
             = [locals |-> locals, operands |-> Append(words, w), resume |-> pc]
      BY <3>2, <3>4
    <3> QED
      BY <3>1, <3>3, <3>5
  <2> HIDE DEF back
  <2> QED
    BY <2>1, <2>3
<1>12. Methods[d] = Method(d) /\ Methods[e] = Method(e) /\ Last(Methods) = Method(d)
  BY <1>1, <1>4, ListFront
<1>13. Last(Methods).operands # <<>> /\ Last(Last(Methods).operands) = Top(1)
  <2> DEFINE a == First
             b == cpu.sp
             n == b - a + 1
  <2>0. a \in Nat /\ b \in Int /\ a <= b
    BY FrameFacts, StackFacts
  <2>1. a \in Int /\ b \in Int /\ n \in Nat /\ n >= 1 /\ n # 0 /\ n \in 1 .. n
        /\ a + n - 1 = b
    <3> HIDE DEF a, b
    <3> QED
      BY <2>0
  <2>2. Last(Methods).operands = Segment(cpu.stack, a, b)
    BY <1>3, <1>12 DEF Picture
  <2>3. Top(1) = cpu.stack[b]
    <3>1. cpu.sp \in Int
      BY StackFacts
    <3>2. cpu.sp - 1 + 1 = cpu.sp
      BY <3>1
    <3> QED
      BY <3>2 DEF Top
  <2> HIDE DEF a, b
  <2>4. IsList(Segment(cpu.stack, a, b), n) /\ Segment(cpu.stack, a, b)[n] = cpu.stack[a + n - 1]
    BY <2>1, SegmentFacts
  <2> HIDE DEF n
  <2>5. Segment(cpu.stack, a, b) # <<>>
    <3>1. \A f : IsList(f, n) => f # <<>>
      BY <2>1, ListFacts
    <3> QED
      BY <2>4, <3>1
  <2>6. Last(Segment(cpu.stack, a, b)) = cpu.stack[b]
    BY <2>1, <2>4, ListFront
  <2> QED
    BY <2>2, <2>3, <2>5, <2>6
<1>14. Methods' = [Front(Methods) EXCEPT ![e] = back]
  <2> HIDE DEF back
  <2>1. IsList(Front(Methods), e) /\ \A i \in 1 .. e : Front(Methods)[i] = Methods[i]
    <3>1. IsList(Front(Methods), d - 1) /\ \A i \in 1 .. d - 1 : Front(Methods)[i] = Methods[i]
      BY <1>1, <1>4, ListFront
    <3> QED
      BY <1>1, <3>1
  <2> DEFINE g == [Front(Methods) EXCEPT ![e] = back]
  <2>2. IsList(g, e) /\ \A i \in 1 .. e : g[i] = IF i = e THEN back ELSE Method(i)
    <3>1. \A i \in 1 .. e : Front(Methods)[i] = Method(i)
      BY <1>1, <1>4, <2>1
    <3> QED
      BY <1>1, <2>1, <3>1 DEF IsList
  <2> HIDE DEF g
  <2>3. ASSUME NEW i \in 1 .. e
        PROVE  Methods'[i] = g[i]
    <3>1. CASE i = e
      BY <1>5, <1>11, <2>2, <3>1
    <3>2. CASE i # e
      <4>1. i \in 1 .. Depth - 2
        BY <1>1, <3>2
      <4> QED
        BY <1>2, <1>5, <2>2, <3>2, <4>1
    <3> QED
      BY <3>1, <3>2
  <2>4. Methods' = g
    BY <1>5, <2>2, <2>3, ListsEqual
  <2> QED
    BY <2>4 DEF g
<1>15. Len(Methods) = d
  BY <1>1, <1>4, ListFacts
<1>16. (status # "running")' = (status # "running")
  OBVIOUS
<1>17. /\ Len(Methods) > 1
       /\ Abstract!Last(Methods).operands # <<>>
       /\ Methods' = [Abstract!Front(Methods) EXCEPT
             ![Len(Methods) - 1] =
                Abstract!Resumed(Methods[Len(Methods) - 1],
                                 Abstract!Last(Abstract!Last(Methods).operands))]
  <2>1. Len(Methods) > 1 /\ Len(Methods) - 1 = e
    BY <1>1, <1>15
  <2>2. /\ Abstract!Last(Methods).operands # <<>>
        /\ Abstract!Last(Abstract!Last(Methods).operands) = Top(1)
        /\ Abstract!Front(Methods) = Front(Methods)
    BY <1>13, SameOperators
  <2> QED
    BY <1>12, <1>14, <2>1, <2>2
<1> QED
  BY <1>16, <1>17 DEF Abstract!Return, Abstract!Deepest, Methods

(* A run that ends leaves the methods as they are.                         *)
LEMMA EndSeen ==
    ASSUME status = "running", status' # "running", cpu' = cpu, frames' = frames
    PROVE  Abstract!Next
<1>1. Abstract!End
  BY DEF Abstract!End, Method, WordsFrom, Registers, FirstOperand, LastOperand, Depth
<1> QED
  BY <1>1 DEF Abstract!Next

LEMMA InitSeen == CInit => Abstract!Init
<1> SUFFICES ASSUME CInit PROVE Abstract!Init
  OBVIOUS
<1>1. IInv /\ frames = <<>> /\ frames \in Seq(Frame) /\ Init
  BY InitIInv, EmptySeq DEF CInit
<1>2. /\ status \in {"running", "destroyed"}
      /\ cpu.lv = 0 /\ cpu.fp = cpu.nv /\ cpu.sp = cpu.nv - 1 /\ cpu.pc = 0
      /\ \A k \in 0 .. cpu.nv - 1 : cpu.stack[k] = 0
  BY <1>1, InitialRegisters
<1>3. Depth = 1 /\ First = cpu.nv
  <2>1. Depth = 1
    BY <1>1, FrameFacts
  <2> QED
    BY <1>1, <2>1 DEF First
<1> DEFINE nv   == cpu.nv
           size == cpu.stack_size
<1>4. nv \in Nat /\ size \in Nat /\ nv < size
  BY <1>1, <1>2, StackFacts
<1>5. Method(1) = Picture(cpu.stack, 0, 0 + nv - 1 + 1, nv, nv - 1, 0)
  <2>1. Method(Depth) = Picture(cpu.stack, cpu.lv, cpu.nv, First, cpu.sp, cpu.pc)
    BY <1>1, RunningMethod
  <2> QED
    BY <1>2, <1>3, <1>4, <2>1
<1>6. IsList(Methods, 1) /\ Methods[1] = Method(1)
  BY <1>3 DEF Methods, IsList
<1>7. Len(Methods) = 1
  BY <1>6, ListFacts
<1>8. \A k \in 0 .. nv - 1 : cpu.stack[k] = 0
  BY <1>2
<1> HIDE DEF nv, size
<1>9. Methods[1].operands = <<>>
  <2>1. Methods[1].operands = Segment(cpu.stack, nv, nv - 1)
    BY <1>5, <1>6 DEF Picture
  <2> DEFINE a == nv
             b == nv - 1
  <2>2. a \in Int /\ b \in Int /\ b - a + 1 = 0
    BY <1>4
  <2> HIDE DEF a, b
  <2>3. IsList(Segment(cpu.stack, a, b), 0)
    BY <2>2, SegmentFacts
  <2> QED
    BY <2>1, <2>3, ListFacts DEF a, b
<1>10. \A k \in 1 .. Len(Methods[1].locals) : Methods[1].locals[k] = 0
  <2> DEFINE b == nv - 1
  <2>1. 0 + (0 + nv - 1 + 1) - 1 = b /\ b \in Int /\ b - 0 + 1 = nv /\ b - 0 + 1 >= 0
    BY <1>4
  <2>2. Methods[1].locals = Segment(cpu.stack, 0, b)
    BY <1>5, <1>6, <2>1 DEF Picture
  <2>3. \A k \in 1 .. nv : 0 + k - 1 \in 0 .. nv - 1
    BY <1>4
  <2> HIDE DEF b
  <2>4. /\ Len(Segment(cpu.stack, 0, b)) = nv
        /\ \A k \in 1 .. nv : Segment(cpu.stack, 0, b)[k] = cpu.stack[0 + k - 1]
    <3>1. \A s : /\ Len(Segment(s, 0, b)) = b - 0 + 1
                 /\ \A k \in 1 .. b - 0 + 1 : Segment(s, 0, b)[k] = s[0 + k - 1]
      BY <2>1, SegmentFacts
    <3> QED
      BY <2>1, <3>1
  <2> QED
    BY <1>8, <2>2, <2>3, <2>4
<1>11. Methods[1].resume = 0
  BY <1>5, <1>6 DEF Picture
<1>12. (status # "running") \in BOOLEAN
  OBVIOUS
<1> QED
  BY <1>7, <1>9, <1>10, <1>11, <1>12 DEF Abstract!Init, Methods

LEMMA CallImplements ==
    ASSUME CInv, TakesItsOwn, cpu.pc < CodeSize, Call
    PROVE  Abstract!Next
<1>1. IInv /\ frames \in Seq(Frame) /\ Apart /\ status = "running"
  BY DEF CInv, Call, exec_op_invokevirtual, Fetch
<1>2. CASE status' = "running"
  <2>1. /\ Arguments \in Nat /\ First + Arguments <= cpu.sp + 1
        /\ \E locals \in Nat : CallMade(Arguments, locals)
        /\ \E f : Entering(f)
    BY <1>1, <1>2, CallEnters
  <2>2. PICK locals \in Nat : CallMade(Arguments, locals)
    BY <2>1
  <2>3. PICK f : Entering(f)
    BY <2>1
  <2>4. PICK n : n = Arguments
    OBVIOUS
  <2>5. n \in Nat /\ First + n <= cpu.sp + 1 /\ CallMade(n, locals)
    BY <2>1, <2>2, <2>4
  <2>6. Abstract!Call
    BY <1>1, <1>2, <2>3, <2>5, CallSeen
  <2> QED
    BY <1>1, <2>6 DEF Abstract!Next
<1>3. CASE status' # "running"
  <2>1. frames' = frames
    BY <1>3 DEF Call
  <2>2. DestroyNow \/ \E m : Become(m)
    <3>1. exec_op_invokevirtual
      BY DEF Call
    <3> QED
      BY <3>1 DEF exec_op_invokevirtual
  <2>3. cpu' = cpu
    BY <1>1, <1>3, <2>2 DEF Become, DestroyNow
  <2> QED
    BY <1>1, <1>3, <2>1, <2>3, EndSeen
<1> QED
  BY <1>2, <1>3

LEMMA ReturnImplements ==
    ASSUME CInv, IInv', TakesItsOwn, cpu.pc < CodeSize, frames # <<>>, Return
    PROVE  Abstract!Next
<1>1. IInv /\ frames \in Seq(Frame) /\ Apart /\ status = "running" /\ exec_op_ireturn
  BY DEF CInv, Return, exec_op_ireturn, Fetch
<1>2. CASE status' = "running"
  <2>1. ReturnMade /\ frames' = Front(frames)
    BY <1>1, <1>2, ReturnResult DEF Return
  <2>2. First <= cpu.sp
    <3>1. CodeByte(cpu.pc) = OP_IRETURN
      BY <1>1 DEF exec_op_ireturn, Fetch, Opcode
    <3>2. Fits(First, Needs(CodeByte(cpu.pc)))
      BY <1>1, NeedsFit
    <3>3. Needs(OP_IRETURN) = 1
      BY NeedsOf DEF One
    <3>4. First + 1 <= cpu.sp + 1 /\ First \in Nat /\ cpu.sp \in Int
      BY <1>1, <3>1, <3>2, <3>3, FrameFacts, StackFacts DEF Fits
    <3> HIDE DEF First
    <3> QED
      BY <3>4
  <2>3. Abstract!Return
    BY <1>1, <1>2, <2>1, <2>2, ReturnSeen
  <2> QED
    BY <1>1, <2>3 DEF Abstract!Next
<1>3. CASE status' # "running"
  <2>1. frames' = frames
    BY <1>3 DEF Return
  <2>2. DestroyNow \/ \E m : Become(m)
    BY <1>1 DEF exec_op_ireturn, Pushing
  <2>3. cpu' = cpu
    BY <1>1, <1>3, <2>2 DEF Become, DestroyNow
  <2> QED
    BY <1>1, <1>3, <2>1, <2>3, EndSeen
<1> QED
  BY <1>2, <1>3

LEMMA StepSeen ==
    ASSUME CInv, [CNext]_cvars
    PROVE  [Abstract!Next]_(Abstract!mvars)
<1>1. IInv /\ IInv'
  BY NextCInv DEF CInv
<1>2. CASE UNCHANGED cvars
  <2>1. UNCHANGED <<cpu, frames, status>>
    BY <1>2 DEF cvars, vars
  <2> QED
    BY <2>1 DEF Abstract!mvars, Method, WordsFrom, Registers, FirstOperand,
                LastOperand, Depth
<1>3. CASE Proceed /\ status # "running"
  <2>1. ~Step /\ ~exec_op_invokevirtual /\ ~exec_op_ireturn
    <3>1. \A op : ~Fetch(op)
      BY <1>3 DEF Fetch
    <3> QED
      BY <1>3, <3>1, StepFetches DEF exec_op_invokevirtual, exec_op_ireturn
  <2>2. UNCHANGED cvars
    BY <1>3, <2>1 DEF Proceed, Call, Return, OtherStep, RunStep, RunReturns, Over, cvars
  <2> QED
    BY <1>2, <2>2
<1>4. CASE Proceed /\ status = "running"
  <2>1. Disciplined
    BY <1>4 DEF Proceed
  <2>2. CASE (next_op_wide \/ ~finished) /\ Call
    BY <1>1, <2>1, <2>2, GoesOnInCode, CallImplements
  <2>3. CASE (next_op_wide \/ ~finished) /\ Return
    <3>1. cpu.pc < CodeSize /\ TakesItsOwn
      BY <1>1, <2>1, <2>3, GoesOnInCode
    <3>2. frames # <<>>
      BY <2>3, <3>1 DEF Return, exec_op_ireturn, Fetch, Opcode, TakesItsOwn
    <3> QED
      BY <1>1, <2>3, <3>1, <3>2, ReturnImplements
  <2>4. CASE OtherStep /\ RunStep /\ CodeByte(cpu.pc) \notin {OP_INVOKEVIRTUAL, OP_IRETURN}
    <3>1. cpu.pc < CodeSize /\ TakesItsOwn
      BY <1>1, <2>1, <2>4, GoesOnInCode DEF RunStep
    <3>2. OwnKept(First)
      BY <1>1, <1>4, <2>4, <3>1, StepOwn DEF CInv, RunStep
    <3>3. UNCHANGED frames
      BY <2>4 DEF OtherStep
    <3> QED
      BY <1>1, <1>4, <3>2, <3>3, OwnStepWorks
  <2>5. CASE RunReturns /\ UNCHANGED frames
    BY <1>4, <2>5, EndSeen DEF RunReturns
  <2> QED
    BY <1>4, <2>2, <2>3, <2>4, <2>5 DEF Proceed, OtherStep, Over
<1> QED
  BY <1>2, <1>3, <1>4 DEF CNext, Misuse

(* Calls on the one stack are calls between methods that share nothing:    *)
(* for every program that takes only its own, the machine of               *)
(* interpreter.c:240-334 implements CallStack.  What a method keeps for    *)
(* after a call is not changed, arguments arrive in order, and a return    *)
(* goes back to where the caller stopped.                                  *)
THEOREM StackImplementsCalls == CSpec => ImplementsCallStack
BY InitCInv, NextCInv, InitSeen, StepSeen, PTL
   DEF CSpec, ImplementsCallStack, Abstract!Spec
=============================================================================
