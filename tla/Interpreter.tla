----------------------------- MODULE Interpreter -----------------------------
(***************************************************************************)
(* The machine: the CPU and its stack (src/cpu.c), the instructions        *)
(* (src/interpreter.c), the initial frame of main (src/init.c) and the end *)
(* of a run (src/main.c, src/terminate.c), on top of the arrays and the    *)
(* connections.  One action is one call of step(); the step that           *)
(* exec_op_wide makes inside its own is an action of its own, the one that *)
(* starts with next_op_wide = TRUE.                                        *)
(*                                                                         *)
(* The program is chosen in the initial state and never changes: a record  *)
(* [code, consts] of the code bytes and the constant pool, as load_bin     *)
(* leaves them behind.                                                     *)
(***************************************************************************)
EXTENDS NetOps, MainScan

CONSTANTS
    Programs,          \* the programs that may be loaded
    STACK_MIN_SIZE,    \* config.h: words of the smallest stack
    OPERAND_MARGIN,    \* init.c:141: words kept free above the local variables
    STACK_MAX_SIZE,    \* words of the largest stack (cpu.c:61)
    Refusals,          \* how often the allocator may refuse one allocation
    Junk,              \* words that memory may hold before it is written
    JunkBytes,         \* bytes that may follow the code in memory
    Chars              \* characters IN and NETIN may read, 0 .. 255

(* The sizes init_stack tries are STACK_MIN_SIZE * power(8, i) for i in    *)
(* 0 .. 6, and power (util.c:24-35) computes base * power^power.           *)
StackFactors == {1, 8, 32, 216, 2048, 25000, 373248}

InitialSizes(main_num_vars) ==
    {n \in {STACK_MIN_SIZE * k : k \in StackFactors} :
        main_num_vars + OPERAND_MARGIN <= n}

ASSUME MachineAssumption ==
    /\ WordMax >= 131070
    /\ \A p \in Programs :
          /\ p \in [code : {p.code}, consts : {p.consts}]
          /\ p.code \in Seq(Byte) /\ Len(p.code) <= WordMax
          /\ p.consts \in Seq(Word)
    /\ InitialSizes(32768) # {}
    /\ STACK_MIN_SIZE \in Nat \ {0}
    /\ OPERAND_MARGIN \in Nat /\ OPERAND_MARGIN >= 4
    /\ STACK_MAX_SIZE \in Nat /\ STACK_MAX_SIZE <= WordMax
    /\ 373248 * STACK_MIN_SIZE <= WordMax
    /\ Refusals \subseteq Nat
    /\ Junk \subseteq Word /\ Junk # {}
    /\ JunkBytes \subseteq Byte /\ JunkBytes # {}
    /\ Chars \subseteq Byte

VARIABLES
    program,            \* code_mem and const_mem
    cpu,                \* g_cpu: registers, stack and flags
    next_op_wide,       \* the flag of WIDE
    arr_mem,            \* arrays
    element_creations,  \* counter of get_free_index
    net_conn,           \* connections
    status              \* "running", "stopped" (run returned), "destroyed"
                        \* (destroy_ijvm_now), "recursing" (destroy_ijvm_now
                        \* calls itself without end) or "undefined" (a write
                        \* outside the stack)

vars == <<program, cpu, next_op_wide, arr_mem, element_creations, net_conn, status>>

-----------------------------------------------------------------------------
(* The state an instruction works on: a result in the sense of ArrayOps    *)
(* with the CPU and the connections as further fields.                     *)

Machine == [ok |-> TRUE, cpu |-> cpu, mem |-> arr_mem,
            creations |-> element_creations, net |-> net_conn]

(* destroy_ijvm_now frees the memory and leaves the process. *)
DestroyNow ==
    /\ status' = "destroyed"
    /\ arr_mem' = NoArrays
    /\ net_conn' = NoConns
    /\ UNCHANGED <<cpu, element_creations>>

(* net_destroy comes first, and its net_close ends in destroy_ijvm_now     *)
(* again at a connection whose index no reference encodes: from there on   *)
(* nothing is freed, and the process does not exit.                        *)
DestroyRecursively(m) ==
    /\ status' = "recursing"
    /\ arr_mem' = m.mem
    /\ element_creations' = m.creations
    /\ net_conn' = ClosedBelow(m.net)
    /\ UNCHANGED cpu

Destroy(m) == IF CanDestroy(m.net) THEN DestroyNow ELSE DestroyRecursively(m)

Become(m) ==
    IF m.ok
    THEN /\ cpu' = m.cpu
         /\ arr_mem' = m.mem
         /\ element_creations' = m.creations
         /\ net_conn' = m.net
         /\ UNCHANGED status
    ELSE DestroyNow

(* A write outside the memory of the stack: the language gives the rest of *)
(* the run no meaning.                                                     *)
Corrupt ==
    /\ status' = "undefined"
    /\ UNCHANGED <<cpu, arr_mem, element_creations, net_conn>>

-----------------------------------------------------------------------------
(* The stack                                                               *)

(* What a read of the stack at k returns, inside its memory or not. *)
StackAt(c, k, junk) == IF k \in 0 .. c.stack_size - 1 THEN c.stack[k] ELSE junk

(* Wrong: the collector reads the frame of the current method only. *)
GcWordsOfFrame(c, junk) == {StackAt(c, k, junk) : k \in c.lv .. c.sp - 1}

(* The words the collector reads: those below sp. *)
GcWords(c, junk) == {StackAt(c, k, junk) : k \in 0 .. c.sp - 1}

(* The size at which a stack that grows by factors of 8 first holds sp. *)
Octuples(size, sp) ==
    {n \in {size * k : k \in {8, 64, 512, 4096, 32768, 262144}} :
        n > sp /\ n \div 8 <= sp}

(* Wrong: the new memory receives a part of the old words. *)
octuple_stack_size_losing(m, refusals, junk) ==
    LET sizes == {n \in Octuples(m.cpu.stack_size, m.cpu.sp) : n <= STACK_MAX_SIZE}
        a     == Allocate(m, refusals, GcWords(m.cpu, junk))
    IN  IF sizes = {}
        THEN [m EXCEPT !.ok = FALSE]
        ELSE LET n == CHOOSE n \in sizes : TRUE
             IN  [a EXCEPT !.cpu.stack_size = n,
                           !.cpu.stack =
                               [k \in 0 .. n - 1 |->
                                   IF k < m.cpu.stack_size \div 4
                                   THEN m.cpu.stack[k] ELSE junk]]

(* octuple_stack_size, repeated until sp is inside the stack.  The words   *)
(* that are new hold whatever the memory held.                             *)
octuple_stack_size(m, refusals, junk) ==
    LET sizes == {n \in Octuples(m.cpu.stack_size, m.cpu.sp) : n <= STACK_MAX_SIZE}
        a     == Allocate(m, refusals, GcWords(m.cpu, junk))
    IN  IF sizes = {}
        THEN [m EXCEPT !.ok = FALSE]
        ELSE LET n == CHOOSE n \in sizes : TRUE
             IN  [a EXCEPT !.cpu.stack_size = n,
                           !.cpu.stack = [k \in 0 .. n - 1 |-> StackAt(m.cpu, k, junk)]]

(* The machines in which sp is inside the stack. *)
WithRoom(m) ==
    IF m.cpu.sp < m.cpu.stack_size \/ ~m.ok
    THEN {m}
    ELSE {octuple_stack_size(m, refusals, junk) : refusals \in Refusals, junk \in Junk}

WithTop(m, w) == IF m.ok THEN [m EXCEPT !.cpu.stack[m.cpu.sp] = w] ELSE m

(* The machines that pushing w may lead to. *)
stack_push(m, w) == {WithTop(r, w) : r \in WithRoom([m EXCEPT !.cpu.sp = @ + 1])}

(* stack_pop succeeds n times in a row. *)
CanPop(n) == cpu.sp - n + 1 >= cpu.lv /\ cpu.sp - n >= -1

(* Word number k from the top. *)
Top(k) == cpu.stack[cpu.sp - k + 1]

-----------------------------------------------------------------------------
(* Code and constants                                                      *)

CodeSize == Len(program.code)

(* get_arg_byte and get_arg_short find n argument bytes behind the opcode. *)
HasArgs(n) == cpu.pc + 1 + n <= CodeSize

CodeByte(i) == program.code[i + 1]
CodeShort(i) == Short(CodeByte(i), CodeByte(i + 1))

arg_byte(k) == CodeByte(cpu.pc + k)
arg_short(k) == CodeShort(cpu.pc + k)

IsConstant(i) == i \in 0 .. Len(program.consts) - 1
get_constant(i) == program.consts[i + 1]

(* finished: the loop of run makes no further step. *)
finished == cpu.pc < 0 \/ cpu.pc >= CodeSize \/ cpu.error_flag \/ cpu.halt_flag

(* The opcode that step reads, behind the code as well. *)
Opcode(op) ==
    IF cpu.pc < CodeSize THEN CodeByte(cpu.pc) = op ELSE op \in JunkBytes

(* step begins with this opcode; WIDE changes the next instruction only.   *)
(* step does not ask whether the machine has finished.                     *)
Fetch(op) ==
    /\ status = "running"
    /\ Opcode(op)
    /\ next_op_wide' = (op = OP_WIDE)
    /\ UNCHANGED program

(* The machine after the opcode, n argument bytes and k pops. *)
Advanced(n, k) == [Machine EXCEPT !.cpu.pc = @ + 1 + n, !.cpu.sp = @ - k]

(* The instruction ends by pushing w. *)
Pushing(m, w) == \E r \in stack_push(m, w) : Become(r)

(* The instruction ends, and the machine is m if ok holds. *)
Ending(ok, m) == IF ok THEN Become(m) ELSE DestroyNow

-----------------------------------------------------------------------------
(* Init: what init_ijvm leaves behind after a program was loaded.  The     *)
(* local variables of main are zero, the rest of the stack is not written. *)

InitialCpu(vars_main, size, junk) ==
    [pc         |-> 0,
     sp         |-> vars_main - 1,
     lv         |-> 0,
     nv         |-> vars_main,
     fp         |-> vars_main,
     stack_size |-> size,
     stack      |-> [k \in 0 .. size - 1 |-> IF k < vars_main THEN 0 ELSE junk],
     error_flag |-> FALSE,
     halt_flag  |-> FALSE]

(* The scan of main decides how large the first frame is, and so the       *)
(* stack; a call without a constant ends the process before it starts.     *)
Resets(scan) ==
    LET sizes == InitialSizes(scan.var_num)
        size  == CHOOSE size \in sizes : \A n \in sizes : size <= n
    IN  {[cpu    |-> InitialCpu(scan.var_num, size, junk),
          status |-> IF scan.ok THEN "running" ELSE "destroyed"] : junk \in Junk}

(* What init_ijvm may make of a program; the scan may read two bytes       *)
(* behind its end.                                                         *)
init_ijvm(p) ==
    UNION {Resets(get_num_local_vars_main(p.code, p.consts, behind)) :
              behind \in [1 .. 2 -> JunkBytes]}

Init ==
    /\ program \in Programs
    /\ \E r \in init_ijvm(program) : cpu = r.cpu /\ status = r.status
    /\ next_op_wide = FALSE
    /\ arr_mem = NoArrays
    /\ element_creations = 0
    /\ net_conn = NoConns

-----------------------------------------------------------------------------
(* Constants, stack and arithmetic                                         *)

exec_op_nop == Fetch(OP_NOP) /\ Become(Advanced(0, 0))

exec_op_bipush ==
    /\ Fetch(OP_BIPUSH)
    /\ IF HasArgs(1) THEN Pushing(Advanced(1, 0), Signed8(arg_byte(1)))
       ELSE DestroyNow

exec_op_ldc_w ==
    /\ Fetch(OP_LDC_W)
    /\ IF HasArgs(2) /\ IsConstant(Unsigned16(arg_short(1)))
       THEN Pushing(Advanced(2, 0), get_constant(Unsigned16(arg_short(1))))
       ELSE DestroyNow

exec_op_pop == Fetch(OP_POP) /\ Ending(CanPop(1), Advanced(0, 1))

(* DUP does not ask whether there is a word to duplicate. *)
exec_op_dup ==
    /\ Fetch(OP_DUP)
    /\ \E junk \in Junk : Pushing(Advanced(0, 0), StackAt(cpu, cpu.sp, junk))

exec_op_swap ==
    /\ Fetch(OP_SWAP)
    /\ Ending(CanPop(2),
              [Advanced(0, 0) EXCEPT
                  !.cpu.stack = [@ EXCEPT ![cpu.sp] = Top(2), ![cpu.sp - 1] = Top(1)]])

(* Two words are replaced by one (every sum below is a word: the           *)
(* intersection only says so).                                             *)
Binary(op, word) ==
    /\ Fetch(op)
    /\ IF CanPop(2)
       THEN \E w \in {word} \cap Word : Pushing(Advanced(0, 2), w)
       ELSE DestroyNow

exec_op_iadd == Binary(OP_IADD, ToWord(Top(2) + Top(1)))
exec_op_isub == Binary(OP_ISUB, ToWord(Top(2) - Top(1)))
exec_op_iand == Binary(OP_IAND, BitAnd(Top(2), Top(1)))
exec_op_ior  == Binary(OP_IOR, BitOr(Top(2), Top(1)))

-----------------------------------------------------------------------------
(* Local variables                                                         *)

(* One index byte, or two behind WIDE: read as unsigned by ILOAD and       *)
(* ISTORE, as signed by IINC.                                              *)
IndexBytes == IF next_op_wide THEN 2 ELSE 1
UnsignedIndex == IF next_op_wide THEN Unsigned16(arg_short(1)) ELSE arg_byte(1)
SignedIndex == IF next_op_wide THEN arg_short(1) ELSE arg_byte(1)

(* Wrong: the upper bound is missing. *)
IsLocalUnbounded(i) == i >= 0

IsLocal(i) == i \in 0 .. cpu.nv - 1

(* update_local_variable: nothing bounds lv + i by the size of the stack.  *)
UpdateLocal(m, i, w) ==
    IF cpu.lv + i < cpu.stack_size
    THEN Become([m EXCEPT !.cpu.stack = [@ EXCEPT ![cpu.lv + i] = w]])
    ELSE Corrupt

exec_op_iload ==
    /\ Fetch(OP_ILOAD)
    /\ IF HasArgs(IndexBytes) /\ IsLocal(UnsignedIndex)
       THEN \E junk \in Junk :
               Pushing(Advanced(IndexBytes, 0),
                       StackAt(cpu, cpu.lv + UnsignedIndex, junk))
       ELSE DestroyNow

exec_op_istore ==
    /\ Fetch(OP_ISTORE)
    /\ IF CanPop(1) /\ HasArgs(IndexBytes) /\ IsLocal(UnsignedIndex)
       THEN UpdateLocal(Advanced(IndexBytes, 1), UnsignedIndex, Top(1))
       ELSE DestroyNow

exec_op_iinc ==
    /\ Fetch(OP_IINC)
    /\ IF HasArgs(IndexBytes + 1) /\ IsLocal(SignedIndex)
       THEN \E junk \in Junk :
               UpdateLocal(Advanced(IndexBytes + 1, 0), SignedIndex,
                           ToWord(StackAt(cpu, cpu.lv + SignedIndex, junk)
                                    + Signed8(arg_byte(IndexBytes + 1))))
       ELSE DestroyNow

(* WIDE flags the next instruction (Fetch), and its own step runs it.      *)
exec_op_wide == Fetch(OP_WIDE) /\ Become(Advanced(0, 0))

-----------------------------------------------------------------------------
(* Branches                                                                *)

(* Wrong: the opcode and the argument are counted twice. *)
BranchOffsetTwice == Signed16(arg_short(1) - 6)

(* The argument counts from the opcode, the pc is behind the argument. *)
BranchOffset == Signed16(arg_short(1) - 3)

(* Wrong: jumps below the code are not refused. *)
JumpBelow(m, offset) ==
    Ending(offset < CodeSize, [m EXCEPT !.cpu.pc = @ + offset])

(* jump checks the offset, not the target, against the end of the code.    *)
Jump(m, offset) ==
    Ending(m.cpu.pc + offset >= 0 /\ offset < CodeSize,
           [m EXCEPT !.cpu.pc = @ + offset])

(* A branch that pops k words and is taken if the condition holds. *)
Branch(op, k, taken) ==
    /\ Fetch(op)
    /\ IF HasArgs(2) /\ CanPop(k)
       THEN IF taken THEN Jump(Advanced(2, k), BranchOffset)
                     ELSE Become(Advanced(2, k))
       ELSE DestroyNow

exec_op_ifeq   == Branch(OP_IFEQ, 1, Top(1) = 0)
exec_op_iflt   == Branch(OP_IFLT, 1, Top(1) < 0)
exec_op_icmpeq == Branch(OP_ICMPEQ, 2, Top(1) = Top(2))

exec_op_goto ==
    /\ Fetch(OP_GOTO)
    /\ IF HasArgs(2) THEN Jump(Advanced(2, 0), BranchOffset) ELSE DestroyNow

-----------------------------------------------------------------------------
(* Calls                                                                   *)

(* Wrong: the new frame begins one word too low, or leaves out its locals. *)
EnteredLow(m, args, locals) ==
    LET fp == m.cpu.sp - 3
        lv == fp - args - locals - 1
    IN  IF m.ok /\ lv >= 0
        THEN [m EXCEPT
                !.cpu.fp = fp, !.cpu.nv = args + locals, !.cpu.lv = lv,
                !.cpu.stack = [k \in DOMAIN @ |->
                                 IF k \in lv + args .. fp - 1 THEN 0 ELSE @[k]]]
        ELSE [m EXCEPT !.ok = FALSE]

EnteredWithoutLocals(m, args, locals) ==
    LET fp == m.cpu.sp - 3
        lv == fp - args
    IN  IF m.ok /\ lv >= 0
        THEN [m EXCEPT !.cpu.fp = fp, !.cpu.nv = args + locals, !.cpu.lv = lv]
        ELSE [m EXCEPT !.ok = FALSE]

(* The stack of a method, from the bottom: the arguments (at lv), the      *)
(* other local variables, and the link area (at fp): the old lv, nv and fp *)
(* and the return address.                                                 *)
(*                                                                         *)
(* The new frame, if it fits above the bottom of the stack: nothing asks   *)
(* whether the caller has that many words to hand over.                    *)
Entered(m, args, locals) ==
    LET fp == m.cpu.sp - 3
        lv == fp - args - locals
    IN  IF m.ok /\ lv >= 0
        THEN [m EXCEPT
                !.cpu.fp = fp, !.cpu.nv = args + locals, !.cpu.lv = lv,
                !.cpu.stack = [k \in DOMAIN @ |->
                                 IF k \in lv + args .. fp - 1 THEN 0 ELSE @[k]]]
        ELSE [m EXCEPT !.ok = FALSE]

exec_op_invokevirtual ==
    /\ Fetch(OP_INVOKEVIRTUAL)
    /\ IF HasArgs(2) /\ IsConstant(arg_short(1))
       THEN LET target == get_constant(arg_short(1))
                args   == Unsigned16(CodeShort(target))
                locals == Unsigned16(CodeShort(target + 2))
                m      == [Machine EXCEPT !.cpu.pc = target + 4,
                                          !.cpu.sp = @ + locals]
            IN  IF target >= 0 /\ target + 4 <= CodeSize
                THEN \E m1 \in stack_push(m, cpu.lv) :
                     \E m2 \in stack_push(m1, cpu.nv) :
                     \E m3 \in stack_push(m2, cpu.fp) :
                     \E m4 \in stack_push(m3, cpu.pc + 3) :
                        Become(Entered(m4, args, locals))
                ELSE DestroyNow
       ELSE DestroyNow

(* IRETURN believes the link area at fp, whoever wrote it.  It checks what *)
(* it restores, except that nothing bounds nv.                             *)
Returned(junk) ==
    [Machine EXCEPT
        !.cpu.pc = StackAt(cpu, cpu.fp + 3, junk),
        !.cpu.fp = StackAt(cpu, cpu.fp + 2, junk),
        !.cpu.nv = StackAt(cpu, cpu.fp + 1, junk),
        !.cpu.lv = StackAt(cpu, cpu.fp, junk),
        !.cpu.sp = cpu.fp - 1 - cpu.nv]

(* Wrong: a frame at the bottom of the stack is refused. *)
IsFrameAboveBottom(c) ==
    /\ c.sp >= -1 /\ c.sp < c.stack_size
    /\ c.pc >= 0 /\ c.pc < CodeSize
    /\ c.fp >= 0 /\ c.fp < c.stack_size
    /\ c.nv >= 0
    /\ c.lv > 0 /\ c.lv < c.stack_size

(* Wrong: the upper bound of lv is missing. *)
IsFrameUnbounded(c) ==
    /\ c.sp >= -1 /\ c.sp < c.stack_size
    /\ c.pc >= 0 /\ c.pc < CodeSize
    /\ c.fp >= 0 /\ c.fp < c.stack_size
    /\ c.nv >= 0
    /\ c.lv >= 0

IsFrame(c) ==
    /\ c.sp >= -1 /\ c.sp < c.stack_size
    /\ c.pc >= 0 /\ c.pc < CodeSize
    /\ c.fp >= 0 /\ c.fp < c.stack_size
    /\ c.nv >= 0
    /\ c.lv >= 0 /\ c.lv < c.stack_size

exec_op_ireturn ==
    /\ Fetch(OP_IRETURN)
    /\ \E junk \in Junk :
          IF CanPop(1) /\ cpu.fp >= cpu.lv /\ IsFrame(Returned(junk).cpu)
          THEN Pushing(Returned(junk), Top(1))
          ELSE DestroyNow

-----------------------------------------------------------------------------
(* Input, output, flags                                                    *)

(* The end of the input reads as 0. *)
exec_op_in ==
    /\ Fetch(OP_IN)
    /\ \E c \in Chars \cup {0} : Pushing(Advanced(0, 0), c)

exec_op_out == Fetch(OP_OUT) /\ Ending(CanPop(1), Advanced(0, 1))

exec_op_err ==
    /\ Fetch(OP_ERR)
    /\ Become([Advanced(0, 0) EXCEPT !.cpu.error_flag = TRUE])

exec_op_halt ==
    /\ Fetch(OP_HALT)
    /\ Become([Advanced(0, 0) EXCEPT !.cpu.halt_flag = TRUE])

(* Any other byte sets the error flag (interpreter.c:542-545). *)
InvalidOpcode ==
    /\ \E op \in (IF cpu.pc < CodeSize THEN {CodeByte(cpu.pc)} ELSE JunkBytes) \ Opcodes :
          Fetch(op)
    /\ Become([Advanced(0, 0) EXCEPT !.cpu.error_flag = TRUE])

-----------------------------------------------------------------------------
(* Arrays                                                                  *)

exec_op_newarray ==
    /\ Fetch(OP_NEWARRAY)
    /\ IF CanPop(1)
       THEN LET m == Advanced(0, 1)
            IN  \E junk \in Junk :
                \E r \in arr_create(arr_mem, element_creations,
                                    GcWords(m.cpu, junk), Top(1), Refusals) :
                   IF r.ok
                   THEN Pushing([m EXCEPT !.mem = r.mem, !.creations = r.creations],
                                r.ref)
                   ELSE DestroyNow
       ELSE DestroyNow

exec_op_iaload ==
    /\ Fetch(OP_IALOAD)
    /\ IF CanPop(2) /\ InBounds(arr_mem, Top(1), Top(2))
       THEN Pushing(Advanced(0, 2), arr_get(arr_mem, Top(1), Top(2)))
       ELSE DestroyNow

exec_op_iastore ==
    /\ Fetch(OP_IASTORE)
    /\ IF CanPop(3) /\ InBounds(arr_mem, Top(1), Top(2))
       THEN Become([Advanced(0, 3) EXCEPT
                       !.mem = arr_set(arr_mem, Top(1), Top(2), Top(3))])
       ELSE DestroyNow

exec_op_gc ==
    /\ Fetch(OP_GC)
    /\ \E junk \in Junk : Become(arr_gc(Advanced(0, 0), GcWords(cpu, junk)))

-----------------------------------------------------------------------------
(* Connections                                                             *)

(* A socket is created; then the system calls make a connection, and its   *)
(* reference is pushed, or they do not, and 0 is.                          *)
Connect(m, flag) ==
    \E junk \in Junk :
    \E s \in {socket_create(m, refusals, GcWords(m.cpu, junk)) : refusals \in Refusals} :
        IF s.r.ok
        THEN \/ Pushing(s.r, 0)
             \/ Pushing([s.r EXCEPT !.net.socks[s.sock] = flag],
                        net_index_to_ref(s.sock))
        ELSE Destroy(s.r)

exec_op_netbind ==
    /\ Fetch(OP_NETBIND)
    /\ IF CanPop(1) THEN Connect(Advanced(0, 1), "server") ELSE DestroyNow

exec_op_netconnect ==
    /\ Fetch(OP_NETCONNECT)
    /\ IF CanPop(2) THEN Connect(Advanced(0, 2), "client") ELSE DestroyNow

(* recv and send may fail at any time, which ends the program. *)
exec_op_netin ==
    /\ Fetch(OP_NETIN)
    /\ \/ /\ CanPop(1) /\ IsConnected(net_conn, Top(1))
          /\ \E c \in Chars : Pushing(Advanced(0, 1), Signed8(c))
       \/ DestroyNow

exec_op_netout ==
    /\ Fetch(OP_NETOUT)
    /\ \/ /\ CanPop(2) /\ IsConnected(net_conn, Top(1))
          /\ Become(Advanced(0, 2))
       \/ DestroyNow

exec_op_netclose ==
    /\ Fetch(OP_NETCLOSE)
    /\ Ending(CanPop(1) /\ IsConn(net_conn, Top(1)),
              [Advanced(0, 1) EXCEPT
                  !.net.socks[net_ref_to_index(Top(1))] = "free"])

-----------------------------------------------------------------------------
(* run returns. *)
RunReturns ==
    /\ status = "running" /\ ~next_op_wide /\ finished
    /\ status' = "stopped"
    /\ UNCHANGED <<program, cpu, next_op_wide, arr_mem, element_creations, net_conn>>

(* No step follows. *)
Over == status # "running" /\ UNCHANGED vars

Step ==
    \/ exec_op_nop \/ exec_op_bipush \/ exec_op_ldc_w \/ exec_op_iload
    \/ exec_op_istore \/ exec_op_pop \/ exec_op_dup \/ exec_op_swap
    \/ exec_op_iadd \/ exec_op_isub \/ exec_op_iand \/ exec_op_iinc
    \/ exec_op_ifeq \/ exec_op_iflt \/ exec_op_icmpeq \/ exec_op_goto
    \/ exec_op_ireturn \/ exec_op_ior \/ exec_op_invokevirtual \/ exec_op_wide
    \/ exec_op_in \/ exec_op_out \/ exec_op_err \/ exec_op_halt
    \/ exec_op_newarray \/ exec_op_iaload \/ exec_op_iastore \/ exec_op_gc
    \/ exec_op_netbind \/ exec_op_netconnect \/ exec_op_netin \/ exec_op_netout
    \/ exec_op_netclose \/ InvalidOpcode

(* The loop of run asks finished before each step; exec_op_wide does not,  *)
(* and its step may read behind the code.                                  *)
RunStep == (next_op_wide \/ ~finished) /\ Step

Next == RunStep \/ RunReturns \/ Over

Spec == Init /\ [][Next]_vars

-----------------------------------------------------------------------------
(* The shapes of the state. *)
TypeOK ==
    /\ program \in [code : Seq(Byte), consts : Seq(Word)]
    /\ cpu \in [pc : Nat, sp : Int, lv : Nat, nv : 0 .. WordMax, fp : Nat,
                stack_size : 0 .. WordMax, stack : {cpu.stack},
                error_flag : BOOLEAN, halt_flag : BOOLEAN]
    /\ cpu.stack \in [0 .. cpu.stack_size - 1 -> Word]
    /\ next_op_wide \in BOOLEAN
    /\ IsArrMem(arr_mem)
    /\ element_creations \in 0 .. GC_PERIOD
    /\ IsNetConn(net_conn)
    /\ status \in {"running", "stopped", "destroyed", "recursing", "undefined"}

(* Whatever the program does, sp, lv and fp stay inside the memory of the  *)
(* stack, also where an IRETURN restores words that no call has written:   *)
(* every push and pop hits the stack (cpu.c:16-47, interpreter.c:228-312). *)
RegistersInStack ==
    /\ cpu.sp \in -1 .. cpu.stack_size - 1
    /\ cpu.lv < cpu.stack_size
    /\ cpu.fp < cpu.stack_size

(* Every open connection and every array is reached by its own reference,  *)
(* so no two share one, while the program runs and when it has ended.      *)
(* net_check_ref comes after the slot is claimed, and lets pass indexes    *)
(* whose high bits the pattern hides (net.c:58-65, 83-92): the first index *)
(* that is too high ends the run, and leaves just one connection that the  *)
(* recursion of destroy_ijvm_now cannot close (net.c:221, 249).            *)
RefsLeadBack ==
    LET leadsBack(i) == net_ref_to_index(net_index_to_ref(i)) = i
    IN  /\ \A i \in Claimed(arr_mem) : ref_to_index(index_to_ref(i)) = i
        /\ status # "recursing" => \A i \in Open(net_conn) : leadsBack(i)
        /\ status = "recursing" => \E i \in NetSlots(net_conn) : Open(net_conn) = {i}

(* No instruction that makes room in memory, be it for an array, for a     *)
(* connection or for the stack, lets the collector take an array whose     *)
(* reference is in a word under the top of the stack, before and after.    *)
(* Only IASTORE changes what is in such an array.                          *)
UnderTheTop ==
    {cpu.stack[k] : k \in {j \in 0 .. cpu.sp - 2 : j <= cpu'.sp - 2}}

DeepArraysSurvive ==
    [][status' = "running" =>
          \A i \in Claimed(arr_mem) :
              index_to_ref(i) \in UnderTheTop =>
                  /\ i \in Claimed(arr_mem')
                  /\ Opcode(OP_IASTORE) \/ arr_mem'.values[i] = arr_mem.values[i]]_vars
=============================================================================
