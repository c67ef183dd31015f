-------------------------------- MODULE Calls --------------------------------
(***************************************************************************)
(* What a call promises its caller.  The machine keeps the frames of the   *)
(* methods in progress in one stack of words, linked by words that any     *)
(* instruction could overwrite.  This module runs the machine next to a    *)
(* record of the calls, which no instruction can touch, and compares them. *)
(*                                                                         *)
(* The promise is made to programs that take only what is theirs: an       *)
(* instruction pops words its own method has pushed, main does not return, *)
(* and the code does not end in WIDE.  A behaviour stands still where a    *)
(* program is about to do otherwise.                                       *)
(***************************************************************************)
EXTENDS Interpreter, SequencesExt

VARIABLE frames   \* one record per call in progress, the latest one last:
                  \* the registers of the caller, and the method it called
                  \* with which arguments

cvars == <<vars, frames>>

(* The operands of a method lie above its link area, or, in main, above    *)
(* the local variables.                                                    *)
Operands == cpu.sp - (IF frames = <<>> THEN cpu.nv ELSE cpu.fp + 4) + 1

(* How many words of its method an instruction needs on the stack.         *)
Needs(op) ==
    CASE op \in {OP_POP, OP_DUP, OP_ISTORE, OP_IFEQ, OP_IFLT, OP_IRETURN, OP_OUT,
                 OP_NEWARRAY, OP_NETBIND, OP_NETIN, OP_NETCLOSE} -> 1
      [] op \in {OP_SWAP, OP_IADD, OP_ISUB, OP_IAND, OP_IOR, OP_ICMPEQ,
                 OP_IALOAD, OP_NETCONNECT, OP_NETOUT} -> 2
      [] op = OP_IASTORE -> 3
      [] OTHER -> 0

(* The number of arguments that an INVOKEVIRTUAL at the pc hands over. *)
Arguments == Unsigned16(CodeShort(get_constant(arg_short(1))))
IsCall ==
    /\ CodeByte(cpu.pc) = OP_INVOKEVIRTUAL
    /\ HasArgs(2) /\ IsConstant(arg_short(1))
    /\ get_constant(arg_short(1)) \in 0 .. CodeSize - 4

TakesItsOwn ==
    cpu.pc < CodeSize =>
        /\ Operands >= Needs(CodeByte(cpu.pc))
        /\ CodeByte(cpu.pc) = OP_IRETURN => frames # <<>>
        /\ IsCall => Operands >= Arguments

Disciplined == TakesItsOwn /\ (next_op_wide => cpu.pc < CodeSize)

(* The words on top of the stack, in the order they were pushed. *)
TopWords(n) == [k \in 1 .. n |-> cpu.stack[cpu.sp - n + k]]

CInit == Init /\ frames = <<>>

Call ==
    /\ exec_op_invokevirtual
    /\ frames' = IF status' = "running"
                 THEN Append(frames, [lv |-> cpu.lv, nv |-> cpu.nv, fp |-> cpu.fp,
                                      pc |-> cpu.pc + 3,
                                      entry |-> get_constant(arg_short(1)),
                                      args |-> TopWords(Arguments)])
                 ELSE frames

Return ==
    /\ exec_op_ireturn
    /\ frames' = IF status' = "running" THEN Front(frames) ELSE frames

(* Any other instruction, or the end of the run. *)
OtherStep ==
    /\ \/ RunStep /\ CodeByte(cpu.pc) \notin {OP_INVOKEVIRTUAL, OP_IRETURN}
       \/ RunReturns
       \/ Over
    /\ UNCHANGED frames

Misuse == status = "running" /\ ~Disciplined /\ UNCHANGED cvars

Proceed ==
    /\ status = "running" => Disciplined
    /\ \/ (next_op_wide \/ ~finished) /\ (Call \/ Return)
       \/ OtherStep

CNext == Proceed \/ Misuse

CSpec == CInit /\ [][CNext]_cvars

(* run does nothing but call step until finished. *)
FairCSpec == CSpec /\ WF_cvars(Proceed)

-----------------------------------------------------------------------------
(* The methods in progress, as the words of the stack show them: main is   *)
(* number 1, and number Depth runs.                                        *)
Depth == Len(frames) + 1

Registers(i) == IF i < Depth THEN frames[i] ELSE cpu

FirstOperand(i) == IF i = 1 THEN Registers(1).nv ELSE Registers(i).fp + 4
LastOperand(i) == IF i < Depth THEN Registers(i + 1).lv - 1 ELSE cpu.sp

(* The words a up to b of the stack. *)
WordsFrom(a, b) == [k \in 1 .. b - a + 1 |-> cpu.stack[a + k - 1]]

Method(i) ==
    LET r == Registers(i)
    IN  [locals   |-> WordsFrom(r.lv, r.lv + r.nv - 1),
         operands |-> WordsFrom(FirstOperand(i), LastOperand(i)),
         resume   |-> r.pc]

(* However deep the calls, and however often the stack was moved to grow,  *)
(* the four words at the fp of every method in progress are the registers  *)
(* its caller had (interpreter.c:278-311).                                 *)
LinksIntact ==
    status = "running" =>
        \A i \in 1 .. Len(frames) :
            LET at == Registers(i + 1).fp
                f  == frames[i]
            IN  /\ {at, at + 1, at + 2, at + 3} \subseteq DOMAIN cpu.stack
                /\ cpu.stack[at] = f.lv     /\ cpu.stack[at + 1] = f.nv
                /\ cpu.stack[at + 2] = f.fp /\ cpu.stack[at + 3] = f.pc

(* The method in progress cannot reach beyond its own frame: its variables *)
(* end where its link area begins, which lies above the operands its       *)
(* callers keep and under its own (interpreter.c:285-310).                 *)
FramesNest ==
    status = "running" =>
        /\ \A i \in 1 .. Depth : Registers(i).fp = Registers(i).lv + Registers(i).nv
        /\ \A i \in 1 .. Depth - 1 : Registers(i + 1).lv >= FirstOperand(i)
        /\ cpu.sp >= FirstOperand(Depth) - 1

(* Calls on the one stack are calls between methods that share nothing     *)
(* (CallStack): the locals and operands of a method that waits are not     *)
(* changed, arguments arrive, and a return restores its caller.            *)
Abstract == INSTANCE CallStack WITH
                methods <- [i \in 1 .. Depth |-> Method(i)],
                ended   <- status # "running"

ImplementsCallStack == Abstract!Spec

(* A program that takes only its own never writes outside the stack.       *)
NeverCorrupts == status # "undefined"

(* No return of such a program is refused as one without a frame           *)
(* (interpreter.c:240-248), unless it was the last instruction that called.*)
ReturnsSucceed ==
    [][Return /\ Last(frames).pc < CodeSize => status' = "running"]_cvars

(* Main finds its variables: where compiled code has main first and WIDE   *)
(* only before variables, the scan of init.c:14-121 has counted the        *)
(* variable that the next instruction of main uses.                        *)
MainVariablesFit ==
    status = "running" /\ frames = <<>> /\ cpu.pc < CodeSize
    /\ CodeByte(cpu.pc) \in VariableOps /\ HasArgs(IndexBytes)
    /\ InPlainMain(program.code, program.consts, [i |-> cpu.pc, wide |-> next_op_wide])
    /\ SignedIndex >= 0
        => SignedIndex < cpu.nv

(* A run ends, if the program never branches back and takes only its own:  *)
(* calls cannot keep the machine busy, since the memory of the stack       *)
(* limits their depth, nor can prefixes (interpreter.c:426).  Only one     *)
(* connection too many keeps the process busy for ever (net.c:92, 249).    *)
BranchesForward ==
    \A i \in 0 .. CodeSize - 3 :
        CodeByte(i) \in {OP_GOTO, OP_IFEQ, OP_IFLT, OP_ICMPEQ} => CodeShort(i + 1) > 2
RunEnds ==
    BranchesForward /\ [](status # "recursing")
        => <>(status \in {"stopped", "destroyed", "undefined"} \/ ~Disciplined)

(* Why it ends: an instruction starts at a place in the code, as many      *)
(* methods wait at places in the code as there is room for in the stack,   *)
(* and it moves the run on: a method before the methods it called, which   *)
(* after their return have moved on for good, since the caller resumes     *)
(* behind the call (interpreter.c:228-312).                                *)
PlacesBounded ==
    /\ 4 * (Depth - 1) <= cpu.sp + 1
    /\ \A i \in 1 .. Depth : Registers(i).pc \in 0 .. CodeSize

MovesOn ==
    \/ /\ Depth' < Depth
       /\ \A i \in 1 .. Depth' : Registers(i)'.pc = Registers(i).pc
    \/ \E i \in 1 .. Depth :
          /\ i <= Depth' /\ Registers(i)'.pc > Registers(i).pc
          /\ \A j \in 1 .. i - 1 : Registers(j)'.pc = Registers(j).pc

NeverGoesBack ==
    [][status' = "running" => PlacesBounded /\ (BranchesForward => MovesOn)]_cvars
=============================================================================
