------------------------------ MODULE MainScan -------------------------------
(***************************************************************************)
(* How the machine finds out, before it starts, how many local variables   *)
(* main has (src/init.c): one pass over the code from its first byte, that *)
(* looks for variables and for the first method behind main at once.       *)
(*                                                                         *)
(* code and consts are those of a program; behind holds the two bytes that *)
(* follow the code in memory, which the pass may read.                     *)
(***************************************************************************)
EXTENDS Bytecode, Sequences

(* SIZE_MAX_UINT32_T: no method was found yet. *)
NoMethod == 2 * WordMax + 1

ScanStart ==
    [i         |-> 0,          \* position in the code
     next_wide |-> FALSE,      \* a WIDE was seen, and no variable since
     first     |-> NoMethod,   \* addr_first_method_after_main
     var_num   |-> 0,
     ok        |-> TRUE]       \* FALSE once destroy_ijvm_now was called

(* The loop ends, or breaks where the first method begins. *)
ScanOver(s, code) == ~s.ok \/ s.i >= Len(code) \/ s.i + 2 > s.first

VariableOps == {OP_ILOAD, OP_ISTORE, OP_IINC}

(* Argument bytes of the other instructions, as both loops count them. *)
ArgBytes(op) ==
    CASE op = OP_BIPUSH -> 1
      [] op \in {OP_GOTO, OP_IFEQ, OP_IFLT, OP_ICMPEQ, OP_LDC_W,
                 OP_INVOKEVIRTUAL} -> 2
      [] OTHER -> 0

(* Byte i of a memory that begins with the code. *)
At(memory, i) == memory[i + 1]
ShortAt(memory, i) == Short(At(memory, i), At(memory, i + 1))

(* An INVOKEVIRTUAL looks its method up, reached or not; get_constant ends *)
(* the process if there is no such constant.                               *)
ScanCall(s, code, memory, consts) ==
    LET c == ShortAt(memory, s.i + 1)
    IN  IF c \in 0 .. Len(consts) - 1
        THEN [s EXCEPT !.i = @ + 3,
                       !.first = IF consts[c + 1] > 0 /\ consts[c + 1] < @
                                    /\ consts[c + 1] < Len(code)
                                 THEN consts[c + 1] ELSE @]
        ELSE [s EXCEPT !.ok = FALSE]

(* Wrong: the last argument of IINC is taken for an instruction. *)
ScanVariableShort(s, memory) ==
    LET index == IF s.next_wide THEN ShortAt(memory, s.i + 1) ELSE At(memory, s.i + 1)
    IN  [s EXCEPT !.i = @ + (IF s.next_wide THEN 3 ELSE 2),
                  !.next_wide = FALSE,
                  !.var_num = IF index + 1 > @ THEN index + 1 ELSE @]

ScanVariable(s, memory) ==
    LET index == IF s.next_wide THEN ShortAt(memory, s.i + 1) ELSE At(memory, s.i + 1)
    IN  [s EXCEPT !.i = @ + (IF s.next_wide THEN 3 ELSE 2)
                          + (IF At(memory, s.i) = OP_IINC THEN 1 ELSE 0),
                  !.next_wide = FALSE,
                  !.var_num = IF index + 1 > @ THEN index + 1 ELSE @]

(* One round of the loop.  The flag of WIDE waits for a variable, however  *)
(* many other instructions come before it.                                 *)
ScanRound(s, code, memory, consts) ==
    LET op == At(memory, s.i)
    IN  CASE op = OP_WIDE          -> [s EXCEPT !.i = @ + 1, !.next_wide = TRUE]
          [] op = OP_INVOKEVIRTUAL -> ScanCall(s, code, memory, consts)
          [] op \in VariableOps    -> ScanVariable(s, memory)
          [] OTHER                 -> [s EXCEPT !.i = @ + 1 + ArgBytes(op)]

(* A round passes one byte at least, so Len(code) rounds are enough. *)
get_num_local_vars_main(code, consts, behind) ==
    LET after[n \in 0 .. Len(code)] ==
            IF n = 0 THEN ScanStart
            ELSE LET s == after[n - 1]
                 IN  IF ScanOver(s, code) THEN s
                     ELSE ScanRound(s, code, code \o behind, consts)
    IN  after[Len(code)]

-----------------------------------------------------------------------------
(* The same code read the way the machine does, to compare the scan with.  *)

(* An instruction begins at at.i, and at.wide says that a WIDE, which is   *)
(* one byte that lengthens the index of the next instruction, precedes it. *)
InstructionLength(code, at) ==
    LET op == At(code, at.i)
    IN  CASE op = OP_IINC                     -> IF at.wide THEN 4 ELSE 3
          [] op \in VariableOps \ {OP_IINC}   -> IF at.wide THEN 3 ELSE 2
          [] OTHER                            -> 1 + ArgBytes(op)

Behind(code, at) ==
    [i |-> at.i + InstructionLength(code, at), wide |-> At(code, at.i) = OP_WIDE]

(* Where the instructions of straight code begin. *)
Layout(code) ==
    LET nth[n \in 0 .. Len(code)] ==
            IF n = 0 THEN [i |-> 0, wide |-> FALSE]
            ELSE LET at == nth[n - 1]
                 IN  IF at.i >= Len(code) THEN at ELSE Behind(code, at)
    IN  {nth[n] : n \in 0 .. Len(code)}

(* All that any call in the code could have as its target. *)
MethodAddresses(code, consts) ==
    {consts[ShortAt(code, i + 1) + 1] :
        i \in {j \in 0 .. Len(code) - 3 :
                  /\ At(code, j) = OP_INVOKEVIRTUAL
                  /\ ShortAt(code, j + 1) \in 0 .. Len(consts) - 1}}

(* Main comes first, no method begins inside its instructions, and each   *)
(* WIDE belongs to a variable: where main reads an instruction, in code as *)
(* compilers lay it out.                                                   *)
InPlainMain(code, consts, at) ==
    /\ at \in Layout(code)
    /\ \A a \in MethodAddresses(code, consts) :
          a > 0 => at.i + InstructionLength(code, at) <= a
    /\ \A b \in Layout(code) :
          b.i < at.i /\ At(code, b.i) = OP_WIDE => At(code, b.i + 1) \in VariableOps
=============================================================================
