---------------------------- MODULE AnyProgramsMC ----------------------------
(***************************************************************************)
(* Interpreter on every program of up to three bytes of an alphabet that   *)
(* covers the stack, the local variables, branches, calls and returns,     *)
(* whatever they mean, on those of four bytes about frames and prefixes,   *)
(* and on the compiled programs.  The low numbers are opcodes, offsets,    *)
(* indexes and argument counts.                                            *)
(***************************************************************************)
EXTENDS InterpreterMC

Alphabet == {0, 1, 3, OP_BIPUSH, OP_DUP, OP_POP, OP_SWAP, OP_ISTORE, OP_WIDE,
             OP_IADD, OP_IRETURN, OP_INVOKEVIRTUAL, OP_IFEQ, OP_ERR}

FrameAlphabet == {0, 1, 3, OP_DUP, OP_ISTORE, OP_ILOAD, OP_WIDE, OP_IRETURN,
                  OP_INVOKEVIRTUAL, OP_SWAP}

(* Main has few enough variables for a small stack. *)
FewVariables(code) == get_num_local_vars_main(code, <<0>>, <<0, 0>>).var_num <= 4

AnyPrograms ==
    {Prog(<<0>>, <<code>>) :
        code \in {c \in BoundedSeq(Alphabet, 3) \cup [1 .. 4 -> FrameAlphabet] :
                     FewVariables(c)}}
    \cup Compiled(5)
=============================================================================
