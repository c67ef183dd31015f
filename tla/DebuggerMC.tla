----------------------------- MODULE DebuggerMC ------------------------------
(***************************************************************************)
(* Debugger on a few programs: calls inside calls with arguments that      *)
(* differ, recursion, branches, an end in the middle of a call, prefixes,  *)
(* and programs at the borders of what a machine can run.                  *)
(***************************************************************************)
EXTENDS Debugger, InterpreterMC

(* main calls f(5, 6), f calls g(6), g returns 3; f adds and returns.      *)
Nested ==
    Prog(<<11, 22>>,
         <<Push(0), Push(5), Push(6), Invoke(0), <<OP_POP, OP_HALT>>,
           Header(3, 0), Push(0), Load(2), Invoke(1), <<OP_IRETURN>>,
           <<0, 2, 0, 1>>, Load(1), Jumping(OP_IFEQ, 4), <<OP_NOP>>,
           Push(3), <<OP_IRETURN>>>>)

HaltsInACall ==
    Prog(<<7>>, <<Push(4), Invoke(0), <<OP_HALT, OP_NOP>>, Header(1, 0),
                  <<OP_HALT>>, Load(0), <<OP_IRETURN>>>>)

PrefixedCall ==
    Prog(<<7>>, <<Push(4), <<OP_WIDE>>, Invoke(0), <<OP_HALT>>, Header(1, 0),
                  Load(0), <<OP_IRETURN>>>>)

Loops == Prog(<<>>, <<Push(1), <<OP_POP>>, Jumping(OP_GOTO, -3)>>)

(* Runs to its end, where a breakpoint may be.                             *)
FallsOff == Prog(<<>>, <<Push(1), <<OP_POP>>>>)

NoHeader == Prog(<<4>>, <<Push(1), Invoke(0)>>)
NoConstant == Prog(<<>>, <<Push(1), Invoke(0)>>)

DebuggedPrograms ==
    {Nested, Recursion(1), HaltsInACall, PrefixedCall, Loops, FallsOff,
     NoHeader, NoConstant, WideVariables, Prog(<<>>, <<<<>>>>),
     Prog(<<>>, <<Push(1), Jumping(OP_GOTO, 3), <<OP_ERR, OP_NOP>>>>)}

OneProgram == {Nested}

BreakAddresses == {0, 3, 15, 26}
=============================================================================
