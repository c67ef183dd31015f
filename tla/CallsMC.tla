------------------------------- MODULE CallsMC --------------------------------
(***************************************************************************)
(* Calls on short methods, on compiled programs and on recursions.         *)
(***************************************************************************)
EXTENDS Calls, InterpreterMC

(* A recursion that nothing ends but the memory of the stack. *)
EndlessRecursion ==
    Prog(<<6>>, <<Push(0), Invoke(0), <<OP_HALT>>, Header(1, 1),
                  Push(0), Invoke(0), <<OP_IRETURN>>>>)

CallingPrograms == ShortMethods(4) \cup Compiled(5) \cup {EndlessRecursion}

(* Programs that have to end. *)
EndingPrograms == ShortMethods(2) \cup Compiled(3) \cup {EndlessRecursion}
=============================================================================
