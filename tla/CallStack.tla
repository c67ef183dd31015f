------------------------------ MODULE CallStack ------------------------------
(***************************************************************************)
(* What calls promise, without a shared stack of words: every method in    *)
(* progress has local variables and operands that no other method can      *)
(* reach.  A call takes its arguments from the operands of the caller and  *)
(* a return puts one word in their place.                                  *)
(*                                                                         *)
(* docs/isa.md describes INVOKEVIRTUAL and IRETURN like this, and Calls    *)
(* implements it on one stack.                                             *)
(***************************************************************************)
EXTENDS Integers, SequencesExt

VARIABLES
    methods,   \* the methods in progress, the latest one last: records
               \* [locals, operands, resume] of two sequences of words and the
               \* address at which the method goes on
    ended      \* the run has ended

mvars == <<methods, ended>>

Deepest == Len(methods)

Init ==
    /\ ended \in BOOLEAN
    /\ Len(methods) = 1
    /\ methods[1].operands = <<>> /\ methods[1].resume = 0
    /\ \A k \in 1 .. Len(methods[1].locals) : methods[1].locals[k] = 0

(* An instruction that is no call: the method that runs works on its own   *)
(* variables and operands, and goes on anywhere in the code.               *)
Work ==
    /\ Len(methods') = Deepest
    /\ Front(methods') = Front(methods)
    /\ Len(Last(methods').locals) = Len(Last(methods).locals)
    /\ UNCHANGED ended

(* The caller gives n operands away; the result becomes an operand. *)
Calling(m, n) ==
    [m EXCEPT !.operands = SubSeq(m.operands, 1, Len(m.operands) - n),
              !.resume = @ + 3]
Resumed(m, result) == [m EXCEPT !.operands = Append(m.operands, result)]

(* The last n operands of the caller become the first local variables of   *)
(* the callee; the others are 0.  The caller goes on behind the 3 bytes of *)
(* the call.                                                               *)
Call ==
    LET caller == Last(methods)
        callee == Last(methods')
    IN  /\ Len(methods') = Deepest + 1
        /\ \E n \in 0 .. Len(caller.operands) :
              LET kept == Len(caller.operands) - n
              IN  /\ Front(methods') =
                        [methods EXCEPT ![Deepest] = Calling(caller, n)]
                  /\ n <= Len(callee.locals)
                  /\ \A k \in 1 .. Len(callee.locals) :
                        callee.locals[k] =
                            IF k <= n THEN caller.operands[kept + k] ELSE 0
        /\ callee.operands = <<>>
        /\ UNCHANGED ended

(* The method goes, and its last operand is the result. *)
Return ==
    /\ Deepest > 1 /\ Last(methods).operands # <<>>
    /\ methods' = [Front(methods) EXCEPT
                      ![Deepest - 1] =
                          Resumed(methods[Deepest - 1], Last(Last(methods).operands))]
    /\ UNCHANGED ended

End == ended' = TRUE /\ UNCHANGED methods

Next == ~ended /\ (Work \/ Call \/ Return \/ End)

Spec == Init /\ [][Next]_mvars
=============================================================================
