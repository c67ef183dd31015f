--------------------------- MODULE InterpreterMC -----------------------------
(***************************************************************************)
(* Constants for TLC, an assembler of a few lines, and families of         *)
(* programs that the instances of Interpreter choose from.                 *)
(***************************************************************************)
EXTENDS Interpreter, SequencesExt

MCArrBase == -1000000
MCNetBase == -900000

(* InitialSizes uses the values that power really computes. *)
ASSUME PowerOfEight == StackFactors = {IF i = 0 THEN 1 ELSE 8 * i ^ i : i \in 0 .. 6}

(* Bit operations on a few words, both signs. *)
ASSUME BitOperations ==
    /\ BitAnd(12, 10) = 8   /\ BitOr(12, 10) = 14
    /\ BitAnd(-1, 77) = 77  /\ BitOr(-1, 77) = -1
    /\ BitAnd(-4, -7) = -8  /\ BitOr(-4, 3) = -1
    /\ BitAnd(WordMin, WordMax) = 0 /\ BitOr(WordMin, WordMax) = -1

(* A program from its code in pieces. *)
Prog(consts, pieces) == [code |-> FlattenSeq(pieces), consts |-> consts]

(* Instructions with their arguments. *)
Push(w)      == <<OP_BIPUSH, w % 256>>
Load(i)      == <<OP_ILOAD, i>>
Store(i)     == <<OP_ISTORE, i>>
Inc(i, by)   == <<OP_IINC, i, by % 256>>
Invoke(c)    == <<OP_INVOKEVIRTUAL, 0, c>>
Wide(op, i)  == <<OP_WIDE, op, 0, i>>
Jumping(op, by) == <<op, (by % 65536) \div 256, by % 256>>
Header(args, locals) == <<0, args, 0, locals>>

-----------------------------------------------------------------------------
(* Every method of a few instructions of a kind that matters to the frame, *)
(* recursion included, called by a main that keeps a word of its own under *)
(* the arguments.                                                          *)
MainOfShort ==
    <<Inc(0, 5), Load(0), Push(6), Push(7), Invoke(0), <<OP_POP, OP_HALT>>>>

Units(nv) ==
    {<<OP_POP>>, <<OP_DUP>>, Push(9), Load(0), Invoke(0), <<OP_IRETURN>>,
     Inc(nv - 1, 2), Wide(OP_ISTORE, nv - 1)}
    \cup {Store(i) : i \in 0 .. nv}

ShortMethod(args, locals, body) ==
    Prog(<<14>>,
         MainOfShort \o <<Header(args, locals)>> \o body \o <<Load(0), <<OP_IRETURN>>>>)

ShortMethods(length) ==
    {ShortMethod(f[1], f[2], body) :
        f \in {<<1, 0>>, <<1, 2>>, <<2, 1>>}, body \in BoundedSeq(Units(1), length - 1)}
    \cup {ShortMethod(1, 0, body) : body \in BoundedSeq(Units(1), length)}
    \cup {ShortMethod(2, 1, body) : body \in BoundedSeq(Units(3), length - 2)}

-----------------------------------------------------------------------------
(* Programs that use the rest of the instructions, in the way a compiler   *)
(* of IJVM assembly writes them.                                           *)

(* Counts its argument down in a recursion, and adds up on the way back:   *)
(* sum(n) == IF n = 0 THEN 0 ELSE n + sum(n - 1).  The stack grows.        *)
Recursion(n) ==
    Prog(<<9>>,
         <<Push(0), Push(n), Invoke(0), <<OP_OUT, OP_HALT>>,
           Header(2, 1),
           Load(1), Jumping(OP_IFEQ, 21),
           Load(1), Store(2), Inc(2, -1),
           Load(1), Push(0), Load(2), Invoke(0), <<OP_IADD, OP_IRETURN>>,
           Push(0), <<OP_IRETURN>>>>)

(* A method makes an array and returns its reference; main keeps it in a   *)
(* variable, and each call of the method collects (GC_PERIOD is 1).        *)
ArraysFromAMethod(calls) ==
    Prog(<<3 * calls + 22>>,
         <<Push(4), Store(1), <<OP_NOP, OP_NOP>>>>
         \o [i \in 1 .. calls |-> Invoke(0)]
         \o <<Store(0), Load(1), Push(0), Load(0), <<OP_IASTORE>>>>
         \o <<Push(0), Load(0), <<OP_IALOAD, OP_OUT, OP_HALT>>, Header(0, 1),
              Push(1), <<OP_NEWARRAY>>, Store(0),
              Push(8), Push(0), Load(0), <<OP_IASTORE>>,
              Load(0), <<OP_GC, OP_IRETURN>>>>)

(* A method reads characters until the input ends, and branches on each    *)
(* of the conditions.                                                      *)
Reader ==
    Prog(<<8, -3>>,
         <<Push(1), Push(2), Invoke(0), <<OP_HALT>>,
           Header(1, 1),
           <<OP_IN, OP_DUP>>, Jumping(OP_IFEQ, 26),
           Push(65), Jumping(OP_ICMPEQ, 3),
           <<OP_LDC_W, 0, 1>>, Jumping(OP_IFLT, 6), <<OP_ERR, OP_ERR, OP_ERR>>,
           Wide(OP_ILOAD, 1), <<OP_WIDE, OP_IINC, 0, 1, 3>>,
           <<OP_POP>>, Jumping(OP_GOTO, 5), <<OP_ERR, OP_ERR>>,
           Load(1), Load(0), <<OP_SWAP, OP_ISUB, OP_IRETURN>>>>)

(* A method logs on to a host, exchanges characters and closes.            *)
Client(opening) ==
    Prog(<<11>>,
         <<Push(1), Push(2), Push(3), Invoke(0), <<OP_POP, OP_HALT>>,
           Header(2, 1),
           Load(0), Load(1), opening, Wide(OP_ISTORE, 2),
           Load(2), <<OP_NETIN>>, Push(6), <<OP_IAND>>, Push(9), <<OP_IOR>>,
           Load(2), <<OP_NETOUT>>,
           Load(2), <<OP_NETCLOSE>>, Load(2), <<OP_IRETURN>>>>)

(* Opens n connections with an array in a variable and one on the stack.   *)
Listeners(n) ==
    Prog(<<>>,
         <<Push(1), <<OP_NEWARRAY>>, Store(0), Push(1), <<OP_NEWARRAY>>>>
         \o [i \in 1 .. 2 * n |-> IF i % 2 = 1 THEN Push(80) ELSE <<OP_NETBIND>>]
         \o <<<<OP_HALT>>>>)

(* Code that ends in a call, in the middle of an argument, in an opcode    *)
(* that does not exist, and code that jumps behind its end.                *)
EndsInACall == Prog(<<3>>, <<Jumping(OP_GOTO, 10), Header(0, 0),
                                Push(3), <<OP_IRETURN>>, Invoke(0)>>)
Endings ==
    {Prog(<<>>, <<Push(1), end>>) :
        end \in {<<OP_BIPUSH>>, <<OP_LDC_W, 0>>, <<OP_LDC_W, 0, 0>>, <<1>>,
                 <<OP_WIDE, OP_ILOAD, 0>>, <<OP_IINC, 0>>, Inc(1, 1), Inc(9, 1),
                 Invoke(0), <<OP_ERR>>,
                 Jumping(OP_GOTO, -9), Jumping(OP_GOTO, 3)}}
    \cup {Prog(<<w>>, <<Push(1), Invoke(0)>>) : w \in {-1, 2, 5}}
    \cup {Prog(<<2>>, <<<<OP_NOP, OP_NOP>>, Header(0, 255), Invoke(0)>>)}

(* Main jumps over its method, and goes on behind it with a variable that  *)
(* the scan cannot see; and a scan that a prefix of DUP leads astray.      *)
MainInTwoParts ==
    Prog(<<8>>, <<Push(4), Invoke(0), Jumping(OP_GOTO, 10), Header(1, 0),
                  Load(0), <<OP_IRETURN>>, Store(0), <<OP_HALT>>>>)
PrefixedDup ==
    Prog(<<>>, <<Push(4), <<OP_WIDE, OP_DUP>>, Store(0), <<OP_DUP>>, Store(1),
                 <<OP_HALT>>>>)
WideVariables ==
    Prog(<<>>, <<Push(4), Wide(OP_ISTORE, 1), <<OP_WIDE, OP_IINC, 0, 0, 7>>,
                 Load(2), Inc(2, OP_BIPUSH), Store(3), <<OP_HALT>>>>)

(* A method stores behind the end of the stack, where it has no variable.  *)
StoresFar ==
    Prog(<<8>>, <<Push(1), Push(2), Invoke(0), <<OP_HALT>>, Header(2, 0),
                  Load(0), Store(90), Load(0), <<OP_IRETURN>>>>)

Compiled(depth) ==
    {Recursion(n) : n \in 0 .. depth}
    \cup {ArraysFromAMethod(n) : n \in 1 .. 3}
    \cup {Reader, EndsInACall, Listeners(2), Listeners(3),
          Client(<<OP_NOP, OP_NETCONNECT>>), Client(<<OP_POP, OP_NETBIND>>)}
    \cup {MainInTwoParts, PrefixedDup, WideVariables, StoresFar}
    \cup Endings
=============================================================================
