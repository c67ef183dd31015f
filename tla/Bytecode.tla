------------------------------ MODULE Bytecode -------------------------------
(***************************************************************************)
(* The opcodes (include/bytecode.h) and the bit operations of IAND and IOR.*)
(***************************************************************************)
EXTENDS Words, FiniteSetsExt

OP_NOP           == 0
OP_BIPUSH        == 16
OP_LDC_W         == 19
OP_ILOAD         == 21
OP_ISTORE        == 54
OP_POP           == 87
OP_DUP           == 89
OP_SWAP          == 95
OP_IADD          == 96
OP_ISUB          == 100
OP_IAND          == 126
OP_IINC          == 132
OP_IFEQ          == 153
OP_IFLT          == 155
OP_ICMPEQ        == 159
OP_GOTO          == 167
OP_IRETURN       == 172
OP_IOR           == 176
OP_INVOKEVIRTUAL == 182
OP_WIDE          == 196
OP_NEWARRAY      == 209
OP_IALOAD        == 210
OP_IASTORE       == 211
OP_GC            == 212
OP_NETBIND       == 225
OP_NETCONNECT    == 226
OP_NETIN         == 227
OP_NETOUT        == 228
OP_NETCLOSE      == 229
OP_IN            == 252
OP_OUT           == 253
OP_ERR           == 254
OP_HALT          == 255

Opcodes == {
    OP_NOP, OP_BIPUSH, OP_LDC_W, OP_ILOAD, OP_ISTORE, OP_POP, OP_DUP, OP_SWAP,
    OP_IADD, OP_ISUB, OP_IAND, OP_IINC, OP_IFEQ, OP_IFLT, OP_ICMPEQ, OP_GOTO,
    OP_IRETURN, OP_IOR, OP_INVOKEVIRTUAL, OP_WIDE, OP_NEWARRAY, OP_IALOAD,
    OP_IASTORE, OP_GC, OP_NETBIND, OP_NETCONNECT, OP_NETIN, OP_NETOUT,
    OP_NETCLOSE, OP_IN, OP_OUT, OP_ERR, OP_HALT}

-----------------------------------------------------------------------------
(* Words as two's complement bit patterns.                                 *)

(* The positions below the sign bit where x has a 1. *)
OneBits(x) == {i \in 0 .. 30 : 2 ^ i <= WordMax /\ (x \div 2 ^ i) % 2 = 1}

BitAnd(a, b) ==
    FoldSet(LAMBDA i, sum : 2 ^ i + sum,
            IF a < 0 /\ b < 0 THEN WordMin ELSE 0,
            OneBits(a) \cap OneBits(b))

BitOr(a, b) == a + b - BitAnd(a, b)
=============================================================================
