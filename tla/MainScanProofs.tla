---------------------------- MODULE MainScanProofs ----------------------------
(***************************************************************************)
(* Main finds its variables, for every program whose code is laid out the  *)
(* way compilers do it: main first, and each WIDE before a variable.       *)
(*                                                                         *)
(* The argument has two parts.  The scan of init.c and the layout of the   *)
(* code walk through main in lockstep: up to an instruction of main, round *)
(* number n of the scan stands where instruction number n begins, and      *)
(* keeps the flag of WIDE that the machine has there.  So the scan has     *)
(* counted every variable of main before the machine uses it.  And the     *)
(* frame of main stays as large as the scan made it: an instruction of     *)
(* main does not change it, a call keeps its size in the link area, and    *)
(* the return to main restores it.                                         *)
(***************************************************************************)
EXTENDS CallsProofs

-----------------------------------------------------------------------------
(* Counting down                                                           *)

LEMMA DownFrom ==
    ASSUME NEW N \in Nat, NEW S, N \in S,
           \A n \in 0 .. N - 1 : n + 1 \in S => n \in S
    PROVE  0 .. N \subseteq S
<1> DEFINE T == {k \in 0 .. N : N - k \in S}
<1>1. 0 \in T
  <2>1. N - 0 = N /\ 0 \in 0 .. N
    OBVIOUS
  <2> QED
    BY <2>1
<1>2. ASSUME NEW k \in 0 .. N - 1, k \in T
      PROVE  k + 1 \in T
  <2>1. PICK n \in Int : n = N - (k + 1)
    OBVIOUS
  <2>2. n \in 0 .. N - 1 /\ n + 1 = N - k /\ k + 1 \in 0 .. N
    BY <2>1
  <2>3. n + 1 \in S
    BY <1>2, <2>2
  <2>4. n \in S
    BY <2>2, <2>3
  <2> QED
    BY <2>1, <2>2, <2>4
<1> HIDE DEF T
<1>3. 0 .. N \subseteq T
  BY <1>1, <1>2, UpTo
<1>4. ASSUME NEW n \in 0 .. N
      PROVE  n \in S
  <2>1. N - n \in 0 .. N /\ N - (N - n) = n
    OBVIOUS
  <2>2. N - n \in T
    BY <1>3, <2>1
  <2> QED
    BY <2>1, <2>2 DEF T
<1> QED
  BY <1>4

-----------------------------------------------------------------------------
(* The layout of the code                                                  *)

Place == [i : Nat, wide : BOOLEAN]

(* The places where the instructions begin, in their order. *)
Places(code, m, g) ==
    g = [n \in 0 .. m |->
            IF n = 0 THEN [i |-> 0, wide |-> FALSE]
            ELSE LET at == g[n - 1]
                 IN  IF at.i >= Len(code) THEN at ELSE Behind(code, at)]

LEMMA PlacesExist ==
    ASSUME NEW code, NEW m \in Nat
    PROVE  \E g : Places(code, m, g)
<1> DEFINE Start == [i |-> 0, wide |-> FALSE]
           Following(at) == IF at.i >= Len(code) THEN at ELSE Behind(code, at)
           In(g, n) == g = [k \in 0 .. n |-> IF k = 0 THEN Start ELSE Following(g[k - 1])]
           S == {n \in Nat : \E g : In(g, n)}
<1>1. 0 \in S
  <2> DEFINE g == [k \in 0 .. 0 |-> Start]
  <2>1. In(g, 0)
    OBVIOUS
  <2> QED
    BY <2>1
<1>2. ASSUME NEW n \in Nat, n \in S
      PROVE  n + 1 \in S
  <2>1. PICK g : In(g, n)
    BY <1>2
  <2> HIDE DEF Following, Start
  <2> DEFINE h == [k \in 0 .. n + 1 |-> IF k = n + 1 THEN Following(g[n]) ELSE g[k]]
  <2>2. \A k \in 0 .. n + 1 : k # n + 1 => k \in 0 .. n
    OBVIOUS
  <2>3. \A k \in 0 .. n : g[k] = IF k = 0 THEN Start ELSE Following(g[k - 1])
    BY <2>1
  <2>4. \A k \in 0 .. n + 1 : k # 0 => k - 1 \in 0 .. n + 1 /\ k - 1 # n + 1
    OBVIOUS
  <2>5. n + 1 # 0 /\ n + 1 - 1 = n
    OBVIOUS
  <2>6. \A k \in 0 .. n + 1 : h[k] = IF k = 0 THEN Start ELSE Following(h[k - 1])
    BY <2>2, <2>3, <2>4, <2>5
  <2>7. In(h, n + 1)
    BY <2>6
  <2>8. \E f : In(f, n + 1)
    BY <2>7
  <2>9. n + 1 \in Nat
    OBVIOUS
  <2> HIDE DEF In
  <2> QED
    BY <2>8, <2>9
<1> HIDE DEF S
<1>3. 0 .. m \subseteq S
  BY <1>1, <1>2, UpTo
<1>4. m \in S
  BY <1>3
<1> QED
  BY <1>4 DEF S, Places

LEMMA LayoutIs ==
    ASSUME NEW code, Len(code) \in Nat
    PROVE  \E g : Places(code, Len(code), g) /\ Layout(code) = {g[n] : n \in 0 .. Len(code)}
<1> DEFINE nth == CHOOSE g : Places(code, Len(code), g)
<1>1. Places(code, Len(code), nth)
  BY PlacesExist
<1>2. Layout(code) = {nth[n] : n \in 0 .. Len(code)}
  BY DEF Layout, Places
<1> QED
  BY <1>1, <1>2

LEMMA LengthRange ==
    ASSUME NEW code, NEW at
    PROVE  /\ InstructionLength(code, at) \in 1 .. 4
           /\ At(code, at.i) \in VariableOps => InstructionLength(code, at) >= 2
<1> DEFINE op == At(code, at.i)
<1>1. CASE op \in VariableOps
  <2>1. op = OP_IINC \/ op \in VariableOps \ {OP_IINC}
    BY <1>1
  <2> HIDE DEF op
  <2>2. InstructionLength(code, at) =
           IF op = OP_IINC THEN (IF at.wide THEN 4 ELSE 3)
           ELSE (IF at.wide THEN 3 ELSE 2)
    BY <2>1 DEF InstructionLength, op
  <2> QED
    BY <2>2
<1>2. CASE op \notin VariableOps
  <2>1. op # OP_IINC /\ op \notin VariableOps \ {OP_IINC}
    BY <1>2 DEF VariableOps
  <2> HIDE DEF op
  <2>2. InstructionLength(code, at) = 1 + ArgBytes(op)
    BY <2>1 DEF InstructionLength, op
  <2>3. ArgBytes(op) \in 0 .. 2
    BY DEF ArgBytes
  <2> QED
    BY <1>2, <2>2, <2>3 DEF op
<1> QED
  BY <1>1, <1>2

(* What follows a place, where the code goes on there. *)
LEMMA NextPlace ==
    ASSUME NEW code, Len(code) \in Nat, NEW g, Places(code, Len(code), g),
           NEW n \in 0 .. Len(code) - 1
    PROVE  /\ g[0] = [i |-> 0, wide |-> FALSE]
           /\ g[n + 1] = IF g[n].i >= Len(code) THEN g[n] ELSE Behind(code, g[n])
<1> DEFINE Start == [i |-> 0, wide |-> FALSE]
           Following(at) == IF at.i >= Len(code) THEN at ELSE Behind(code, at)
<1>1. g = [k \in 0 .. Len(code) |-> IF k = 0 THEN Start ELSE Following(g[k - 1])]
  BY DEF Places
<1>2. n + 1 \in 0 .. Len(code) /\ n + 1 # 0 /\ n + 1 - 1 = n /\ 0 \in 0 .. Len(code)
  OBVIOUS
<1> HIDE DEF Start, Following
<1>3. g[0] = Start
  BY <1>1, <1>2
<1>4. g[n + 1] = Following(g[n])
  BY <1>1, <1>2
<1> QED
  BY <1>3, <1>4 DEF Start, Following

LEMMA BehindIsPlace ==
    ASSUME NEW code, NEW at \in Place
    PROVE  /\ Behind(code, at) \in Place
           /\ Behind(code, at).i = at.i + InstructionLength(code, at)
           /\ Behind(code, at).wide = (At(code, at.i) = OP_WIDE)
           /\ Behind(code, at).i > at.i
<1>1. InstructionLength(code, at) \in 1 .. 4 /\ at.i \in Nat
  BY LengthRange DEF Place
<1> QED
  BY <1>1 DEF Behind, Place

(* Place number n is not below byte n, unless it is behind the code. *)
LEMMA PlacesAdvance ==
    ASSUME NEW code, Len(code) \in Nat, NEW g, Places(code, Len(code), g)
    PROVE  \A n \in 0 .. Len(code) :
              g[n] \in Place /\ (g[n].i < Len(code) => n <= g[n].i)
<1> DEFINE L == Len(code)
           S == {n \in 0 .. L : g[n] \in Place /\ (g[n].i < L => n <= g[n].i)}
<1>1. 0 \in S
  <2>1. g[0] = [i |-> 0, wide |-> FALSE] /\ 0 \in 0 .. L
    BY DEF Places
  <2>2. g[0] \in Place /\ g[0].i = 0 /\ 0 <= 0
    BY <2>1 DEF Place
  <2> QED
    BY <2>1, <2>2
<1>2. ASSUME NEW n \in 0 .. L - 1, n \in S
      PROVE  n + 1 \in S
  <2>1. /\ g[n] \in Place /\ g[n].i \in Nat /\ n + 1 \in 0 .. L
        /\ g[n].i < L => n <= g[n].i
    BY <1>2 DEF Place
  <2>2. g[n + 1] = IF g[n].i >= L THEN g[n] ELSE Behind(code, g[n])
    BY NextPlace
  <2>3. CASE g[n].i >= L
    BY <2>1, <2>2, <2>3
  <2>4. CASE g[n].i < L
    <3>1. g[n + 1] = Behind(code, g[n])
      BY <2>1, <2>2, <2>4
    <3>2. g[n + 1] \in Place /\ g[n + 1].i > g[n].i
      BY <2>1, <3>1, BehindIsPlace
    <3>3. g[n + 1].i \in Nat
      BY <3>2 DEF Place
    <3>4. n + 1 <= g[n + 1].i
      BY <2>1, <2>4, <3>2, <3>3
    <3> QED
      BY <2>1, <3>2, <3>4
  <2> QED
    BY <2>1, <2>3, <2>4
<1> HIDE DEF S
<1>3. 0 .. L \subseteq S
  BY <1>1, <1>2, UpTo
<1> QED
  BY <1>3 DEF S

(* The places before an instruction lie before it, and in the code. *)
LEMMA PlacesBefore ==
    ASSUME NEW code, Len(code) \in Nat, NEW g, Places(code, Len(code), g),
           NEW N \in 0 .. Len(code), g[N].i < Len(code)
    PROVE  /\ \A n \in 0 .. N : g[n].i <= g[N].i
           /\ \A n \in 0 .. N - 1 :
                 g[n].i < g[N].i /\ g[n + 1] = Behind(code, g[n])
<1> DEFINE L == Len(code)
           S == {n \in 0 .. N : g[n].i <= g[N].i}
<1>0. \A n \in 0 .. L : g[n] \in Place /\ g[n].i \in Nat
  BY PlacesAdvance DEF Place
<1>1. ASSUME NEW n \in 0 .. N - 1, g[n + 1].i <= g[N].i
      PROVE  g[n].i < g[N].i /\ g[n + 1] = Behind(code, g[n])
  <2>1. n \in 0 .. L - 1 /\ n \in 0 .. L /\ n + 1 \in 0 .. L /\ N \in 0 .. L
    OBVIOUS
  <2>2. g[n + 1] = IF g[n].i >= L THEN g[n] ELSE Behind(code, g[n])
    BY <2>1, NextPlace
  <2>3. g[n].i \in Nat /\ g[n + 1].i \in Nat /\ g[N].i \in Nat /\ g[n] \in Place
    BY <1>0, <2>1
  <2>4. ~(g[n].i >= L)
    BY <1>1, <2>2, <2>3
  <2>5. g[n + 1] = Behind(code, g[n])
    BY <2>2, <2>4
  <2>6. g[n + 1].i > g[n].i
    BY <2>3, <2>5, BehindIsPlace
  <2> QED
    BY <1>1, <2>3, <2>5, <2>6
<1>2. N \in S
  <2>1. N \in 0 .. N /\ g[N].i \in Nat
    BY <1>0
  <2> QED
    BY <2>1
<1>3. ASSUME NEW n \in 0 .. N - 1, n + 1 \in S
      PROVE  n \in S
  <2>1. n \in 0 .. N /\ n \in 0 .. L /\ g[n].i \in Nat /\ g[N].i \in Nat
    BY <1>0
  <2>2. g[n].i < g[N].i
    BY <1>1, <1>3
  <2> QED
    BY <2>1, <2>2
<1> HIDE DEF S
<1>4. 0 .. N \subseteq S
  BY <1>2, <1>3, DownFrom
<1>5. \A n \in 0 .. N : g[n].i <= g[N].i
  BY <1>4 DEF S
<1>6. \A n \in 0 .. N - 1 : n + 1 \in 0 .. N
  OBVIOUS
<1> QED
  BY <1>1, <1>5, <1>6

-----------------------------------------------------------------------------
(* One round of the scan                                                   *)

LEMMA MemoryIsCode ==
    ASSUME NEW code \in Seq(Byte), NEW behind \in [1 .. 2 -> Byte],
           NEW i \in 0 .. Len(code) - 1
    PROVE  At(code \o behind, i) = At(code, i) /\ At(code, i) \in Byte
<1>1. behind = [k \in 1 .. 2 |-> behind[k]] /\ \A k \in 1 .. 2 : behind[k] \in Byte
  OBVIOUS
<1>2. [k \in 1 .. 2 |-> behind[k]] \in Seq(Byte)
  BY <1>1, IsASeq
<1>3. behind \in Seq(Byte)
  BY <1>1, <1>2
<1>4. Len(code) \in Nat /\ Len(behind) \in Nat
  BY <1>3, LenProperties
<1>5. i + 1 \in 1 .. Len(code) /\ i + 1 \in 1 .. Len(code) + Len(behind)
  BY <1>4
<1>6. (code \o behind)[i + 1] = code[i + 1]
  BY <1>3, <1>4, <1>5, ConcatProperties
<1>7. code[i + 1] \in Byte
  BY <1>5, ElementOfSeq
<1> QED
  BY <1>6, <1>7 DEF At

(* The switch of the loop, from s to r. *)
Switch(s, r, op, code, memory, consts) ==
    /\ op = OP_WIDE => r = [s EXCEPT !.i = s.i + 1, !.next_wide = TRUE]
    /\ op = OP_INVOKEVIRTUAL => r = ScanCall(s, code, memory, consts)
    /\ op \in VariableOps => r = ScanVariable(s, memory)
    /\ op \notin VariableOps /\ op # OP_WIDE /\ op # OP_INVOKEVIRTUAL
          => r = [s EXCEPT !.i = s.i + 1 + ArgBytes(op)]

LEMMA RoundIs ==
    ASSUME NEW s, NEW code, NEW memory, NEW consts,
           NEW op, op = At(memory, s.i),
           NEW r, r = ScanRound(s, code, memory, consts)
    PROVE  Switch(s, r, op, code, memory, consts)
<1>1. /\ OP_WIDE # OP_INVOKEVIRTUAL /\ OP_WIDE \notin VariableOps
      /\ OP_INVOKEVIRTUAL \notin VariableOps
  BY DEF OP_WIDE, OP_INVOKEVIRTUAL, VariableOps, OP_ILOAD, OP_ISTORE, OP_IINC
<1>2. op = OP_WIDE => r = [s EXCEPT !.i = s.i + 1, !.next_wide = TRUE]
  BY <1>1 DEF ScanRound
<1>3. op = OP_INVOKEVIRTUAL => r = ScanCall(s, code, memory, consts)
  BY <1>1 DEF ScanRound
<1>4. op \in VariableOps => r = ScanVariable(s, memory)
  BY <1>1 DEF ScanRound
<1>5. op \notin VariableOps /\ op # OP_WIDE /\ op # OP_INVOKEVIRTUAL
         => r = [s EXCEPT !.i = s.i + 1 + ArgBytes(op)]
  BY DEF ScanRound
<1> QED
  BY <1>2, <1>3, <1>4, <1>5 DEF Switch

(* The number that the variable at this place has. *)
IndexAt(memory, at) ==
    IF at.wide THEN ShortAt(memory, at.i + 1) ELSE At(memory, at.i + 1)

(* The variable with this number was counted. *)
VariableRead(s, r, op, index) ==
    /\ r.i = s.i + (IF s.next_wide THEN 3 ELSE 2) + (IF op = OP_IINC THEN 1 ELSE 0)
    /\ r.next_wide = FALSE /\ r.first = s.first
    /\ s.var_num <= r.var_num /\ index + 1 <= r.var_num

LEMMA VariableRound ==
    ASSUME NEW s, ScanShape(s), NEW memory,
           NEW wanted \in Int,
           wanted = IndexAt(memory, [i |-> s.i, wide |-> s.next_wide]),
           NEW op, op = At(memory, s.i), NEW r, r = ScanVariable(s, memory)
    PROVE  VariableRead(s, r, op, wanted)
<1> DEFINE index == IndexAt(memory, [i |-> s.i, wide |-> s.next_wide])
           i == s.i + (IF s.next_wide THEN 3 ELSE 2)
                    + (IF At(memory, s.i) = OP_IINC THEN 1 ELSE 0)
           num == IF index + 1 > s.var_num THEN index + 1 ELSE s.var_num
<1>1. r = [s EXCEPT !.i = i, !.next_wide = FALSE, !.var_num = num]
  BY DEF ScanVariable, IndexAt
<1>2. index \in Int /\ s.var_num \in Nat
  BY DEF ScanShape
<1> HIDE DEF index
<1>3. s.var_num <= num /\ index + 1 <= num
  BY <1>2
<1> HIDE DEF i, num
<1>4. /\ r.i = i /\ r.next_wide = FALSE /\ r.first = s.first
      /\ r.var_num = num
  BY <1>1 DEF ScanShape
<1> QED
  BY <1>3, <1>4 DEF i, index, VariableRead

LEMMA CallRound ==
    ASSUME NEW s, ScanShape(s), NEW code, NEW memory, NEW consts,
           NEW c, c = ShortAt(memory, s.i + 1),
           NEW r, r = ScanCall(s, code, memory, consts), r.ok
    PROVE  /\ r.i = s.i + 3 /\ r.next_wide = s.next_wide
           /\ \/ r.first = s.first
              \/ c \in 0 .. Len(consts) - 1 /\ r.first = consts[c + 1] /\ consts[c + 1] > 0
<1> DEFINE address == consts[c + 1]
           first == IF address > 0 /\ address < s.first /\ address < Len(code)
                    THEN address ELSE s.first
           i == s.i + 3
<1>1. CASE c \in 0 .. Len(consts) - 1
  <2>1. r = [s EXCEPT !.i = i, !.first = first]
    BY <1>1 DEF ScanCall
  <2>2. first = s.first \/ (first = address /\ address > 0)
    OBVIOUS
  <2> HIDE DEF i, first
  <2>3. r.i = i /\ r.next_wide = s.next_wide /\ r.first = first
    BY <2>1 DEF ScanShape
  <2> QED
    BY <1>1, <2>2, <2>3 DEF i
<1>2. CASE ~(c \in 0 .. Len(consts) - 1)
  <2>1. r = [s EXCEPT !.ok = FALSE]
    BY <1>2 DEF ScanCall
  <2>2. r.ok = FALSE
    BY <2>1 DEF ScanShape
  <2> QED
    BY <2>2
<1> QED
  BY <1>1, <1>2

(* The number of variables does not fall. *)
LEMMA RoundGrows ==
    ASSUME NEW code, Len(code) \in Nat, NEW consts \in Seq(Word),
           NEW memory \in Seq(Byte), Len(memory) = Len(code) + 2,
           NEW s, IsScan(s), s.i < Len(code)
    PROVE  s.var_num <= ScanRound(s, code, memory, consts).var_num
<1>a. PICK op : op = At(memory, s.i)
  OBVIOUS
<1>b. PICK r : r = ScanRound(s, code, memory, consts)
  OBVIOUS
<1>c. Switch(s, r, op, code, memory, consts)
  BY <1>a, <1>b, RoundIs
<1> DEFINE at == [i |-> s.i, wide |-> s.next_wide]
<1>0. ScanShape(s) /\ s.i \in Nat /\ s.var_num \in Nat
  BY DEF IsScan, ScanShape
<1> SUFFICES s.var_num <= r.var_num
  BY <1>b
<1>1. CASE op = OP_WIDE
  <2>1. r = [s EXCEPT !.i = s.i + 1, !.next_wide = TRUE]
    BY <1>1, <1>c DEF Switch
  <2>2. r.var_num = s.var_num
    BY <1>0, <2>1 DEF ScanShape
  <2> QED
    BY <1>0, <2>2
<1>2. CASE op = OP_INVOKEVIRTUAL
  <2>1. r = ScanCall(s, code, memory, consts)
    BY <1>2, <1>c DEF Switch
  <2>2. r.var_num = s.var_num
    BY <1>0, <2>1, ScanCallIsScan
  <2> QED
    BY <1>0, <2>2
<1>3. CASE op \in VariableOps
  <2>1. r = ScanVariable(s, memory)
    BY <1>3, <1>c DEF Switch
  <2>2. IndexAt(memory, at) \in Int
    <3>1. /\ s.i + 1 + 1 \in 1 .. Len(memory) /\ s.i + 1 + 1 + 1 \in 1 .. Len(memory)
      BY <1>0
    <3>2. At(memory, s.i + 1) \in Byte /\ At(memory, s.i + 1 + 1) \in Byte
      BY <3>1, ElementOfSeq DEF At
    <3>3. ShortAt(memory, s.i + 1) \in Int
      BY <3>2, ShortRange DEF ShortAt
    <3>4. At(memory, s.i + 1) \in Int
      <4>1. \A byte \in Byte : byte \in Int
        BY DEF Byte
      <4> QED
        BY <3>2, <4>1
    <3> QED
      BY <3>3, <3>4 DEF IndexAt
  <2>3. PICK index \in Int : index = IndexAt(memory, at)
    BY <2>2
  <2> QED
    BY <1>0, <1>a, <2>1, <2>3, VariableRound DEF VariableRead
<1>4. CASE op \notin VariableOps /\ op # OP_WIDE /\ op # OP_INVOKEVIRTUAL
  <2>1. r = [s EXCEPT !.i = s.i + 1 + ArgBytes(op)]
    BY <1>4, <1>c DEF Switch
  <2>2. r.var_num = s.var_num
    BY <1>0, <2>1 DEF ScanShape
  <2> QED
    BY <1>0, <2>2
<1> QED
  BY <1>b, <1>1, <1>2, <1>3, <1>4

LEMMA IndexInCode ==
    ASSUME NEW code \in Seq(Byte), NEW behind \in [1 .. 2 -> Byte], NEW at \in Place,
           at.i + (IF at.wide THEN 2 ELSE 1) < Len(code)
    PROVE  /\ IndexAt(code \o behind, at) = IndexAt(code, at)
           /\ IndexAt(code, at) \in Int
<1> DEFINE memory == code \o behind
           i == at.i + 1
<1>1. /\ at.wide \in BOOLEAN /\ at.i \in Nat /\ Len(code) \in Nat
      /\ i \in 0 .. Len(code) - 1 /\ at.wide => i + 1 \in 0 .. Len(code) - 1
  BY LenProperties DEF Place
<1>2. At(memory, i) = At(code, i) /\ At(code, i) \in Byte
  BY <1>1, MemoryIsCode
<1>3. at.wide => At(memory, i + 1) = At(code, i + 1) /\ At(code, i + 1) \in Byte
  BY <1>1, MemoryIsCode
<1>4. At(code, i) \in Int
  <2>1. \A byte \in Byte : byte \in Int
    BY DEF Byte
  <2> QED
    BY <1>2, <2>1
<1>5. at.wide => ShortAt(memory, i) = ShortAt(code, i) /\ ShortAt(code, i) \in Int
  BY <1>2, <1>3, ShortRange DEF ShortAt
<1>6. CASE at.wide
  BY <1>5, <1>6 DEF IndexAt
<1>7. CASE ~at.wide
  BY <1>2, <1>4, <1>7 DEF IndexAt
<1> QED
  BY <1>6, <1>7

(* The target of a call that lies in the code is one of its addresses. *)
LEMMA CallAddress ==
    ASSUME NEW code \in Seq(Byte), NEW behind \in [1 .. 2 -> Byte], NEW consts,
           NEW i \in Nat, i + 3 <= Len(code), At(code, i) = OP_INVOKEVIRTUAL,
           ShortAt(code \o behind, i + 1) \in 0 .. Len(consts) - 1
    PROVE  consts[ShortAt(code \o behind, i + 1) + 1] \in MethodAddresses(code, consts)
<1>1. /\ Len(code) \in Nat /\ i \in 0 .. Len(code) - 3
      /\ i + 1 \in 0 .. Len(code) - 1 /\ i + 1 + 1 \in 0 .. Len(code) - 1
  BY LenProperties
<1>2. ShortAt(code \o behind, i + 1) = ShortAt(code, i + 1)
  <2>1. /\ At(code \o behind, i + 1) = At(code, i + 1)
        /\ At(code \o behind, i + 1 + 1) = At(code, i + 1 + 1)
    BY <1>1, MemoryIsCode
  <2> QED
    BY <2>1 DEF ShortAt
<1> QED
  BY <1>1, <1>2 DEF MethodAddresses

(* A round goes from the beginning of an instruction of main to that of    *)
(* the next one, and finds no method before bound if none begins there.    *)
LEMMA RoundFollows ==
    ASSUME NEW code \in Seq(Byte), NEW behind \in [1 .. 2 -> Byte],
           NEW consts \in Seq(Word), NEW s, IsScan(s), NEW at \in Place,
           s.i = at.i, s.next_wide = at.wide,
           at.wide => At(code, at.i) \in VariableOps,
           Behind(code, at).i < Len(code),
           NEW bound \in Nat, bound <= s.first,
           \A a \in MethodAddresses(code, consts) : a > 0 => bound <= a,
           ScanRound(s, code, code \o behind, consts).ok
    PROVE  LET r == ScanRound(s, code, code \o behind, consts)
           IN  /\ r.i = Behind(code, at).i /\ r.next_wide = Behind(code, at).wide
               /\ bound <= r.first
<1>a. PICK op : op = At(code \o behind, s.i)
  OBVIOUS
<1>b. PICK r : r = ScanRound(s, code, code \o behind, consts)
  OBVIOUS
<1>c. Switch(s, r, op, code, code \o behind, consts)
  BY <1>a, <1>b, RoundIs
<1>d. PICK length \in 1 .. 4 : length = InstructionLength(code, at)
  BY LengthRange
<1>1. /\ ScanShape(s) /\ s.i \in Nat /\ s.next_wide \in BOOLEAN /\ s.first \in Int
      /\ Len(code) \in Nat /\ at.i \in Nat
  BY LenProperties DEF IsScan, ScanShape
<1>2. s.i + length < Len(code) /\ Behind(code, at).i = s.i + length
  BY <1>d, BehindIsPlace
<1>3. op = At(code, at.i) /\ Behind(code, at).wide = (op = OP_WIDE)
  <2>1. at.i \in 0 .. Len(code) - 1
    BY <1>1, <1>2
  <2> QED
    BY <1>a, <2>1, MemoryIsCode, BehindIsPlace
<1>4. /\ op = OP_IINC => length = IF at.wide THEN 4 ELSE 3
      /\ op \in VariableOps /\ op # OP_IINC => length = IF at.wide THEN 3 ELSE 2
      /\ op \notin VariableOps => length = 1 + ArgBytes(op)
  <2>1. op \notin VariableOps => op # OP_IINC
    BY DEF VariableOps
  <2> QED
    BY <1>d, <1>3, <2>1 DEF InstructionLength
<1> SUFFICES /\ r.i = s.i + length /\ r.next_wide = (op = OP_WIDE)
             /\ bound <= r.first
  BY <1>b, <1>2, <1>3
<1>5. /\ OP_WIDE \notin VariableOps /\ OP_INVOKEVIRTUAL \notin VariableOps
      /\ OP_WIDE # OP_INVOKEVIRTUAL /\ OP_IINC \in VariableOps
      /\ ArgBytes(OP_WIDE) = 0 /\ ArgBytes(OP_INVOKEVIRTUAL) = 2
  BY DEF OP_WIDE, OP_INVOKEVIRTUAL, VariableOps, OP_ILOAD, OP_ISTORE, OP_IINC,
         ArgBytes, OP_BIPUSH, OP_GOTO, OP_IFEQ, OP_IFLT, OP_ICMPEQ, OP_LDC_W
<1>6. CASE op = OP_WIDE
  <2>1. r = [s EXCEPT !.i = s.i + 1, !.next_wide = TRUE]
    BY <1>6, <1>c DEF Switch
  <2>2. r.i = s.i + 1 /\ r.next_wide = TRUE /\ r.first = s.first
    BY <1>1, <2>1 DEF ScanShape
  <2>3. length = 1
    BY <1>4, <1>5, <1>6
  <2> QED
    BY <1>6, <2>2, <2>3
<1>7. CASE op = OP_INVOKEVIRTUAL
  <2>1. r = ScanCall(s, code, code \o behind, consts)
    BY <1>7, <1>c DEF Switch
  <2>2. length = 3
    BY <1>4, <1>5, <1>7
  <2>c. PICK c : c = ShortAt(code \o behind, s.i + 1)
    OBVIOUS
  <2>3. /\ r.i = s.i + 3 /\ r.next_wide = s.next_wide
        /\ \/ r.first = s.first
           \/ c \in 0 .. Len(consts) - 1 /\ r.first = consts[c + 1] /\ consts[c + 1] > 0
    <3>1. r.ok
      BY <1>b
    <3> QED
      BY <1>1, <2>c, <2>1, <3>1, CallRound
  <2>4. ~at.wide
    BY <1>3, <1>5, <1>7
  <2>5. c \in 0 .. Len(consts) - 1 => consts[c + 1] \in MethodAddresses(code, consts)
    <3>1. s.i + 3 <= Len(code) /\ At(code, s.i) = OP_INVOKEVIRTUAL
      BY <1>1, <1>2, <1>3, <1>7, <2>2
    <3> QED
      BY <1>1, <2>c, <3>1, CallAddress
  <2>6. bound <= r.first
    BY <2>3, <2>5
  <2> QED
    BY <1>1, <1>5, <1>7, <2>2, <2>3, <2>4, <2>6
<1>8. CASE op \in VariableOps
  <2>1. r = ScanVariable(s, code \o behind)
    BY <1>8, <1>c DEF Switch
  <2>2. PICK index \in Int :
           index = IndexAt(code \o behind, [i |-> s.i, wide |-> s.next_wide])
    <3>1. [i |-> s.i, wide |-> s.next_wide] \in Place
      BY <1>1 DEF Place
    <3>2. s.i + (IF s.next_wide THEN 2 ELSE 1) < Len(code)
      <4>1. length >= IF s.next_wide THEN 3 ELSE 2
        BY <1>4, <1>8
      <4> QED
        BY <1>1, <1>2, <4>1
    <3>3. PICK here : here = [i |-> s.i, wide |-> s.next_wide]
      OBVIOUS
    <3>4. here \in Place /\ here.i = s.i /\ here.wide = s.next_wide
      BY <3>1, <3>3
    <3>5. IndexAt(code \o behind, here) \in Int
      BY <3>2, <3>4, IndexInCode
    <3> QED
      BY <3>3, <3>5
  <2>3. /\ r.i = s.i + (IF s.next_wide THEN 3 ELSE 2) + (IF op = OP_IINC THEN 1 ELSE 0)
        /\ r.next_wide = FALSE /\ r.first = s.first
    <3>1. VariableRead(s, r, op, index)
      BY <1>a, <1>1, <2>1, <2>2, VariableRound
    <3> QED
      BY <3>1 DEF VariableRead
  <2>4. r.i = s.i + length
    BY <1>1, <1>4, <1>8, <2>3
  <2> QED
    BY <1>5, <1>8, <2>3, <2>4
<1>9. CASE op \notin VariableOps /\ op # OP_WIDE /\ op # OP_INVOKEVIRTUAL
  <2>1. r = [s EXCEPT !.i = s.i + 1 + ArgBytes(op)]
    BY <1>9, <1>c DEF Switch
  <2>2. r.i = s.i + 1 + ArgBytes(op) /\ r.next_wide = s.next_wide /\ r.first = s.first
    BY <1>1, <2>1 DEF ScanShape
  <2>3. ~at.wide
    BY <1>3, <1>9
  <2>4. ArgBytes(op) \in 0 .. 2
    BY DEF ArgBytes
  <2>5. r.i = s.i + length
    BY <1>1, <1>4, <1>9, <2>2, <2>4
  <2> QED
    BY <1>1, <1>9, <2>2, <2>3, <2>5
<1> QED
  BY <1>6, <1>7, <1>8, <1>9

-----------------------------------------------------------------------------
(* The whole scan                                                          *)

(* One round after the other. *)
LEMMA NextRound ==
    ASSUME NEW code, Len(code) \in Nat, NEW memory, NEW consts,
           NEW f, ScanRounds(code, memory, consts, Len(code), f),
           NEW n \in 0 .. Len(code) - 1
    PROVE  /\ f[0] = ScanStart
           /\ f[n + 1] = IF ScanOver(f[n], code) THEN f[n]
                         ELSE ScanRound(f[n], code, memory, consts)
<1> DEFINE Following(s) == IF ScanOver(s, code) THEN s
                           ELSE ScanRound(s, code, memory, consts)
<1>1. f = [k \in 0 .. Len(code) |-> IF k = 0 THEN ScanStart ELSE Following(f[k - 1])]
  BY DEF ScanRounds
<1>2. n + 1 \in 0 .. Len(code) /\ n + 1 # 0 /\ n + 1 - 1 = n /\ 0 \in 0 .. Len(code)
  OBVIOUS
<1> HIDE DEF Following
<1>3. f[0] = ScanStart
  BY <1>1, <1>2
<1>4. f[n + 1] = Following(f[n])
  BY <1>1, <1>2
<1> QED
  BY <1>3, <1>4 DEF Following

(* A scan that is not given up at its end never was, and what it counted   *)
(* by then is not forgotten.                                               *)
LEMMA CountsStay ==
    ASSUME NEW code, Len(code) \in Nat, NEW consts \in Seq(Word),
           NEW memory \in Seq(Byte), Len(memory) = Len(code) + 2,
           NEW f, ScanRounds(code, memory, consts, Len(code), f), f[Len(code)].ok
    PROVE  \A n \in 0 .. Len(code) :
              f[n].ok /\ f[n].var_num <= f[Len(code)].var_num
<1> DEFINE L == Len(code)
           S == {n \in 0 .. L : f[n].ok /\ f[n].var_num <= f[L].var_num}
<1>0. \A n \in 0 .. L : IsScan(f[n]) /\ f[n].var_num \in Nat /\ f[n].i \in Nat
  BY RoundsAreScans DEF IsScan, ScanShape
<1>1. L \in S
  <2>1. L \in 0 .. L
    OBVIOUS
  <2>2. f[L].var_num \in Nat
    BY <1>0, <2>1
  <2> QED
    BY <2>1, <2>2
<1>2. ASSUME NEW n \in 0 .. L - 1, n + 1 \in S
      PROVE  n \in S
  <2>1. n \in 0 .. L /\ n + 1 \in 0 .. L /\ L \in 0 .. L
    OBVIOUS
  <2>2. /\ IsScan(f[n]) /\ f[n].var_num \in Nat /\ f[n].i \in Nat
        /\ f[n + 1].var_num \in Nat /\ f[L].var_num \in Nat
    BY <1>0, <2>1
  <2>3. f[n + 1].ok /\ f[n + 1].var_num <= f[L].var_num
    BY <1>2
  <2>4. f[n + 1] = IF ScanOver(f[n], code) THEN f[n]
                   ELSE ScanRound(f[n], code, memory, consts)
    BY NextRound
  <2>5. CASE ScanOver(f[n], code)
    BY <2>1, <2>3, <2>4, <2>5
  <2>6. CASE ~ScanOver(f[n], code)
    <3>1. f[n].ok /\ f[n].i < L
      BY <2>2, <2>6 DEF ScanOver
    <3>2. f[n].var_num <= f[n + 1].var_num
      BY <2>2, <2>4, <2>6, <3>1, RoundGrows
    <3>3. f[n].var_num <= f[L].var_num
      BY <2>2, <2>3, <3>2
    <3> QED
      BY <2>1, <3>1, <3>3
  <2> QED
    BY <2>5, <2>6
<1> HIDE DEF S
<1>3. 0 .. L \subseteq S
  BY <1>1, <1>2, DownFrom
<1> QED
  BY <1>3 DEF S

(* In straight code the instruction behind a WIDE takes a variable. *)
LEMMA WideBeforeVariable ==
    ASSUME NEW code, Len(code) \in Nat, NEW g, Places(code, Len(code), g),
           NEW N \in 0 .. Len(code), g[N].i < Len(code),
           \A n \in 0 .. N - 1 :
              At(code, g[n].i) = OP_WIDE => At(code, g[n].i + 1) \in VariableOps,
           NEW n \in 0 .. N, g[n].wide
    PROVE  At(code, g[n].i) \in VariableOps
<1>1. n # 0
  <2>1. g[0] = [i |-> 0, wide |-> FALSE]
    BY DEF Places
  <2>2. g[0].wide = FALSE
    BY <2>1
  <2> QED
    BY <2>2
<1>2. PICK k \in 0 .. N - 1 : n = k + 1
  <2>1. n - 1 \in 0 .. N - 1 /\ n = n - 1 + 1
    BY <1>1
  <2> QED
    BY <2>1
<1>3. g[n] = Behind(code, g[k]) /\ g[k] \in Place
  <2>1. k \in 0 .. Len(code)
    OBVIOUS
  <2> QED
    BY <1>2, <2>1, PlacesBefore, PlacesAdvance
<1>4. At(code, g[k].i) = OP_WIDE
  BY <1>3, BehindIsPlace
<1>5. InstructionLength(code, g[k]) = 1
  <2>1. /\ OP_WIDE # OP_IINC /\ OP_WIDE \notin VariableOps \ {OP_IINC}
        /\ ArgBytes(OP_WIDE) = 0
    BY DEF OP_WIDE, OP_INVOKEVIRTUAL, VariableOps, OP_ILOAD, OP_ISTORE, OP_IINC,
           ArgBytes, OP_BIPUSH, OP_GOTO, OP_IFEQ, OP_IFLT, OP_ICMPEQ, OP_LDC_W
  <2> QED
    BY <1>4, <2>1 DEF InstructionLength
<1>6. g[n].i = g[k].i + 1
  BY <1>3, <1>5, BehindIsPlace
<1> QED
  BY <1>4, <1>6

(* Round n of the scan stands at instruction n. *)
LEMMA Lockstep ==
    ASSUME NEW code \in Seq(Byte), NEW behind \in [1 .. 2 -> Byte],
           NEW consts \in Seq(Word),
           NEW f, ScanRounds(code, code \o behind, consts, Len(code), f), f[Len(code)].ok,
           NEW g, Places(code, Len(code), g),
           NEW N \in 0 .. Len(code), g[N].i < Len(code),
           \A n \in 0 .. N - 1 :
              At(code, g[n].i) = OP_WIDE => At(code, g[n].i + 1) \in VariableOps,
           NEW bound \in Nat, bound <= NoMethod, g[N].i + 2 <= bound,
           \A a \in MethodAddresses(code, consts) : a > 0 => bound <= a
    PROVE  \A n \in 0 .. N :
              f[n].i = g[n].i /\ f[n].next_wide = g[n].wide /\ bound <= f[n].first
<1> DEFINE L == Len(code)
           memory == code \o behind
           S == {n \in 0 .. N :
                    f[n].i = g[n].i /\ f[n].next_wide = g[n].wide /\ bound <= f[n].first}
<1>0. /\ memory \in Seq(Byte) /\ Len(memory) = L + 2 /\ L \in Nat /\ N \in Nat
      /\ \A n \in 0 .. L : IsScan(f[n]) /\ f[n].ok /\ f[n].i \in Nat /\ f[n].first \in Int
      /\ \A n \in 0 .. L : g[n] \in Place /\ g[n].i \in Nat
  <2>1. memory \in Seq(Byte) /\ Len(memory) = L + 2 /\ L \in Nat
    BY MemoryIsBytes
  <2> HIDE DEF memory
  <2>2. ScanRounds(code, memory, consts, Len(code), f)
    BY DEF memory
  <2>3. \A n \in 0 .. L : IsScan(f[n]) /\ f[n].ok
    BY <2>1, <2>2, RoundsAreScans, CountsStay
  <2>4. \A n \in 0 .. L : g[n] \in Place
    BY <2>1, PlacesAdvance
  <2> QED
    BY <2>1, <2>3, <2>4 DEF IsScan, ScanShape, Place
<1>1. 0 \in S
  <2>1. f[0] = ScanStart
    BY <1>0 DEF ScanRounds
  <2>2. g[0] = [i |-> 0, wide |-> FALSE]
    BY <1>0 DEF Places
  <2>3. /\ ScanStart.i = 0 /\ ScanStart.next_wide = FALSE /\ ScanStart.first = NoMethod
        /\ [i |-> 0, wide |-> FALSE].i = 0 /\ [i |-> 0, wide |-> FALSE].wide = FALSE
    BY DEF ScanStart
  <2>4. 0 \in 0 .. N
    BY <1>0
  <2> QED
    BY <2>1, <2>2, <2>3, <2>4
<1>2. ASSUME NEW n \in 0 .. N - 1, n \in S
      PROVE  n + 1 \in S
  <2>1. n \in 0 .. N /\ n + 1 \in 0 .. N /\ n \in 0 .. L - 1 /\ n \in 0 .. L
        /\ n + 1 \in 0 .. L
    BY <1>0
  <2>2. f[n].i = g[n].i /\ f[n].next_wide = g[n].wide /\ bound <= f[n].first
    BY <1>2
  <2>3. /\ g[n].i < g[N].i /\ g[n + 1] = Behind(code, g[n]) /\ g[n + 1].i <= g[N].i
    BY <1>0, <2>1, PlacesBefore
  <2>4. g[n].i \in Nat /\ g[n + 1].i \in Nat /\ g[N].i \in Nat /\ f[n].first \in Int
    BY <1>0, <2>1
  <2>5. ~ScanOver(f[n], code)
    <3>1. f[n].ok
      BY <1>0, <2>1
    <3>2. \A p, q, h, l \in Int :
             p < q /\ q < l /\ q + 2 <= bound /\ bound <= h
                => ~(p >= l) /\ ~(p + 2 > h)
      OBVIOUS
    <3>3. ~(f[n].i >= L) /\ ~(f[n].i + 2 > f[n].first)
      <4>1. g[n].i \in Int /\ g[N].i \in Int /\ f[n].first \in Int /\ L \in Int
        BY <1>0, <2>4
      <4> QED
        BY <2>2, <2>3, <3>2, <4>1
    <3> QED
      BY <3>1, <3>3 DEF ScanOver
  <2>6. f[n + 1] = ScanRound(f[n], code, memory, consts)
    BY <1>0, <2>1, <2>5, NextRound
  <2>7. PICK s : s = f[n]
    OBVIOUS
  <2>8. PICK at : at = g[n]
    OBVIOUS
  <2>9. /\ IsScan(s) /\ at \in Place /\ s.i = at.i /\ s.next_wide = at.wide
        /\ bound <= s.first /\ ScanRound(s, code, memory, consts).ok
    BY <1>0, <2>1, <2>2, <2>6, <2>7, <2>8
  <2>10. at.wide => At(code, at.i) \in VariableOps
    BY <1>0, <2>1, <2>8, WideBeforeVariable
  <2>11. Behind(code, at).i < Len(code)
    BY <1>0, <2>3, <2>4, <2>8
  <2>12. LET r == ScanRound(s, code, memory, consts)
         IN  /\ r.i = Behind(code, at).i /\ r.next_wide = Behind(code, at).wide
             /\ bound <= r.first
    BY <2>9, <2>10, <2>11, RoundFollows
  <2> QED
    BY <2>1, <2>3, <2>6, <2>7, <2>8, <2>12
<1> HIDE DEF S
<1>3. 0 .. N \subseteq S
  BY <1>0, <1>1, <1>2, UpTo
<1> QED
  BY <1>3 DEF S

(* The scan has counted the variable that an instruction of main takes. *)
LEMMA ScanCounts ==
    ASSUME NEW code \in Seq(Byte), Len(code) <= WordMax, NEW consts \in Seq(Word),
           NEW behind \in [1 .. 2 -> Byte], NEW at, InPlainMain(code, consts, at),
           At(code, at.i) \in VariableOps,
           at.i + (IF at.wide THEN 2 ELSE 1) < Len(code),
           NEW scan, scan = get_num_local_vars_main(code, consts, behind), scan.ok
    PROVE  IndexAt(code, at) \in Int /\ IndexAt(code, at) + 1 <= scan.var_num
<1> DEFINE L == Len(code)
           memory == code \o behind
           after == CHOOSE f : ScanRounds(code, memory, consts, L, f)
<1>1. memory \in Seq(Byte) /\ Len(memory) = L + 2 /\ L \in Nat
  BY MemoryIsBytes
<1>2. PICK f : ScanRounds(code, memory, consts, L, f) /\ scan = f[L]
  <2>1. ScanRounds(code, memory, consts, L, after)
    BY <1>1, ScanRoundsExist
  <2>2. scan = after[L]
    BY DEF get_num_local_vars_main, ScanRounds
  <2> QED
    BY <2>1, <2>2
<1>3. PICK g : Places(code, L, g) /\ Layout(code) = {g[n] : n \in 0 .. L}
  BY <1>1, LayoutIs
<1>4. PICK N \in 0 .. L : g[N] = at
  BY <1>3 DEF InPlainMain
<1> HIDE DEF after
<1>5. /\ at \in Place /\ at.i \in Nat /\ at.i < L /\ N \in 0 .. L - 1 /\ N + 1 \in 0 .. L
  <2>1. at \in Place /\ (at.i < L => N <= at.i)
    BY <1>1, <1>3, <1>4, PlacesAdvance
  <2>2. at.i \in Nat /\ at.i < L
    BY <1>1, <2>1 DEF Place
  <2> QED
    BY <1>1, <2>1, <2>2
<1>6. PICK bound \in Nat : bound = at.i + InstructionLength(code, at)
  BY <1>5, LengthRange
<1>7. at.i + 2 <= bound /\ bound <= NoMethod
  <2>1. PICK length \in 1 .. 4 : length = InstructionLength(code, at)
    BY LengthRange
  <2>2. length >= 2
    BY <2>1, LengthRange
  <2>3. WordMax \in Nat /\ WordMax >= 255
    BY WordMaxAssumption
  <2>4. \A i, l \in Int : i < l /\ l <= WordMax => i + length <= 2 * WordMax + 1
    BY <2>1, <2>3
  <2>5. at.i \in Int /\ L \in Int /\ L <= WordMax
    BY <1>1, <1>5
  <2>6. bound <= NoMethod
    BY <1>5, <1>6, <2>1, <2>4, <2>5 DEF NoMethod
  <2> QED
    BY <1>5, <1>6, <2>1, <2>2, <2>6
<1>8. \A n \in 0 .. N - 1 :
         At(code, g[n].i) = OP_WIDE => At(code, g[n].i + 1) \in VariableOps
  <2>1. ASSUME NEW n \in 0 .. N - 1
        PROVE  g[n] \in Layout(code) /\ g[n].i < at.i
    <3>1. n \in 0 .. L
      BY <1>1
    <3> QED
      BY <1>1, <1>3, <1>4, <1>5, <3>1, PlacesBefore
  <2> QED
    BY <2>1 DEF InPlainMain
<1>9. \A a \in MethodAddresses(code, consts) : a > 0 => bound <= a
  BY <1>6 DEF InPlainMain
<1>10. f[N].i = at.i /\ f[N].next_wide = at.wide /\ bound <= f[N].first
  <2>1. N \in 0 .. N
    BY <1>5
  <2>2. /\ ScanRounds(code, code \o behind, consts, Len(code), f) /\ f[Len(code)].ok
        /\ Places(code, Len(code), g) /\ N \in 0 .. Len(code)
        /\ g[N].i < Len(code) /\ g[N].i + 2 <= bound
    BY <1>2, <1>3, <1>4, <1>5, <1>7
  <2> HIDE DEF L, memory
  <2>3. \A n \in 0 .. N :
           f[n].i = g[n].i /\ f[n].next_wide = g[n].wide /\ bound <= f[n].first
    BY <1>7, <1>8, <1>9, <2>2, Lockstep
  <2> QED
    BY <1>4, <2>1, <2>3
<1>11. /\ IsScan(f[N]) /\ IsScan(f[N + 1]) /\ f[N].ok
       /\ f[N + 1].var_num <= scan.var_num
  <2> HIDE DEF memory
  <2>1. N \in 0 .. L /\ N + 1 \in 0 .. L
    BY <1>5
  <2> QED
    BY <1>1, <1>2, <2>1, RoundsAreScans, CountsStay
<1>12. ~ScanOver(f[N], code)
  <2>1. f[N].first \in Int
    BY <1>11 DEF IsScan, ScanShape
  <2> QED
    BY <1>1, <1>5, <1>7, <1>10, <1>11, <2>1 DEF ScanOver
<1>13. f[N + 1] = ScanRound(f[N], code, memory, consts)
  <2> HIDE DEF memory
  <2> QED
    BY <1>1, <1>2, <1>5, <1>12, NextRound
<1>14. PICK s : s = f[N]
  OBVIOUS
<1>15. PICK r : r = ScanRound(s, code, memory, consts)
  OBVIOUS
<1>16. PICK op : op = At(memory, s.i)
  OBVIOUS
<1>17. op \in VariableOps
  <2>1. s.i = at.i /\ at.i \in 0 .. L - 1
    BY <1>1, <1>5, <1>10, <1>14
  <2> QED
    BY <1>16, <2>1, MemoryIsCode
<1>18. r = ScanVariable(s, memory)
  <2>1. Switch(s, r, op, code, memory, consts)
    BY <1>15, <1>16, RoundIs
  <2> QED
    BY <1>17, <2>1 DEF Switch
<1>19. PICK index : index = IndexAt(memory, at)
  OBVIOUS
<1>20. index \in Int /\ index = IndexAt(code, at)
  BY <1>5, <1>19, IndexInCode
<1>21. index = IndexAt(memory, [i |-> s.i, wide |-> s.next_wide])
  <2>1. s.i = at.i /\ s.next_wide = at.wide
    BY <1>10, <1>14
  <2> HIDE DEF memory
  <2> QED
    BY <1>19, <2>1 DEF IndexAt
<1>22. VariableRead(s, r, op, index)
  <2> HIDE DEF memory
  <2> QED
    BY <1>11, <1>14, <1>16, <1>18, <1>20, <1>21, VariableRound DEF IsScan
<1>23. index + 1 <= f[N + 1].var_num
  BY <1>13, <1>14, <1>15, <1>22 DEF VariableRead
<1>24. PICK k \in Nat : k = scan.var_num
  <2>1. L \in 0 .. L
    BY <1>1
  <2> HIDE DEF memory
  <2>2. IsScan(f[L])
    BY <1>1, <1>2, <2>1, RoundsAreScans
  <2> QED
    BY <1>2, <2>2 DEF IsScan, ScanShape
<1>25. f[N + 1].var_num \in Nat
  BY <1>11 DEF IsScan, ScanShape
<1>26. index + 1 <= scan.var_num
  BY <1>11, <1>20, <1>23, <1>24, <1>25
<1> QED
  BY <1>20, <1>26

-----------------------------------------------------------------------------
(* The frame of main                                                       *)

(* Main has as many variables as the scan has counted. *)
MainCounted ==
    /\ program \in Programs
    /\ status = "running" =>
          \E behind \in [1 .. 2 -> JunkBytes] :
             LET scan == get_num_local_vars_main(program.code, program.consts, behind)
             IN  scan.ok /\ Registers(1).nv = scan.var_num

LEMMA InitMainCounted == CInit => MainCounted
<1> SUFFICES ASSUME CInit PROVE MainCounted
  OBVIOUS
<1>1. IInv /\ frames = <<>> /\ frames \in Seq(Frame) /\ program \in Programs
  BY InitIInv, EmptySeq DEF CInit, Init
<1>2. Registers(1) = cpu
  BY <1>1, FrameFacts
<1>3. PICK r \in init_ijvm(program) : cpu = r.cpu /\ status = r.status
  BY DEF CInit, Init
<1>4. PICK behind \in [1 .. 2 -> JunkBytes] :
         r \in Resets(get_num_local_vars_main(program.code, program.consts, behind))
  BY DEF init_ijvm
<1>5. PICK scan : scan = get_num_local_vars_main(program.code, program.consts, behind)
  OBVIOUS
<1>6. r.cpu.nv = scan.var_num /\ (r.status = "running" => scan.ok)
  <2>1. r \in Resets(scan)
    BY <1>4, <1>5
  <2>2. \E size : \E junk \in Junk :
           r = [cpu    |-> InitialCpu(scan.var_num, size, junk),
                status |-> IF scan.ok THEN "running" ELSE "destroyed"]
    BY <2>1 DEF Resets
  <2>3. PICK size, junk :
           r = [cpu    |-> InitialCpu(scan.var_num, size, junk),
                status |-> IF scan.ok THEN "running" ELSE "destroyed"]
    BY <2>2
  <2>4. /\ r.cpu = InitialCpu(scan.var_num, size, junk)
        /\ r.status = IF scan.ok THEN "running" ELSE "destroyed"
    BY <2>3
  <2> QED
    BY <2>4 DEF InitialCpu
<1> QED
  BY <1>1, <1>2, <1>3, <1>5, <1>6 DEF MainCounted

(* The frame of main keeps its size, whatever runs. *)
LEMMA MainKept ==
    ASSUME CInv, [CNext]_cvars
    PROVE  /\ program' = program
           /\ status' = "running" =>
                 status = "running" /\ Registers(1)'.nv = Registers(1).nv
<1>1. IInv /\ IInv' /\ frames \in Seq(Frame)
  BY NextCInv DEF CInv
<1>a. \A op : Fetch(op) => program' = program /\ status = "running"
  BY DEF Fetch
<1>2. CASE UNCHANGED cvars
  BY <1>2 DEF cvars, vars, Registers, Depth
<1>3. CASE Proceed /\ status # "running"
  <2>1. ~Step /\ ~exec_op_invokevirtual /\ ~exec_op_ireturn
    BY <1>3, <1>a, StepFetches DEF exec_op_invokevirtual, exec_op_ireturn
  <2>2. UNCHANGED cvars
    BY <1>3, <2>1 DEF Proceed, Call, Return, OtherStep, RunStep, RunReturns, Over, cvars
  <2> QED
    BY <1>2, <2>2
<1>4. CASE Proceed /\ status = "running"
  <2>0. Apart /\ Disciplined
    BY <1>4 DEF CInv, Proceed
  <2>1. CASE (next_op_wide \/ ~finished) /\ Call
    <3>1. program' = program
      BY <1>a, <2>1 DEF Call, exec_op_invokevirtual
    <3>2. ASSUME status' = "running"
          PROVE  Registers(1)'.nv = Registers(1).nv
      <4>1. cpu.pc < CodeSize /\ TakesItsOwn
        BY <1>1, <2>0, <2>1, GoesOnInCode
      <4>2. PICK f : Entering(f)
        BY <1>1, <2>0, <2>1, <3>2, <4>1, CallEnters
      <4>3. /\ Depth \in Nat /\ Depth >= 1 /\ Depth' = Depth + 1
            /\ \A i \in 1 .. Depth - 1 : frames'[i] = frames[i]
            /\ frames'[Depth] = f /\ f.nv = cpu.nv
        BY <1>1, <4>2, EnteredFrames, FrameFacts DEF Entering
      <4>4. Registers(1)' = frames'[1]
        BY <4>3 DEF Registers
      <4>5. CASE Depth = 1
        BY <4>3, <4>4, <4>5 DEF Registers
      <4>6. CASE Depth # 1
        <5>1. 1 < Depth /\ 1 \in 1 .. Depth - 1
          BY <4>3, <4>6
        <5> QED
          BY <4>3, <4>4, <5>1 DEF Registers
      <4> QED
        BY <4>5, <4>6
    <3> QED
      BY <1>4, <3>1, <3>2
  <2>2. CASE (next_op_wide \/ ~finished) /\ Return
    <3>1. program' = program
      BY <1>a, <2>2 DEF Return, exec_op_ireturn
    <3>2. ASSUME status' = "running"
          PROVE  Registers(1)'.nv = Registers(1).nv
      <4>1. cpu.pc < CodeSize /\ TakesItsOwn
        BY <1>1, <2>0, <2>2, GoesOnInCode
      <4>2. frames # <<>> /\ exec_op_ireturn /\ frames' = Front(frames)
        BY <2>2, <3>2, <4>1 DEF Return, exec_op_ireturn, Fetch, Opcode, TakesItsOwn
      <4>3. ReturnMade
        BY <3>2, <4>2, ReturnResult
      <4>4. 1 \in 1 .. Depth - 1
        <5>1. Depth \in Nat /\ Depth >= 2
          BY <1>1, <4>2, FrameFacts
        <5> QED
          BY <5>1
      <4> QED
        BY <1>1, <4>2, <4>3, <4>4, LeftFrames
    <3> QED
      BY <1>4, <3>1, <3>2
  <2>3. CASE OtherStep /\ RunStep /\ CodeByte(cpu.pc) \notin {OP_INVOKEVIRTUAL, OP_IRETURN}
    <3>1. cpu.pc < CodeSize /\ TakesItsOwn
      BY <1>1, <2>0, <2>3, GoesOnInCode DEF RunStep
    <3>2. OwnKept(First)
      BY <1>1, <2>0, <2>3, <3>1, StepOwn DEF RunStep
    <3>3. program' = program /\ frames' = frames
      BY <1>a, <2>3, StepFetches DEF RunStep, OtherStep
    <3>4. status' = "running" => cpu'.nv = cpu.nv
      BY <3>2 DEF OwnKept
    <3> QED
      BY <1>4, <3>3, <3>4 DEF Registers, Depth
  <2>4. CASE RunReturns
    BY <2>4 DEF RunReturns
  <2> QED
    BY <1>4, <2>1, <2>2, <2>3, <2>4 DEF Proceed, OtherStep, Over
<1> QED
  BY <1>2, <1>3, <1>4 DEF CNext, Misuse

LEMMA NextMainCounted == CInv /\ MainCounted /\ [CNext]_cvars => MainCounted'
BY MainKept DEF MainCounted

LEMMA CountedFits == CInv /\ MainCounted => MainVariablesFit
<1> SUFFICES ASSUME CInv, MainCounted,
                    status = "running", frames = <<>>, cpu.pc < CodeSize,
                    CodeByte(cpu.pc) \in VariableOps, HasArgs(IndexBytes),
                    InPlainMain(program.code, program.consts,
                                [i |-> cpu.pc, wide |-> next_op_wide])
             PROVE  SignedIndex < cpu.nv
  BY DEF MainVariablesFit
<1>1. PICK at : at = [i |-> cpu.pc, wide |-> next_op_wide]
  OBVIOUS
<1>2. at.i = cpu.pc /\ at.wide = next_op_wide
  BY <1>1
<1>3. PICK behind \in [1 .. 2 -> JunkBytes] :
         LET scan == get_num_local_vars_main(program.code, program.consts, behind)
         IN  scan.ok /\ Registers(1).nv = scan.var_num
  BY DEF MainCounted
<1>4. PICK scan : scan = get_num_local_vars_main(program.code, program.consts, behind)
  OBVIOUS
<1>5. scan.ok /\ Registers(1).nv = scan.var_num
  BY <1>3, <1>4
<1>6. behind \in [1 .. 2 -> Byte]
  <2>1. JunkBytes \subseteq Byte
    BY MachineAssumption
  <2> QED
    BY <2>1
<1>7. /\ program.code \in Seq(Byte) /\ Len(program.code) <= WordMax
      /\ program.consts \in Seq(Word) /\ Len(program.code) \in Nat
  <2>1. program \in Programs
    BY DEF MainCounted
  <2>2. program.code \in Seq(Byte)
    BY <2>1, MachineAssumption
  <2> QED
    BY <2>1, <2>2, MachineAssumption, LenProperties
<1>8. cpu.pc \in Nat /\ cpu.nv \in Nat
  BY StackFacts DEF CInv
<1>9. Registers(1) = cpu
  <2>1. IInv /\ frames \in Seq(Frame)
    BY DEF CInv
  <2> QED
    BY <2>1, FrameFacts
<1>10. At(program.code, at.i) \in VariableOps
  BY <1>2 DEF CodeByte, At
<1>11. at.i + (IF at.wide THEN 2 ELSE 1) < Len(program.code)
  BY <1>2, <1>7, <1>8 DEF HasArgs, IndexBytes, CodeSize
<1>12. IndexAt(program.code, at) \in Int /\ IndexAt(program.code, at) + 1 <= scan.var_num
  BY <1>1, <1>4, <1>5, <1>6, <1>7, <1>10, <1>11, ScanCounts
<1>13. IndexAt(program.code, at) = SignedIndex
  BY <1>2 DEF IndexAt, SignedIndex, ShortAt, At, arg_short, arg_byte, CodeShort, CodeByte
<1>14. PICK index \in Int : index = SignedIndex
  BY <1>12, <1>13
<1>15. index + 1 <= cpu.nv
  BY <1>5, <1>9, <1>12, <1>13, <1>14
<1>16. index < cpu.nv
  BY <1>8, <1>15
<1> QED
  BY <1>14, <1>16

(* Main finds its variables: in every program that has main first and WIDE *)
(* only before variables, the scan of init.c:14-121 has counted the        *)
(* variable that the next instruction of main uses.                        *)
THEOREM MainFindsItsVariables == CSpec => []MainVariablesFit
BY InitCInv, NextCInv, InitMainCounted, NextMainCounted, CountedFits, PTL DEF CSpec
=============================================================================
