--------------------------- MODULE DebuggerProofs ---------------------------
(***************************************************************************)
(* What the debugger knows of the machine it runs, for every program that  *)
(* takes only its own, every history and every series of commands: theorems*)
(* about Debugger.                                                         *)
(***************************************************************************)
EXTENDS Debugger, CallsProofs

IsDebugger(dbg) ==
    dbg \in [quit_flag : BOOLEAN, prog_state : {"EMPTY", "LOADED", "STARTED", "FINISHED"},
             brkpts : {dbg.brkpts}, call_history : {dbg.call_history},
             call_history_size : {dbg.call_history_size}, allocated : {dbg.allocated}]

(* A call that is recorded. *)
Seen == [entry : Int, args : Seq(Word)]

(* The records of these calls fill the history: the one of call i ends at  *)
(* pos[i], with the method; under it are the number of arguments, and the  *)
(* arguments, the first one on top.                                        *)
RecordsAt(h, fs, pos) ==
    /\ pos \in [0 .. Len(fs) -> Nat]
    /\ \A i, j \in 0 .. Len(fs) : i <= j => pos[i] <= pos[j]
    /\ pos[0] = 0 /\ pos[Len(fs)] = Len(h)
    /\ \A i \in 1 .. Len(fs) :
          /\ pos[i] = pos[i - 1] + Len(fs[i].args) + 2
          /\ h[pos[i]] = fs[i].entry
          /\ h[pos[i] - 1] = Len(fs[i].args)
          /\ \A k \in 1 .. Len(fs[i].args) : h[pos[i] - 1 - k] = fs[i].args[k]

Records(h, fs) == \E pos : RecordsAt(h, fs, pos)

(* The calls in progress are the latest ones; the first one is main, and   *)
(* on the first run of a program nothing lies between.                     *)
EndsWithFrames(fs) ==
    \E lower \in Nat :
        /\ lower >= 1 /\ Len(fs) = lower + Len(frames)
        /\ fs[1] = OfMain
        /\ \A i \in 1 .. Len(frames) :
              /\ fs[lower + i].entry = frames[i].entry
              /\ fs[lower + i].args = frames[i].args
        /\ ~restarted => lower = 1

(* What the history holds, for what the size says is there.                *)
HistoryHoldsCalls ==
    LET h == dbg_state.call_history
    IN  /\ h \in Seq(Int)
        /\ \E fs \in Seq(Seen) : Records(h, fs) /\ EndsWithFrames(fs)

HistoryFits ==
    /\ dbg_state.allocated \in Nat
    /\ Len(dbg_state.call_history) <= dbg_state.allocated
    /\ dbg_state.call_history_size = dbg_state.allocated

(* A started program goes on, and the debugger notices when it is over.    *)
KnowsFinished ==
    /\ mode = "prompt" => ~next_op_wide /\ ~dbg_state.quit_flag
    /\ Commanded => dbg_state.prog_state = "STARTED"
    /\ program.code # <<>> /\ ~next_op_wide /\ ~dbg_state.quit_flag =>
          /\ dbg_state.prog_state \in {"LOADED", "STARTED"} => ~finished
          /\ dbg_state.prog_state = "FINISHED" => finished

(* The byte in front of a prefixed instruction is its prefix.              *)
PrefixIsWide ==
    next_op_wide => cpu.pc >= 1 /\ cpu.pc - 1 < CodeSize /\ CodeByte(cpu.pc - 1) = OP_WIDE

(* While no allocation was refused, and the debugger sees every call.      *)
Follows ==
    NoPrefixedCalls /\ ~dbg_state.quit_flag /\ dbg_state.prog_state # "EMPTY"
        => HistoryFits /\ HistoryHoldsCalls

Working ==
    /\ CInv /\ status = "running"
    /\ mode \in {"prompt", "stepping", "resumed", "continuing"}
    /\ IsDebugger(dbg_state)
    /\ KnowsFinished /\ PrefixIsWide /\ Follows

DInv == mode \notin {"gone", "broken"} => Working

-----------------------------------------------------------------------------
(* Records in a history                                                    *)

LEMMA RecordIs ==
    ASSUME NEW args \in Seq(Word), NEW entry \in Int
    PROVE  LET c == CallRecord(args, entry)
               n == Len(args)
           IN  /\ c \in Seq(Int) /\ n \in Nat /\ Len(c) = n + 2
               /\ \A k \in 1 .. n : c[n + 1 - k] = args[k]
               /\ c[n + 1] = n /\ c[n + 2] = entry
<1> DEFINE n == Len(args)
           r == Reversed(args)
           t == <<n, entry>>
           c == CallRecord(args, entry)
<1>1. n \in Nat /\ \A k \in 1 .. n : args[k] \in Int
  <2>1. Word \subseteq Int
    BY WordMaxAssumption DEF Word, WordMin
  <2> QED
    BY <2>1, LenProperties, ElementOfSeq
<1>2. r \in Seq(Int) /\ Len(r) = n /\ \A k \in 1 .. n : r[n + 1 - k] = args[k]
  <2>1. \A k \in 1 .. n : n - k + 1 \in 1 .. n
    BY <1>1
  <2>2. r = [k \in 1 .. n |-> args[n - k + 1]]
    BY DEF Reversed
  <2> HIDE DEF n, r
  <2>3. r \in [1 .. n -> Int]
    BY <1>1, <2>1, <2>2
  <2>4. r \in Seq(Int) /\ Len(r) = n
    BY <1>1, <2>3, IsASeq, LenProperties
  <2>5. \A k \in 1 .. n : n + 1 - k \in 1 .. n /\ n - (n + 1 - k) + 1 = k
    BY <1>1
  <2> QED
    BY <2>2, <2>4, <2>5
<1>3. t \in Seq(Int) /\ Len(t) = 2 /\ t[1] = n /\ t[2] = entry
  BY <1>1
<1>4. c = r \o t
  BY DEF CallRecord
<1> HIDE DEF n, r, t, c
<1>9. /\ r \o t \in Seq(Int) /\ Len(r \o t) = Len(r) + Len(t)
      /\ \A i \in 1 .. Len(r) + Len(t) :
            (r \o t)[i] = IF i <= Len(r) THEN r[i] ELSE t[i - Len(r)]
  BY <1>2, <1>3, ConcatProperties
<1>5. c \in Seq(Int) /\ Len(c) = n + 2
  BY <1>2, <1>3, <1>4, <1>9
<1>6. \A i \in 1 .. n + 2 : c[i] = IF i <= n THEN r[i] ELSE t[i - n]
  BY <1>2, <1>3, <1>4, <1>9
<1>7. \A k \in 1 .. n : c[n + 1 - k] = args[k]
  <2>1. \A k \in 1 .. n : n + 1 - k \in 1 .. n + 2 /\ n + 1 - k <= n
    BY <1>1
  <2> QED
    BY <1>2, <1>6, <2>1
<1>8. c[n + 1] = n /\ c[n + 2] = entry
  <2>1. n \in Nat
    BY <1>1
  <2>2. ASSUME NEW i, i = n + 1 PROVE c[i] = t[1]
    <3>1. i \in 1 .. n + 2 /\ ~(i <= n) /\ i - n = 1
      BY <2>1, <2>2
    <3>2. c[i] = t[i - n]
      BY <1>6, <3>1
    <3> QED
      BY <3>1, <3>2
  <2>3. ASSUME NEW i, i = n + 2 PROVE c[i] = t[2]
    <3>1. i \in 1 .. n + 2 /\ ~(i <= n) /\ i - n = 2
      BY <2>1, <2>3
    <3>2. c[i] = t[i - n]
      BY <1>6, <3>1
    <3> QED
      BY <3>1, <3>2
  <2> QED
    BY <1>3, <2>2, <2>3
<1> QED
  BY <1>1, <1>5, <1>7, <1>8 DEF n, c

(* The history of a program that was loaded. *)
LEMMA RecordOfMain == <<0, 0>> \in Seq(Int) /\ Records(<<0, 0>>, <<OfMain>>)
                      /\ <<OfMain>> \in Seq(Seen)
<1> DEFINE pos == [i \in 0 .. 1 |-> IF i = 0 THEN 0 ELSE 2]
<1>1. <<0, 0>> \in Seq(Int) /\ Len(<<0, 0>>) = 2 /\ Len(<<OfMain>>) = 1
  OBVIOUS
<1>2. OfMain.entry = 0 /\ OfMain.args = <<>> /\ Len(OfMain.args) = 0
  BY DEF OfMain
<1>3. OfMain \in Seen
  <2>1. <<>> \in Seq(Word)
    BY EmptySeq
  <2> QED
    BY <2>1 DEF OfMain, Seen
<1>4. <<OfMain>> \in Seq(Seen)
  BY <1>3
<1>5. RecordsAt(<<0, 0>>, <<OfMain>>, pos)
  <2>1. pos \in [0 .. 1 -> Nat] /\ pos[0] = 0 /\ pos[1] = 2
    OBVIOUS
  <2> HIDE DEF pos
  <2>2. \A i \in 1 .. 1 : /\ pos[i] = pos[i - 1] + Len(<<OfMain>>[i].args) + 2
                          /\ <<0, 0>>[pos[i]] = <<OfMain>>[i].entry
                          /\ <<0, 0>>[pos[i] - 1] = Len(<<OfMain>>[i].args)
                          /\ Len(<<OfMain>>[i].args) = 0
    BY <1>2, <2>1
  <2>3. \A i, j \in 0 .. 1 : i <= j => pos[i] <= pos[j]
    BY <2>1
  <2> QED
    BY <1>1, <2>1, <2>2, <2>3 DEF RecordsAt
<1> QED
  BY <1>1, <1>4, <1>5 DEF Records

LEMMA RecordsLong ==
    ASSUME NEW h \in Seq(Int), NEW fs \in Seq(Seen), Records(h, fs), Len(fs) >= 1
    PROVE  Len(h) >= 2
<1>1. PICK pos : RecordsAt(h, fs, pos)
  BY DEF Records
<1> DEFINE d == Len(fs)
           l == Len(fs[d].args)
<1>2. d \in Nat /\ Len(h) \in Nat
  BY LenProperties
<1>3. d \in 1 .. d /\ d - 1 \in 0 .. d
  BY <1>2
<1>4. l \in Nat
  <2>1. fs[d].args \in Seq(Word)
    <3>1. fs[d] \in Seen
      BY <1>3, ElementOfSeq
    <3> QED
      BY <3>1 DEF Seen
  <2> QED
    BY <2>1, LenProperties
<1>5. pos[d] = pos[d - 1] + l + 2 /\ pos[d - 1] \in Nat /\ pos[d] = Len(h)
  BY <1>1, <1>3 DEF RecordsAt
<1> HIDE DEF d, l
<1> QED
  BY <1>2, <1>4, <1>5

(* A call puts its record on top. *)
LEMMA RecordsGrow ==
    ASSUME NEW h \in Seq(Int), NEW fs \in Seq(Seen), Records(h, fs), NEW f \in Seen
    PROVE  Records(h \o CallRecord(f.args, f.entry), Append(fs, f))
<1>1. PICK pos : RecordsAt(h, fs, pos)
  BY DEF Records
<1> DEFINE n  == Len(f.args)
           m  == Len(h)
           d  == Len(fs)
           c  == CallRecord(f.args, f.entry)
           g  == h \o c
           gs == Append(fs, f)
           top == [i \in 0 .. d + 1 |-> IF i = d + 1 THEN m + n + 2 ELSE pos[i]]
<1>2. f.args \in Seq(Word) /\ f.entry \in Int
  BY DEF Seen
<1>3. /\ c \in Seq(Int) /\ n \in Nat /\ Len(c) = n + 2
      /\ \A k \in 1 .. n : c[n + 1 - k] = f.args[k]
      /\ c[n + 1] = n /\ c[n + 2] = f.entry
  BY <1>2, RecordIs
<1>4. m \in Nat /\ d \in Nat
  BY LenProperties
<1>5. /\ Len(gs) = d + 1 /\ gs[d + 1] = f /\ \A i \in 1 .. d : gs[i] = fs[i]
  BY AppendProperties
<1>6. /\ Len(g) = m + n + 2
      /\ \A i \in 1 .. m + n + 2 : g[i] = IF i <= m THEN h[i] ELSE c[i - m]
  <2> HIDE DEF c, n, m
  <2>1. /\ Len(h \o c) = Len(h) + Len(c)
        /\ \A i \in 1 .. Len(h) + Len(c) :
              (h \o c)[i] = IF i <= Len(h) THEN h[i] ELSE c[i - Len(h)]
    BY <1>3, ConcatProperties
  <2>2. Len(h) + Len(c) = m + n + 2
    BY <1>3, <1>4 DEF m
  <2> QED
    BY <2>1, <2>2 DEF m
<1>7. /\ pos \in [0 .. d -> Nat] /\ pos[0] = 0 /\ pos[d] = m
      /\ \A i, j \in 0 .. d : i <= j => pos[i] <= pos[j]
  BY <1>1 DEF RecordsAt
<1>8. \A i \in 1 .. d : /\ pos[i] = pos[i - 1] + Len(fs[i].args) + 2
                        /\ h[pos[i]] = fs[i].entry
                        /\ h[pos[i] - 1] = Len(fs[i].args)
                        /\ \A k \in 1 .. Len(fs[i].args) : h[pos[i] - 1 - k] = fs[i].args[k]
  BY <1>1 DEF RecordsAt
<1>9. \A i \in 1 .. d : Len(fs[i].args) \in Nat
  <2>1. \A i \in 1 .. d : fs[i].args \in Seq(Word)
    <3>1. \A i \in 1 .. d : fs[i] \in Seen
      BY ElementOfSeq
    <3> QED
      BY <3>1 DEF Seen
  <2> QED
    BY <2>1, LenProperties
<1> HIDE DEF n, m, d, c, g, gs
<1>10. /\ top \in [0 .. d + 1 -> Nat] /\ top[0] = 0 /\ top[d + 1] = m + n + 2
       /\ \A i \in 0 .. d : top[i] = pos[i]
  BY <1>3, <1>4, <1>7
<1>11. \A i, j \in 0 .. d + 1 : i <= j => top[i] <= top[j]
  <2>1. \A i \in 0 .. d : pos[i] \in Nat /\ pos[i] <= m
    BY <1>4, <1>7
  <2> SUFFICES ASSUME NEW i \in 0 .. d + 1, NEW j \in 0 .. d + 1, i <= j
               PROVE  top[i] <= top[j]
    OBVIOUS
  <2> HIDE DEF top
  <2>2. CASE j <= d
    <3>1. i \in 0 .. d /\ j \in 0 .. d
      BY <1>4, <2>2
    <3> QED
      BY <1>7, <1>10, <3>1
  <2>3. CASE j = d + 1 /\ i <= d
    <3>1. i \in 0 .. d
      BY <1>4, <2>3
    <3>2. top[i] \in Nat /\ top[i] <= m /\ top[j] = m + n + 2
      BY <1>10, <2>1, <2>3, <3>1
    <3> QED
      BY <1>3, <1>4, <3>2
  <2>4. CASE j = d + 1 /\ i = d + 1
    BY <1>3, <1>4, <1>10, <2>4
  <2> QED
    BY <1>4, <2>2, <2>3, <2>4
<1> HIDE DEF top
<1>12. ASSUME NEW i \in 1 .. d
       PROVE  /\ top[i] = top[i - 1] + Len(gs[i].args) + 2
              /\ g[top[i]] = gs[i].entry
              /\ g[top[i] - 1] = Len(gs[i].args)
              /\ \A k \in 1 .. Len(gs[i].args) : g[top[i] - 1 - k] = gs[i].args[k]
  <2> DEFINE l == Len(fs[i].args)
             a == pos[i - 1]
             b == pos[i]
  <2>1. i \in 0 .. d /\ i - 1 \in 0 .. d /\ 0 \in 0 .. d /\ d \in 0 .. d
        /\ 0 <= i - 1 /\ i <= d
    BY <1>4
  <2>2. a \in Nat /\ b \in Nat /\ b <= m
    BY <1>4, <1>7, <2>1
  <2>3. /\ b = a + l + 2 /\ h[b] = fs[i].entry /\ h[b - 1] = l
        /\ \A k \in 1 .. l : h[b - 1 - k] = fs[i].args[k]
    BY <1>8
  <2>4. l \in Nat
    BY <1>9
  <2>5. gs[i] = fs[i] /\ top[i] = b /\ top[i - 1] = a
    BY <1>5, <1>10, <2>1
  <2> HIDE DEF l, a, b
  <2>6. /\ b \in 1 .. m + n + 2 /\ b <= m /\ b - 1 \in 1 .. m + n + 2 /\ b - 1 <= m
        /\ \A k \in 1 .. l : b - 1 - k \in 1 .. m + n + 2 /\ b - 1 - k <= m
    BY <1>3, <1>4, <2>2, <2>3, <2>4
  <2>7. /\ g[b] = h[b] /\ g[b - 1] = h[b - 1]
        /\ \A k \in 1 .. l : g[b - 1 - k] = h[b - 1 - k]
    BY <1>6, <2>6
  <2> QED
    BY <2>3, <2>5, <2>7 DEF l
<1>13. /\ top[d + 1] = top[d] + n + 2
       /\ g[top[d + 1]] = f.entry
       /\ g[top[d + 1] - 1] = n
       /\ \A k \in 1 .. n : g[top[d + 1] - 1 - k] = f.args[k]
  <2> DEFINE b == m + n + 2
  <2>1. top[d + 1] = b /\ top[d] = m
    BY <1>4, <1>7, <1>10
  <2>2. /\ b \in 1 .. m + n + 2 /\ ~(b <= m) /\ b - m = n + 2
        /\ b - 1 \in 1 .. m + n + 2 /\ ~(b - 1 <= m) /\ b - 1 - m = n + 1
        /\ \A k \in 1 .. n : /\ b - 1 - k \in 1 .. m + n + 2 /\ ~(b - 1 - k <= m)
                             /\ b - 1 - k - m = n + 1 - k
    BY <1>3, <1>4
  <2>3. top[d + 1] = top[d] + n + 2
    BY <1>3, <1>4, <2>1
  <2> HIDE DEF b
  <2>4. /\ g[b] = c[n + 2] /\ g[b - 1] = c[n + 1]
        /\ \A k \in 1 .. n : g[b - 1 - k] = c[n + 1 - k]
    BY <1>6, <2>2
  <2> QED
    BY <1>3, <2>1, <2>3, <2>4
<1>14. ASSUME NEW i \in 1 .. d + 1
       PROVE  /\ top[i] = top[i - 1] + Len(gs[i].args) + 2
              /\ g[top[i]] = gs[i].entry
              /\ g[top[i] - 1] = Len(gs[i].args)
              /\ \A k \in 1 .. Len(gs[i].args) : g[top[i] - 1 - k] = gs[i].args[k]
  <2>1. CASE i \in 1 .. d
    BY <1>12, <2>1
  <2>2. CASE i = d + 1
    <3>1. i - 1 = d
      BY <1>4, <2>2
    <3> QED
      BY <1>5, <1>13, <2>2, <3>1 DEF n
  <2> QED
    BY <1>4, <2>1, <2>2
<1>15. RecordsAt(g, gs, top)
  BY <1>5, <1>6, <1>10, <1>11, <1>14 DEF RecordsAt
<1> QED
  BY <1>15 DEF Records, g, gs, c

(* A return takes the topmost record off, as far as its own words tell. *)
LEMMA RecordsShrink ==
    ASSUME NEW h \in Seq(Int), NEW fs \in Seq(Seen), Records(h, fs), fs # <<>>
    PROVE  LET left == Len(h) - 2 - h[Len(h) - 1]
           IN  /\ Len(h) >= 2 /\ left \in Nat /\ left <= Len(h)
               /\ SubSeq(h, 1, left) \in Seq(Int) /\ Len(SubSeq(h, 1, left)) = left
               /\ Records(SubSeq(h, 1, left), Front(fs))
<1>1. PICK pos : RecordsAt(h, fs, pos)
  BY DEF Records
<1> DEFINE d == Len(fs)
           m == Len(h)
           e == d - 1
           n == Len(fs[d].args)
           left == m - 2 - h[m - 1]
           g == SubSeq(h, 1, left)
           gs == Front(fs)
           top == [i \in 0 .. e |-> pos[i]]
<1>2. m \in Nat /\ d \in Nat /\ d >= 1 /\ e \in Nat /\ d = e + 1
  BY LenProperties, EmptySeq
<1>3. \A i \in 1 .. d : Len(fs[i].args) \in Nat
  <2>1. \A i \in 1 .. d : fs[i].args \in Seq(Word)
    <3>1. \A i \in 1 .. d : fs[i] \in Seen
      BY ElementOfSeq
    <3> QED
      BY <3>1 DEF Seen
  <2> QED
    BY <2>1, LenProperties
<1>4. Len(gs) = e /\ \A i \in 1 .. e : gs[i] = fs[i]
  <2>1. gs = SubSeq(fs, 1, Len(fs) - 1)
    BY DEF Front
  <2> QED
    BY <1>2, <2>1, SubSeqProperties, ElementOfSeq
<1>5. /\ pos \in [0 .. d -> Nat] /\ pos[0] = 0 /\ pos[d] = m
      /\ \A i, j \in 0 .. d : i <= j => pos[i] <= pos[j]
  BY <1>1 DEF RecordsAt
<1>6. \A i \in 1 .. d : /\ pos[i] = pos[i - 1] + Len(fs[i].args) + 2
                        /\ h[pos[i]] = fs[i].entry
                        /\ h[pos[i] - 1] = Len(fs[i].args)
                        /\ \A k \in 1 .. Len(fs[i].args) : h[pos[i] - 1 - k] = fs[i].args[k]
  BY <1>1 DEF RecordsAt
<1>7. n \in Nat /\ h[m - 1] = n /\ m = pos[e] + n + 2
  <2>1. d \in 1 .. d
    BY <1>2
  <2>2. /\ n \in Nat /\ pos[d] = pos[d - 1] + n + 2 /\ h[pos[d] - 1] = n
    BY <1>3, <1>6, <2>1
  <2> QED
    BY <1>5, <2>2
<1>8. pos[e] \in Nat /\ pos[e] <= m
  <2>1. 0 \in 0 .. d /\ e \in 0 .. d /\ d \in 0 .. d /\ 0 <= e /\ e <= d
    BY <1>2
  <2>2. pos[0] \in Nat /\ pos[e] \in Nat /\ pos[0] <= pos[e] /\ pos[e] <= pos[d]
    BY <1>5, <2>1
  <2> QED
    BY <1>5, <2>2
<1> HIDE DEF n, m, d, e
<1>9. left = pos[e] /\ m >= 2
  <2> DEFINE a == pos[e]
  <2>1. left = m - 2 - n /\ m = a + n + 2 /\ n \in Nat /\ a \in Nat /\ m \in Nat
    BY <1>2, <1>7, <1>8
  <2> HIDE DEF a, left
  <2> QED
    BY <2>1 DEF a
<1> HIDE DEF left
<1>10. /\ g \in Seq(Int) /\ Len(g) = left /\ \A i \in 1 .. left : g[i] = h[i]
  <2>1. left \in Nat /\ left <= m /\ 1 \in Int /\ left \in Int
    BY <1>8, <1>9
  <2>2. \A i \in 1 .. left : i \in 1 .. Len(h)
    BY <1>2, <2>1 DEF m
  <2>3. \A i \in 1 .. left : h[i] \in Int
    BY <2>2, ElementOfSeq
  <2> QED
    BY <2>1, <2>3, SubSeqProperties
<1> HIDE DEF g, gs
<1>11. /\ top \in [0 .. e -> Nat] /\ top[0] = 0 /\ top[e] = left
       /\ \A i \in 0 .. e : top[i] = pos[i]
  BY <1>2, <1>5, <1>9
<1>12. \A i, j \in 0 .. e : i <= j => top[i] <= top[j]
  <2>1. \A i \in 0 .. e : i \in 0 .. d
    BY <1>2
  <2> QED
    BY <1>5, <1>11, <2>1
<1> HIDE DEF top
<1>13. ASSUME NEW i \in 1 .. e
       PROVE  /\ top[i] = top[i - 1] + Len(gs[i].args) + 2
              /\ g[top[i]] = gs[i].entry
              /\ g[top[i] - 1] = Len(gs[i].args)
              /\ \A k \in 1 .. Len(gs[i].args) : g[top[i] - 1 - k] = gs[i].args[k]
  <2> DEFINE l == Len(fs[i].args)
             a == pos[i - 1]
             b == pos[i]
  <2>1. /\ i \in 0 .. d /\ i - 1 \in 0 .. d /\ 0 \in 0 .. d /\ e \in 0 .. d
        /\ i \in 0 .. e /\ i - 1 \in 0 .. e /\ i \in 1 .. d
        /\ 0 <= i - 1 /\ i <= e
    BY <1>2
  <2>2. a \in Nat /\ b \in Nat /\ b <= left
    BY <1>5, <1>9, <2>1
  <2>3. /\ b = a + l + 2 /\ h[b] = fs[i].entry /\ h[b - 1] = l
        /\ \A k \in 1 .. l : h[b - 1 - k] = fs[i].args[k]
    BY <1>6, <2>1
  <2>4. l \in Nat
    BY <1>3, <2>1
  <2>5. gs[i] = fs[i] /\ top[i] = b /\ top[i - 1] = a
    BY <1>4, <1>11, <2>1
  <2> HIDE DEF l, a, b
  <2>8. left \in Nat
    BY <1>8, <1>9
  <2>6. /\ b \in 1 .. left /\ b - 1 \in 1 .. left
        /\ \A k \in 1 .. l : b - 1 - k \in 1 .. left
    BY <2>2, <2>3, <2>4, <2>8
  <2>7. /\ g[b] = h[b] /\ g[b - 1] = h[b - 1]
        /\ \A k \in 1 .. l : g[b - 1 - k] = h[b - 1 - k]
    BY <1>10, <2>6
  <2> QED
    BY <2>3, <2>5, <2>7 DEF l
<1>14. RecordsAt(g, gs, top)
  BY <1>4, <1>10, <1>11, <1>12, <1>13 DEF RecordsAt
<1>15. left \in Nat /\ left <= m
  BY <1>8, <1>9
<1> QED
  BY <1>9, <1>10, <1>14, <1>15 DEF Records, left, g, gs, m
-----------------------------------------------------------------------------
(* The machine of the debugger                                             *)

LEMMA EmptyProgram ==
    ASSUME IInv, program.code # <<>>
    PROVE  CodeSize \in Nat /\ CodeSize >= 1
<1>1. program.code \in Seq(Byte)
  BY DEF IInv, TypeOK
<1>2. Len(program.code) \in Nat /\ Len(program.code) # 0
  BY <1>1, LenProperties, EmptySeq
<1> QED
  BY <1>2 DEF CodeSize

(* What a command that works leaves behind: the machine of init_ijvm. *)
LEMMA FreshLoad ==
    ASSUME IInv, NEW p \in Programs, NEW dbg, NEW next_mode, LoadWorks(p, dbg, next_mode)
    PROVE  /\ CInv' /\ status' = "running" /\ program' = p /\ frames' = <<>>
           /\ ~next_op_wide' /\ (p.code # <<>> => ~finished')
<1>1. /\ program' = p /\ next_op_wide' = FALSE /\ arr_mem' = NoArrays
      /\ net_conn' = NoConns /\ frames' = <<>>
      /\ element_creations' = element_creations
  BY DEF LoadWorks
<1>2. FreshCpu(cpu') /\ status' = "running"
  <2>1. PICK r \in init_ijvm(p) : r.status = "running" /\ cpu' = r.cpu /\ status' = r.status
    BY DEF LoadWorks
  <2> QED
    BY <2>1, FreshMachine
<1>3. program' \in [code : Seq(Byte), consts : Seq(Word)]
  BY <1>1, MachineAssumption
<1>4. element_creations' \in 0 .. GC_PERIOD
  BY <1>1 DEF IInv, TypeOK
<1>5. IsArrMem(arr_mem') /\ IsNetConn(net_conn')
  BY <1>1, RefusedArrays
<1>6. TypeOK'
  BY <1>1, <1>2, <1>3, <1>4, <1>5 DEF TypeOK, FreshCpu
<1>7. /\ cpu'.nv \in Nat /\ cpu'.stack_size \in Nat /\ cpu'.sp = cpu'.nv - 1
      /\ cpu'.lv = 0 /\ cpu'.fp = cpu'.nv /\ cpu'.nv < cpu'.stack_size
      /\ cpu'.pc = 0 /\ ~cpu'.error_flag /\ ~cpu'.halt_flag
  BY <1>2, WordMaxAssumption DEF FreshCpu
<1>8. RegistersInStack'
  BY <1>7 DEF RegistersInStack
<1>9. LowIndexes'
  <2>1. Claimed(arr_mem') = {} /\ Open(net_conn') = {} /\ status' # "recursing"
    BY <1>1, <1>2, RefusedArrays
  <2> QED
    BY <2>1 DEF LowIndexes
<1>10. IInv'
  BY <1>1, <1>6, <1>8, <1>9 DEF IInv
<1>11. frames' \in Seq(Frame) /\ Len(frames') = 0
  BY <1>1, EmptySeq
<1>12. Depth' = 1
  BY <1>11 DEF Depth
<1>13. Registers(1)' = cpu' /\ FirstOperand(1)' = cpu'.nv
  BY <1>12 DEF Registers, FirstOperand
<1>14. Apart'
  BY <1>7, <1>12, <1>13 DEF Apart
<1>15. LinksIntact'
  BY <1>11 DEF LinksIntact
<1>16. CInv'
  BY <1>2, <1>10, <1>11, <1>14, <1>15 DEF CInv
<1>17. ASSUME p.code # <<>> PROVE ~finished'
  <2>1. (IInv /\ program.code # <<>> => CodeSize >= 1 /\ CodeSize \in Nat)'
    BY EmptyProgram, PTL
  <2>2. CodeSize' >= 1 /\ CodeSize' \in Nat
    BY <1>1, <1>10, <1>17, <2>1
  <2> QED
    BY <1>7, <2>2 DEF finished
<1> QED
  BY <1>1, <1>2, <1>16, <1>17

(* A step of a program that takes only its own. *)
LEMMA StepCInv ==
    ASSUME CInv, status = "running", TakesItsOwn, cpu.pc < CodeSize, step
    PROVE  CInv' /\ program' = program
<1>1. IInv /\ frames \in Seq(Frame) /\ Apart
  BY DEF CInv
<1>2. CASE Call
  <2>1. IInv'
    BY <1>1, <1>2, InvokeIInv DEF Call
  <2>2. program' = program
    BY <1>2 DEF Call, exec_op_invokevirtual, Fetch
  <2> QED
    BY <1>2, <2>1, <2>2, CallKeeps
<1>3. CASE Return
  <2>1. IInv'
    BY <1>1, <1>3, IreturnIInv DEF Return
  <2>2. program' = program /\ CodeByte(cpu.pc) = OP_IRETURN
    BY <1>3 DEF Return, exec_op_ireturn, Fetch, Opcode
  <2>3. frames # <<>>
    BY <2>2 DEF TakesItsOwn
  <2> QED
    BY <1>3, <2>1, <2>2, <2>3, ReturnKeeps
<1>4. CASE Step /\ Op \notin {OP_INVOKEVIRTUAL, OP_IRETURN} /\ UNCHANGED frames
  <2>1. IInv'
    BY <1>1, <1>4, StepIInv
  <2>2. OwnKept(First)
    BY <1>1, <1>4, StepOwn DEF Op
  <2>3. program' = program
    BY <1>4, StepFetches DEF Fetch
  <2> QED
    BY <1>4, <2>1, <2>2, <2>3, OwnStepKeeps
<1> QED
  BY <1>2, <1>3, <1>4 DEF step

LEMMA NotWide ==
    /\ OP_WIDE \in Opcodes
    /\ \A op \in {OP_NOP, OP_BIPUSH, OP_LDC_W, OP_ILOAD, OP_ISTORE, OP_POP, OP_DUP,
                  OP_SWAP, OP_IADD, OP_ISUB, OP_IAND, OP_IINC, OP_IFEQ, OP_IFLT,
                  OP_ICMPEQ, OP_GOTO, OP_IRETURN, OP_IOR, OP_INVOKEVIRTUAL, OP_IN,
                  OP_OUT, OP_ERR, OP_HALT, OP_NEWARRAY, OP_IALOAD, OP_IASTORE, OP_GC,
                  OP_NETBIND, OP_NETCONNECT, OP_NETIN, OP_NETOUT, OP_NETCLOSE} :
          op # OP_WIDE
BY DEF Opcodes, OP_NOP, OP_BIPUSH, OP_LDC_W, OP_ILOAD, OP_ISTORE, OP_POP, OP_DUP,
       OP_SWAP, OP_IADD, OP_ISUB, OP_IAND, OP_IINC, OP_IFEQ, OP_IFLT,
       OP_ICMPEQ, OP_GOTO, OP_IRETURN, OP_IOR, OP_INVOKEVIRTUAL, OP_IN,
       OP_OUT, OP_ERR, OP_HALT, OP_NEWARRAY, OP_IALOAD, OP_IASTORE, OP_GC,
       OP_NETBIND, OP_NETCONNECT, OP_NETIN, OP_NETOUT, OP_NETCLOSE, OP_WIDE

(* Any instruction but WIDE. *)
Unprefixing == \E op : op # OP_WIDE /\ Fetch(op)

LEMMA StepUnprefixes ==
    ASSUME Step
    PROVE  exec_op_wide \/ Unprefixing
<1>1. \A op, word : op # OP_WIDE /\ Binary(op, word) => Unprefixing
  BY DEF Binary, Unprefixing
<1>2. \A op, k, taken : op # OP_WIDE /\ Branch(op, k, taken) => Unprefixing
  BY DEF Branch, Unprefixing
<1>3. exec_op_iadd \/ exec_op_isub \/ exec_op_iand \/ exec_op_ior => Unprefixing
  BY <1>1, NotWide DEF exec_op_iadd, exec_op_isub, exec_op_iand, exec_op_ior
<1>4. exec_op_ifeq \/ exec_op_iflt \/ exec_op_icmpeq => Unprefixing
  BY <1>2, NotWide DEF exec_op_ifeq, exec_op_iflt, exec_op_icmpeq
<1>5. exec_op_nop \/ exec_op_bipush \/ exec_op_ldc_w \/ exec_op_iload
      \/ exec_op_istore \/ exec_op_pop => Unprefixing
  BY NotWide DEF exec_op_nop, exec_op_bipush, exec_op_ldc_w,
     exec_op_iload, exec_op_istore, exec_op_pop, Unprefixing
<1>6. exec_op_dup \/ exec_op_swap \/ exec_op_iinc \/ exec_op_goto
      \/ exec_op_ireturn \/ exec_op_invokevirtual => Unprefixing
  BY NotWide DEF exec_op_dup, exec_op_swap, exec_op_iinc,
     exec_op_goto, exec_op_ireturn, exec_op_invokevirtual, Unprefixing
<1>7. exec_op_in \/ exec_op_out \/ exec_op_err \/ exec_op_halt
      \/ exec_op_newarray => Unprefixing
  BY NotWide DEF exec_op_in, exec_op_out,
     exec_op_err, exec_op_halt, exec_op_newarray, Unprefixing
<1>8. exec_op_iaload \/ exec_op_iastore \/ exec_op_gc
      \/ exec_op_netbind \/ exec_op_netconnect \/ exec_op_netin => Unprefixing
  BY NotWide DEF exec_op_iaload, exec_op_iastore, exec_op_gc,
     exec_op_netbind, exec_op_netconnect, exec_op_netin, Unprefixing
<1>9. exec_op_netout \/ exec_op_netclose \/ InvalidOpcode => Unprefixing
  <2>1. InvalidOpcode => \E op : op \notin Opcodes /\ Fetch(op)
    BY DEF InvalidOpcode
  <2>2. InvalidOpcode => Unprefixing
    BY <2>1, NotWide DEF Unprefixing
  <2> QED
    BY <2>2, NotWide DEF exec_op_netout, exec_op_netclose, Unprefixing
<1> QED
  BY <1>3, <1>4, <1>5, <1>6, <1>7, <1>8, <1>9 DEF Step

(* Where an instruction is prefixed, the machine stands behind its prefix. *)
LEMMA WideAdvances ==
    ASSUME IInv, cpu.pc < CodeSize, step, next_op_wide', status' = "running"
    PROVE  PrefixIsWide'
<1>1. ~Unprefixing
  BY DEF Unprefixing, Fetch
<1>2. ~exec_op_invokevirtual /\ ~exec_op_ireturn
  BY <1>1, NotWide DEF Unprefixing, exec_op_invokevirtual, exec_op_ireturn
<1>3. exec_op_wide
  BY <1>1, <1>2, StepUnprefixes DEF step, Call, Return
<1>4. Become(Advanced(0, 0)) /\ CodeByte(cpu.pc) = OP_WIDE /\ program' = program
  BY <1>3 DEF exec_op_wide, Fetch, Opcode
<1>5. cpu' = Advanced(0, 0).cpu
  BY <1>4 DEF Become, DestroyNow
<1>6. cpu.pc \in Nat
  BY DEF IInv, TypeOK
<1>7. cpu'.pc = cpu.pc + 1
  <2>1. cpu \in [pc : Nat, sp : Int, lv : Nat, nv : 0 .. WordMax, fp : Nat,
                 stack_size : 0 .. WordMax, stack : {cpu.stack},
                 error_flag : BOOLEAN, halt_flag : BOOLEAN]
    BY DEF IInv, TypeOK
  <2>2. Advanced(0, 0).cpu = [cpu EXCEPT !.pc = cpu.pc + 1 + 0, !.sp = cpu.sp - 0]
    BY <2>1 DEF Advanced, Machine
  <2>3. cpu'.pc = cpu.pc + 1 + 0
    BY <1>5, <2>1, <2>2
  <2> QED
    BY <1>6, <2>3
<1>8. cpu'.pc - 1 = cpu.pc /\ cpu'.pc >= 1
  BY <1>6, <1>7
<1>9. CodeSize' = CodeSize
  BY <1>4 DEF CodeSize
<1>10. program'.code[cpu'.pc - 1 + 1] = program.code[cpu.pc + 1]
  BY <1>4, <1>8
<1> QED
  BY <1>4, <1>8, <1>9, <1>10 DEF PrefixIsWide, CodeByte

-----------------------------------------------------------------------------
(* The history, before the step it is about                                *)

(* The method and the arguments that the debugger reads.                   *)
LEMMA CallArguments ==
    ASSUME IInv, frames \in Seq(Frame), Apart, TakesItsOwn, cpu.pc < CodeSize, IsCall
    PROVE  /\ Arguments \in Nat /\ get_constant(arg_short(1)) \in Int
           /\ TopWords(Arguments) \in Seq(Word) /\ Len(TopWords(Arguments)) = Arguments
<1> DEFINE target == get_constant(arg_short(1))
<1>1. HasArgs(2) /\ IsConstant(arg_short(1)) /\ target \in 0 .. CodeSize - 4
  BY DEF IsCall
<1>2. CodeSize \in Nat
  BY ProgramIsCode
<1>3. target \in Int /\ target >= 0 /\ target + 4 <= CodeSize
  BY <1>1, <1>2
<1>4. Arguments \in Nat
  BY <1>1, <1>3, CallOperands DEF Arguments
<1>5. Operands >= Arguments
  BY DEF TakesItsOwn
<1>6. Operands = cpu.sp - First + 1
  BY DEF Operands, First
<1>7. First \in Nat /\ cpu.sp \in Int
  BY FrameFacts, StackFacts
<1> HIDE DEF target, Operands, Arguments, First
<1>8. Arguments <= cpu.sp + 1
  BY <1>4, <1>5, <1>6, <1>7
<1> QED
  BY <1>3, <1>4, <1>8, TopWordsAreWords DEF target

LEMMA StoreFacts ==
    ASSUME IsDebugger(dbg_state), NEW refused \in BOOLEAN
    PROVE  LET dbg == store_func_call(refused)
           IN  /\ IsDebugger(dbg) /\ dbg.prog_state = dbg_state.prog_state
               /\ ~dbg.quit_flag =>
                     /\ ~dbg_state.quit_flag
                     /\ dbg.call_history = dbg_state.call_history
                           \o CallRecord(TopWords(Arguments), get_constant(arg_short(1)))
<1> DEFINE needed == Len(dbg_state.call_history) + RecordSize(Arguments)
           grows  == needed > dbg_state.call_history_size
           size   == IF grows THEN needed + HISTORY_MARGIN ELSE dbg_state.call_history_size
           h      == dbg_state.call_history
                       \o CallRecord(TopWords(Arguments), get_constant(arg_short(1)))
           room   == IF grows THEN size ELSE dbg_state.allocated
           stored == [dbg_state EXCEPT !.call_history = h, !.call_history_size = size,
                                       !.allocated = room]
           lost   == [dbg_state EXCEPT !.quit_flag = TRUE, !.call_history_size = size]
<1>1. store_func_call(refused) = IF grows /\ refused THEN lost ELSE stored
  BY DEF store_func_call
<1> HIDE DEF size, h, room, grows
<1>2. /\ IsDebugger(stored) /\ stored.prog_state = dbg_state.prog_state
      /\ stored.quit_flag = dbg_state.quit_flag /\ stored.call_history = h
  BY DEF IsDebugger
<1>3. /\ IsDebugger(lost) /\ lost.prog_state = dbg_state.prog_state
      /\ lost.quit_flag = TRUE
  BY DEF IsDebugger
<1> HIDE DEF lost, stored
<1> QED
  BY <1>1, <1>2, <1>3 DEF h

LEMMA RemoveFacts ==
    ASSUME IsDebugger(dbg_state)
    PROVE  LET dbg == remove_last_func_call
               h == dbg_state.call_history
           IN  /\ IsDebugger(dbg) /\ dbg.prog_state = dbg_state.prog_state
               /\ dbg.quit_flag = dbg_state.quit_flag
               /\ dbg.allocated = dbg_state.allocated
               /\ dbg.call_history_size = dbg_state.call_history_size
               /\ dbg.call_history = SubSeq(h, 1, Len(h) - 2 - h[Len(h) - 1])
<1> DEFINE h == dbg_state.call_history
           g == SubSeq(h, 1, Len(h) - 2 - h[Len(h) - 1])
<1>1. remove_last_func_call = [dbg_state EXCEPT !.call_history = g]
  BY DEF remove_last_func_call
<1> HIDE DEF g
<1> QED
  BY <1>1 DEF IsDebugger, g

LEMMA RecordedIs ==
    ASSUME NEW refused
    PROVE  /\ Op = OP_INVOKEVIRTUAL => Recorded(refused) = store_func_call(refused)
           /\ Op = OP_IRETURN => Recorded(refused) = remove_last_func_call
           /\ Op \notin {OP_INVOKEVIRTUAL, OP_IRETURN} => Recorded(refused) = dbg_state
<1>1. OP_INVOKEVIRTUAL # OP_IRETURN
  BY DEF OP_INVOKEVIRTUAL, OP_IRETURN
<1> QED
  BY <1>1 DEF Recorded

(* Whatever is looked at, only what the debugger knows of calls changes.   *)
LEMMA RecordedBreakpoints ==
    ASSUME IsDebugger(dbg_state), NEW refused
    PROVE  Recorded(refused).brkpts = dbg_state.brkpts
<1>1. \A h, size, room :
         /\ [dbg_state EXCEPT !.call_history = h, !.call_history_size = size,
                              !.allocated = room].brkpts = dbg_state.brkpts
         /\ [dbg_state EXCEPT !.quit_flag = TRUE, !.call_history_size = size].brkpts
               = dbg_state.brkpts
         /\ [dbg_state EXCEPT !.call_history = h].brkpts = dbg_state.brkpts
  BY DEF IsDebugger
<1>2. store_func_call(refused).brkpts = dbg_state.brkpts
  BY <1>1 DEF store_func_call
<1>3. remove_last_func_call.brkpts = dbg_state.brkpts
  BY <1>1 DEF remove_last_func_call
<1> QED
  BY <1>2, <1>3, RecordedIs

LEMMA RecordedFacts ==
    ASSUME IsDebugger(dbg_state), NEW refused \in BOOLEAN
    PROVE  LET dbg == Recorded(refused)
           IN  /\ IsDebugger(dbg) /\ dbg.prog_state = dbg_state.prog_state
               /\ ~dbg.quit_flag => ~dbg_state.quit_flag
<1>1. Recorded(refused) \in {store_func_call(refused), remove_last_func_call, dbg_state}
  BY RecordedIs
<1>2. CASE Recorded(refused) = store_func_call(refused)
  BY <1>2, StoreFacts
<1>3. CASE Recorded(refused) = remove_last_func_call
  BY <1>3, RemoveFacts
<1>4. CASE Recorded(refused) = dbg_state
  BY <1>4
<1> QED
  BY <1>1, <1>2, <1>3, <1>4

-----------------------------------------------------------------------------
(* The history follows the calls                                           *)

(* The latest calls of the history are as many as the frames, and lie      *)
(* above the first lower ones.                                             *)
EndsAbove(fs, lower) ==
    /\ lower \in Nat /\ lower >= 1 /\ Len(fs) = lower + Len(frames)
    /\ fs[1] = OfMain
    /\ \A i \in 1 .. Len(frames) :
          /\ fs[lower + i].entry = frames[i].entry
          /\ fs[lower + i].args = frames[i].args
    /\ ~restarted => lower = 1

LEMMA EndsAboveSome ==
    ASSUME NEW fs
    PROVE  EndsWithFrames(fs) <=> \E lower : EndsAbove(fs, lower)
BY DEF EndsWithFrames, EndsAbove

LEMMA FrontFacts ==
    ASSUME NEW S, NEW s \in Seq(S), s # <<>>
    PROVE  /\ Front(s) \in Seq(S) /\ Len(Front(s)) = Len(s) - 1
           /\ \A i \in 1 .. Len(s) - 1 : Front(s)[i] = s[i]
<1> DEFINE n == Len(s)
           e == n - 1
<1>1. n \in Nat /\ n >= 1 /\ e \in Nat /\ e <= n
  BY LenProperties, EmptySeq
<1>2. \A i \in 1 .. n : s[i] \in S
  BY ElementOfSeq
<1>3. Front(s) = SubSeq(s, 1, e)
  BY DEF Front
<1> HIDE DEF e
<1>4. \A i \in 1 .. e : s[i] \in S
  BY <1>1, <1>2
<1>5. Front(s) \in Seq(S) /\ Len(Front(s)) = e /\ \A i \in 1 .. e : Front(s)[i] = s[i]
  BY <1>1, <1>3, <1>4, SubSeqProperties
<1> QED
  BY <1>5 DEF e

LEMMA EndsAppend ==
    ASSUME NEW fs \in Seq(Seen), EndsWithFrames(fs), frames \in Seq(Frame),
           NEW f \in Frame, frames' = Append(frames, f), restarted' = restarted,
           NEW g \in Seen, g.entry = f.entry, g.args = f.args
    PROVE  EndsWithFrames(Append(fs, g))'
<1>1. PICK lower : EndsAbove(fs, lower)
  BY EndsAboveSome
<1> DEFINE d == Len(frames)
           m == Len(fs)
           gs == Append(fs, g)
<1>2. lower \in Nat /\ lower >= 1 /\ d \in Nat /\ m \in Nat /\ m = lower + d
  BY <1>1, LenProperties DEF EndsAbove
<1>3. Len(frames') = d + 1 /\ frames'[d + 1] = f /\ \A i \in 1 .. d : frames'[i] = frames[i]
  BY AppendProperties
<1>4. Len(gs) = m + 1 /\ gs[m + 1] = g /\ \A i \in 1 .. m : gs[i] = fs[i]
  BY AppendProperties
<1>5. \A i \in 1 .. d : fs[lower + i].entry = frames[i].entry /\ fs[lower + i].args = frames[i].args
  BY <1>1 DEF EndsAbove
<1>6. fs[1] = OfMain /\ (~restarted => lower = 1)
  BY <1>1 DEF EndsAbove
<1> HIDE DEF d, m, gs
<1>7. gs[1] = OfMain
  <2>1. 1 \in 1 .. m
    BY <1>2
  <2> QED
    BY <1>4, <1>6, <2>1
<1>8. ASSUME NEW i \in 1 .. d + 1
      PROVE  gs[lower + i].entry = frames'[i].entry /\ gs[lower + i].args = frames'[i].args
  <2>1. CASE i = d + 1
    <3>1. lower + i = m + 1
      BY <1>2, <2>1
    <3> QED
      BY <1>3, <1>4, <2>1, <3>1
  <2>2. CASE i # d + 1
    <3>1. i \in 1 .. d /\ lower + i \in 1 .. m
      BY <1>2, <2>2
    <3> QED
      BY <1>3, <1>4, <1>5, <3>1
  <2> QED
    BY <2>1, <2>2
<1>9. Len(gs) = lower + Len(frames')
  BY <1>2, <1>3, <1>4
<1>10. EndsWithFrames(gs)'
  BY <1>2, <1>3, <1>6, <1>7, <1>8, <1>9 DEF EndsWithFrames
<1> QED
  BY <1>10 DEF gs

LEMMA EndsFront ==
    ASSUME NEW fs \in Seq(Seen), EndsWithFrames(fs), frames \in Seq(Frame),
           frames # <<>>, frames' = Front(frames), restarted' = restarted
    PROVE  fs # <<>> /\ Front(fs) \in Seq(Seen) /\ EndsWithFrames(Front(fs))'
<1>1. PICK lower : EndsAbove(fs, lower)
  BY EndsAboveSome
<1> DEFINE d == Len(frames)
           m == Len(fs)
           gs == Front(fs)
<1>2. /\ lower \in Nat /\ lower >= 1 /\ d \in Nat /\ d >= 1 /\ m \in Nat /\ m = lower + d
  BY <1>1, LenProperties, EmptySeq DEF EndsAbove
<1>3. fs # <<>>
  BY <1>2, EmptySeq
<1>4. Len(frames') = d - 1 /\ \A i \in 1 .. d - 1 : frames'[i] = frames[i]
  BY FrontFacts
<1>5. gs \in Seq(Seen) /\ Len(gs) = m - 1 /\ \A i \in 1 .. m - 1 : gs[i] = fs[i]
  BY <1>3, FrontFacts
<1>6. \A i \in 1 .. d : fs[lower + i].entry = frames[i].entry /\ fs[lower + i].args = frames[i].args
  BY <1>1 DEF EndsAbove
<1>7. fs[1] = OfMain /\ (~restarted => lower = 1)
  BY <1>1 DEF EndsAbove
<1> HIDE DEF d, m, gs
<1>8. gs[1] = OfMain
  <2>1. 1 \in 1 .. m - 1
    BY <1>2
  <2> QED
    BY <1>5, <1>7, <2>1
<1>9. ASSUME NEW i \in 1 .. d - 1
      PROVE  gs[lower + i].entry = frames'[i].entry /\ gs[lower + i].args = frames'[i].args
  <2>1. i \in 1 .. d /\ lower + i \in 1 .. m - 1
    BY <1>2
  <2> QED
    BY <1>4, <1>5, <1>6, <2>1
<1>10. Len(gs) = lower + Len(frames')
  BY <1>2, <1>4, <1>5
<1>11. EndsWithFrames(gs)'
  BY <1>2, <1>4, <1>7, <1>8, <1>9, <1>10 DEF EndsWithFrames
<1> QED
  BY <1>3, <1>5, <1>11 DEF gs

(* A history that no step has touched, or one that a command keeps.        *)
LEMMA HistoryStays ==
    ASSUME HistoryHoldsCalls, dbg_state'.call_history = dbg_state.call_history,
           frames' = frames, restarted' = restarted
    PROVE  HistoryHoldsCalls'
<1> DEFINE h == dbg_state.call_history
<1>1. PICK fs \in Seq(Seen) : Records(h, fs) /\ EndsWithFrames(fs)
  BY DEF HistoryHoldsCalls
<1>2. EndsWithFrames(fs)'
  BY <1>1 DEF EndsWithFrames
<1>3. dbg_state'.call_history = h /\ h \in Seq(Int)
  BY DEF HistoryHoldsCalls
<1> HIDE DEF h
<1> QED
  BY <1>1, <1>2, <1>3 DEF HistoryHoldsCalls

LEMMA CallIsCall ==
    ASSUME IInv, cpu.pc < CodeSize, exec_op_invokevirtual, status' = "running"
    PROVE  IsCall
<1> DEFINE target == get_constant(arg_short(1))
<1>1. /\ HasArgs(2) /\ IsConstant(arg_short(1)) /\ target >= 0 /\ target + 4 <= CodeSize
      /\ CodeByte(cpu.pc) = OP_INVOKEVIRTUAL
  BY DEF exec_op_invokevirtual, DestroyNow, Fetch, Opcode
<1>2. target \in Int
  BY <1>1, CallOperands
<1>3. target \in 0 .. CodeSize - 4
  BY <1>1, <1>2, ProgramIsCode
<1> HIDE DEF target
<1> QED
  BY <1>1, <1>3 DEF IsCall, target

(* A step runs the instruction that was looked at. *)
LEMMA StepIs ==
    ASSUME cpu.pc < CodeSize, step
    PROVE  /\ Op = OP_INVOKEVIRTUAL => Call
           /\ Op = OP_IRETURN => Return
           /\ Op \notin {OP_INVOKEVIRTUAL, OP_IRETURN} => UNCHANGED frames
<1>1. Call => Op = OP_INVOKEVIRTUAL
  BY DEF Call, exec_op_invokevirtual, Fetch, Opcode, Op
<1>2. Return => Op = OP_IRETURN
  BY DEF Return, exec_op_ireturn, Fetch, Opcode, Op
<1>3. OP_INVOKEVIRTUAL # OP_IRETURN
  BY DEF OP_INVOKEVIRTUAL, OP_IRETURN
<1> QED
  BY <1>1, <1>2, <1>3 DEF step

LEMMA HistoryCalls ==
    ASSUME CInv, status = "running", TakesItsOwn, cpu.pc < CodeSize,
           Call, status' = "running", HistoryHoldsCalls, restarted' = restarted,
           dbg_state'.call_history =
              dbg_state.call_history
                 \o CallRecord(TopWords(Arguments), get_constant(arg_short(1)))
    PROVE  HistoryHoldsCalls'
<1> DEFINE h == dbg_state.call_history
           args == TopWords(Arguments)
           entry == get_constant(arg_short(1))
           new == [lv |-> cpu.lv, nv |-> cpu.nv, fp |-> cpu.fp, pc |-> cpu.pc + 3,
                   entry |-> entry, args |-> args]
<1>1. IInv /\ frames \in Seq(Frame) /\ Apart
  BY DEF CInv
<1>2. IsCall
  BY <1>1, CallIsCall DEF Call
<1>3. entry \in Int /\ args \in Seq(Word)
  BY <1>1, <1>2, CallArguments
<1>4. frames' = Append(frames, new)
  BY DEF Call
<1>5. /\ cpu.lv \in Nat /\ cpu.nv \in Nat /\ cpu.fp \in Nat /\ cpu.pc + 3 \in Nat
  BY <1>1, StackFacts
<1>6. PICK fs \in Seq(Seen) : Records(h, fs) /\ EndsWithFrames(fs)
  BY DEF HistoryHoldsCalls
<1>7. h \in Seq(Int) /\ dbg_state'.call_history = h \o CallRecord(args, entry)
  BY DEF HistoryHoldsCalls
<1> HIDE DEF h, args, entry
<1>8. PICK f \in Frame : f = new
  BY <1>3, <1>5 DEF Frame
<1>9. PICK g \in Seen : g.entry = entry /\ g.args = args
  <2>1. [entry |-> entry, args |-> args] \in Seen
    BY <1>3 DEF Seen
  <2> QED
    BY <2>1
<1>10. f.entry = entry /\ f.args = args
  BY <1>8
<1> HIDE DEF new
<1>11. Records(h \o CallRecord(args, entry), Append(fs, g))
  BY <1>6, <1>7, <1>9, RecordsGrow
<1>12. EndsWithFrames(Append(fs, g))' /\ Append(fs, g) \in Seq(Seen)
  BY <1>1, <1>4, <1>6, <1>8, <1>9, <1>10, EndsAppend, AppendProperties
<1>13. h \o CallRecord(args, entry) \in Seq(Int)
  <2>1. CallRecord(args, entry) \in Seq(Int)
    BY <1>3, RecordIs
  <2> QED
    BY <1>7, <2>1, ConcatProperties
<1> QED
  BY <1>7, <1>11, <1>12, <1>13 DEF HistoryHoldsCalls

LEMMA HistoryReturns ==
    ASSUME frames \in Seq(Frame), frames # <<>>, frames' = Front(frames),
           HistoryHoldsCalls, restarted' = restarted,
           dbg_state'.call_history = remove_last_func_call.call_history,
           IsDebugger(dbg_state)
    PROVE  HistoryHoldsCalls'
<1> DEFINE h == dbg_state.call_history
           left == Len(h) - 2 - h[Len(h) - 1]
           g == SubSeq(h, 1, left)
<1>1. PICK fs \in Seq(Seen) : Records(h, fs) /\ EndsWithFrames(fs)
  BY DEF HistoryHoldsCalls
<1>2. h \in Seq(Int)
  BY DEF HistoryHoldsCalls
<1>3. dbg_state'.call_history = g
  BY RemoveFacts
<1> HIDE DEF h
<1>4. /\ fs # <<>> /\ Front(fs) \in Seq(Seen) /\ EndsWithFrames(Front(fs))'
  BY <1>1, EndsFront
<1>5. g \in Seq(Int) /\ Records(g, Front(fs))
  BY <1>1, <1>2, <1>4, RecordsShrink
<1> HIDE DEF g
<1> QED
  BY <1>3, <1>4, <1>5 DEF HistoryHoldsCalls

(* The step and the look at it keep the history. *)
LEMMA HistoryFollows ==
    ASSUME CInv, status = "running", TakesItsOwn, cpu.pc < CodeSize, step,
           status' = "running", HistoryHoldsCalls, restarted' = restarted,
           IsDebugger(dbg_state), NEW refused \in BOOLEAN,
           ~Recorded(refused).quit_flag,
           dbg_state'.call_history = Recorded(refused).call_history
    PROVE  HistoryHoldsCalls'
<1>1. CASE Op = OP_INVOKEVIRTUAL
  <2>1. Call /\ Recorded(refused) = store_func_call(refused)
    BY <1>1, StepIs, RecordedIs
  <2> QED
    BY <2>1, StoreFacts, HistoryCalls
<1>2. CASE Op = OP_IRETURN
  <2>1. Return /\ Recorded(refused) = remove_last_func_call
    BY <1>2, StepIs, RecordedIs
  <2>2. frames # <<>> /\ frames' = Front(frames) /\ frames \in Seq(Frame)
    BY <1>2, <2>1 DEF TakesItsOwn, Op, Return, CInv
  <2> QED
    BY <2>1, <2>2, HistoryReturns
<1>3. CASE Op \notin {OP_INVOKEVIRTUAL, OP_IRETURN}
  <2>1. frames' = frames /\ Recorded(refused) = dbg_state
    BY <1>3, StepIs, RecordedIs
  <2> QED
    BY <2>1, HistoryStays
<1> QED
  BY <1>1, <1>2, <1>3

(* What is recorded has its place. *)
LEMMA RecordedFits ==
    ASSUME CInv, status = "running", TakesItsOwn, cpu.pc < CodeSize,
           IsDebugger(dbg_state), HistoryFits, HistoryHoldsCalls,
           Op = OP_INVOKEVIRTUAL => IsCall,
           Op = OP_IRETURN => frames # <<>>,
           NEW refused \in BOOLEAN
    PROVE  /\ Len(dbg_state.call_history) >= 2
           /\ Len(Recorded(refused).call_history) <= Recorded(refused).allocated
           /\ ~Recorded(refused).quit_flag =>
                 /\ Recorded(refused).allocated \in Nat
                 /\ Recorded(refused).call_history_size = Recorded(refused).allocated
<1> DEFINE h == dbg_state.call_history
           n == Len(h)
<1>1. /\ h \in Seq(Int) /\ n \in Nat
      /\ dbg_state.allocated \in Nat /\ n <= dbg_state.allocated
      /\ dbg_state.call_history_size = dbg_state.allocated
  BY LenProperties DEF HistoryFits, HistoryHoldsCalls
<1>2. PICK fs \in Seq(Seen) : Records(h, fs) /\ EndsWithFrames(fs)
  BY DEF HistoryHoldsCalls
<1>3. n >= 2
  <2>1. PICK lower : EndsAbove(fs, lower)
    BY <1>2, EndsAboveSome
  <2>2. Len(frames) \in Nat
    BY LenProperties DEF CInv
  <2>3. Len(fs) >= 1
    BY <2>1, <2>2 DEF EndsAbove
  <2> QED
    BY <1>1, <1>2, <2>3, RecordsLong
<1>4. CASE Op = OP_INVOKEVIRTUAL
  <2> DEFINE args == TopWords(Arguments)
             entry == get_constant(arg_short(1))
             c == CallRecord(args, entry)
             needed == n + RecordSize(Arguments)
             grows == needed > dbg_state.call_history_size
             size == IF grows THEN needed + HISTORY_MARGIN ELSE dbg_state.call_history_size
             room == IF grows THEN size ELSE dbg_state.allocated
             stored == [dbg_state EXCEPT !.call_history = h \o c, !.call_history_size = size,
                                         !.allocated = room]
             lost == [dbg_state EXCEPT !.quit_flag = TRUE, !.call_history_size = size]
  <2>1. /\ Arguments \in Nat /\ entry \in Int /\ args \in Seq(Word) /\ Len(args) = Arguments
    BY <1>4, CallArguments DEF CInv
  <2>2. c \in Seq(Int) /\ Len(c) = Arguments + 2
    BY <2>1, RecordIs
  <2>3. Recorded(refused) = IF grows /\ refused THEN lost ELSE stored
    BY <1>4, RecordedIs DEF store_func_call
  <2> HIDE DEF c, args, entry
  <2>4. Len(h \o c) = n + Arguments + 2
    <3> HIDE DEF h
    <3>1. Len(h \o c) = Len(h) + Len(c)
      BY <1>1, <2>2, ConcatProperties
    <3> QED
      BY <1>1, <2>1, <2>2, <3>1
  <2>5. needed = n + Arguments + 2
    <3> HIDE DEF n
    <3>1. n \in Nat /\ Arguments \in Nat
      BY <1>1, <2>1
    <3> QED
      BY <3>1 DEF RecordSize
  <2>6. HISTORY_MARGIN \in Nat
    BY DebuggerAssumption
  <2> DEFINE g == h \o c
  <2> HIDE DEF g, h, n, needed
  <2>7. Len(g) <= room /\ size = room /\ room \in Nat
    BY <1>1, <2>1, <2>4, <2>5, <2>6 DEF g, h
  <2> HIDE DEF grows, size, room
  <2>8. /\ lost.call_history = h /\ lost.allocated = dbg_state.allocated
        /\ lost.quit_flag = TRUE
    BY DEF IsDebugger, h
  <2>9. /\ stored.call_history = g /\ stored.allocated = room
        /\ stored.call_history_size = size
    BY DEF IsDebugger, g
  <2> HIDE DEF lost, stored
  <2> QED
    BY <1>1, <1>3, <2>3, <2>7, <2>8, <2>9 DEF n, h
<1>5. CASE Op = OP_IRETURN
  <2> DEFINE left == n - 2 - h[n - 1]
             g == SubSeq(h, 1, left)
  <2>1. /\ fs # <<>>
    <3>1. PICK lower : EndsAbove(fs, lower)
      BY <1>2, EndsAboveSome
    <3>2. Len(frames) \in Nat
      BY LenProperties DEF CInv
    <3>3. Len(fs) # 0
      BY <3>1, <3>2 DEF EndsAbove
    <3> QED
      BY <3>3
  <2>2. left \in Nat /\ left <= n /\ Len(g) = left
    <3> HIDE DEF h
    <3> QED
      BY <1>1, <1>2, <2>1, RecordsShrink
  <2>3. /\ Recorded(refused).call_history = g
        /\ Recorded(refused).allocated = dbg_state.allocated
        /\ Recorded(refused).call_history_size = dbg_state.call_history_size
    BY <1>5, RecordedIs, RemoveFacts
  <2> HIDE DEF g, left, n
  <2> QED
    BY <1>1, <1>3, <2>2, <2>3 DEF n
<1>6. CASE Op \notin {OP_INVOKEVIRTUAL, OP_IRETURN}
  <2>1. Recorded(refused) = dbg_state
    BY <1>6, RecordedIs
  <2> QED
    BY <1>1, <1>3, <2>1
<1> QED
  BY <1>4, <1>5, <1>6

-----------------------------------------------------------------------------
(* Commands                                                                *)

(* What a command leaves alone, if it leaves the machine alone.            *)
LEMMA MachineStays ==
    ASSUME Working, UNCHANGED machine_vars
    PROVE  /\ CInv' /\ status' = "running" /\ frames' = frames /\ program' = program
           /\ next_op_wide' = next_op_wide /\ (finished' <=> finished)
           /\ (NoPrefixedCalls' <=> NoPrefixedCalls) /\ PrefixIsWide'
<1>1. UNCHANGED cvars
  BY DEF machine_vars, cvars
<1>2. CInv'
  BY <1>1, NextCInv DEF Working
<1>3. /\ frames' = frames /\ program' = program /\ cpu' = cpu
      /\ next_op_wide' = next_op_wide /\ status' = status
  BY DEF machine_vars, vars
<1>4. (finished' <=> finished) /\ (NoPrefixedCalls' <=> NoPrefixedCalls)
  BY <1>3 DEF finished, NoPrefixedCalls, CodeSize
<1>5. PrefixIsWide'
  BY <1>3 DEF Working, PrefixIsWide, CodeSize, CodeByte
<1> QED
  BY <1>2, <1>3, <1>4, <1>5 DEF Working

LEMMA FreshDebugger ==
    ASSUME NEW state \in {"EMPTY", "LOADED"}
    PROVE  LET dbg == [init_debugger EXCEPT !.prog_state = state]
           IN  /\ IsDebugger(dbg) /\ dbg.prog_state = state /\ dbg.quit_flag = FALSE
               /\ dbg.call_history = <<0, 0>>
               /\ dbg.call_history_size = 2 /\ dbg.allocated = 2
BY DEF init_debugger, IsDebugger

LEMMA InitDInv == DInit => DInv
<1> SUFFICES ASSUME DInit PROVE DInv
  OBVIOUS
<1>1. CInv /\ status = "running" /\ next_op_wide = FALSE
  BY InitCInv DEF DInit, CInit, Init
<1>2. mode = "prompt" /\ dbg_state = init_debugger
  BY DEF DInit
<1>3. init_debugger = [init_debugger EXCEPT !.prog_state = "EMPTY"]
  BY DEF init_debugger
<1>4. /\ IsDebugger(dbg_state) /\ dbg_state.prog_state = "EMPTY"
      /\ dbg_state.quit_flag = FALSE
  BY <1>2, <1>3, FreshDebugger
<1>5. KnowsFinished
  BY <1>1, <1>2, <1>4 DEF KnowsFinished, Commanded
<1>6. PrefixIsWide /\ Follows
  BY <1>1, <1>2, <1>4 DEF PrefixIsWide, Follows
<1> QED
  BY <1>1, <1>2, <1>4, <1>5, <1>6 DEF DInv, Working

(* A debugger that has left. *)
LEMMA GoneDInv == ASSUME mode' \in {"gone", "broken"} PROVE DInv'
BY DEF DInv

(* A command that leaves the machine alone.                                *)
LEMMA QuietDInv ==
    ASSUME Working, mode = "prompt", UNCHANGED machine_vars,
           mode' \in {"prompt", "stepping", "resumed"},
           IsDebugger(dbg_state'), ~dbg_state'.quit_flag,
           Commanded' => dbg_state'.prog_state = "STARTED",
           \/ dbg_state'.prog_state = "EMPTY"
           \/ /\ \/ dbg_state'.prog_state = dbg_state.prog_state
                 \/ dbg_state.prog_state = "LOADED" /\ dbg_state'.prog_state = "STARTED"
              /\ dbg_state'.call_history = dbg_state.call_history
              /\ dbg_state'.call_history_size = dbg_state.call_history_size
              /\ dbg_state'.allocated = dbg_state.allocated
              /\ restarted' = restarted
    PROVE  DInv'
<1>1. /\ CInv' /\ status' = "running" /\ frames' = frames /\ program' = program
      /\ next_op_wide' = next_op_wide /\ (finished' <=> finished)
      /\ (NoPrefixedCalls' <=> NoPrefixedCalls) /\ PrefixIsWide'
  BY MachineStays
<1>2. ~next_op_wide /\ ~dbg_state.quit_flag
  BY DEF Working, KnowsFinished
<1>3. KnowsFinished'
  BY <1>1, <1>2 DEF Working, KnowsFinished
<1>4. ASSUME dbg_state'.prog_state = "EMPTY" PROVE Follows'
  BY <1>4 DEF Follows
<1>5. ASSUME dbg_state'.prog_state # "EMPTY" PROVE Follows'
  <2>1. dbg_state.prog_state # "EMPTY"
    BY <1>5
  <2>2. NoPrefixedCalls' => HistoryFits /\ HistoryHoldsCalls
    BY <1>1, <1>2, <2>1 DEF Working, Follows
  <2>3. HistoryFits => HistoryFits'
    BY <1>5 DEF HistoryFits
  <2>4. HistoryHoldsCalls => HistoryHoldsCalls'
    BY <1>1, <1>5, HistoryStays
  <2> QED
    BY <2>2, <2>3, <2>4 DEF Follows
<1>6. Follows'
  BY <1>4, <1>5
<1>7. IsDebugger(dbg_state)'
  OBVIOUS
<1>8. Working'
  BY <1>1, <1>3, <1>6, <1>7 DEF Working
<1> QED
  BY <1>7, <1>8 DEF DInv

LEMMA FailedDInv == ASSUME Working, mode = "prompt", LoadFails PROVE DInv'
<1>1. /\ UNCHANGED machine_vars /\ dbg_state' = init_debugger /\ mode' = "prompt"
  BY DEF LoadFails
<1>2. init_debugger = [init_debugger EXCEPT !.prog_state = "EMPTY"]
  BY DEF init_debugger
<1>3. /\ IsDebugger(init_debugger) /\ init_debugger.prog_state = "EMPTY"
      /\ init_debugger.quit_flag = FALSE
  BY <1>2, FreshDebugger
<1>4. ~Commanded'
  BY <1>1 DEF Commanded
<1> QED
  BY <1>1, <1>3, <1>4, QuietDInv

(* A program that was loaded, or restarted.                                *)
LEMMA LoadedDInv ==
    ASSUME Working, NEW p \in Programs, NEW dbg, NEW next_mode,
           LoadWorks(p, dbg, next_mode), next_mode \in {"prompt", "resumed"},
           IsDebugger(dbg), ~dbg.quit_flag,
           dbg.prog_state \in {"LOADED", "STARTED"},
           next_mode = "resumed" => dbg.prog_state = "STARTED",
           (NoPrefixedCalls' /\ frames' = <<>>
                => (HistoryFits /\ HistoryHoldsCalls)')
    PROVE  DInv'
<1>1. /\ CInv' /\ status' = "running" /\ program' = p /\ frames' = <<>>
      /\ ~next_op_wide' /\ (p.code # <<>> => ~finished')
  BY FreshLoad DEF Working, CInv
<1>2. dbg_state' = dbg /\ mode' = next_mode
  BY DEF LoadWorks
<1>3. KnowsFinished'
  BY <1>1, <1>2 DEF KnowsFinished, Commanded
<1>4. PrefixIsWide' /\ Follows'
  BY <1>1, <1>2 DEF PrefixIsWide, Follows
<1> QED
  BY <1>1, <1>2, <1>3, <1>4 DEF DInv, Working

(* The history of a program that was loaded holds main.                    *)
LEMMA FreshHistory ==
    ASSUME dbg_state'.call_history = <<0, 0>>, dbg_state'.call_history_size = 2,
           dbg_state'.allocated = 2, frames' = <<>>
    PROVE  (HistoryFits /\ HistoryHoldsCalls)'
<1>1. HistoryFits'
  BY DEF HistoryFits
<1> DEFINE fs == <<OfMain>>
<1>2. Len(fs) = 1 /\ fs[1] = OfMain
  OBVIOUS
<1>3. Len(frames') = 0
  BY EmptySeq
<1> HIDE DEF fs
<1>4. EndsWithFrames(fs)'
  <2>1. 1 \in Nat /\ 1 >= 1 /\ 1 = 1 + 0
    OBVIOUS
  <2>2. \A i \in 1 .. 0 : FALSE
    OBVIOUS
  <2> QED
    BY <1>2, <1>3, <2>1, <2>2 DEF EndsWithFrames
<1>5. HistoryHoldsCalls'
  BY <1>4, RecordOfMain DEF HistoryHoldsCalls, fs
<1> QED
  BY <1>1, <1>5

(* The history that a restart keeps: all of its calls are old ones.        *)
LEMMA RestartedHistory ==
    ASSUME HistoryFits, HistoryHoldsCalls, frames \in Seq(Frame),
           frames' = <<>>, restarted' = TRUE,
           dbg_state'.call_history = dbg_state.call_history,
           dbg_state'.call_history_size = dbg_state.call_history_size,
           dbg_state'.allocated = dbg_state.allocated
    PROVE  (HistoryFits /\ HistoryHoldsCalls)'
<1> DEFINE h == dbg_state.call_history
<1>1. HistoryFits'
  BY DEF HistoryFits
<1>2. PICK fs \in Seq(Seen) : Records(h, fs) /\ EndsWithFrames(fs)
  BY DEF HistoryHoldsCalls
<1>3. PICK lower : EndsAbove(fs, lower)
  BY <1>2, EndsAboveSome
<1>4. Len(frames) \in Nat /\ Len(frames') = 0
  BY LenProperties, EmptySeq
<1>5. Len(fs) \in Nat /\ Len(fs) >= 1 /\ fs[1] = OfMain
  BY <1>3, <1>4 DEF EndsAbove
<1>6. EndsWithFrames(fs)'
  <2>1. Len(fs) = Len(fs) + 0
    BY <1>5
  <2>2. \A i \in 1 .. 0 : FALSE
    OBVIOUS
  <2> QED
    BY <1>4, <1>5, <2>1, <2>2 DEF EndsWithFrames
<1>7. h \in Seq(Int) /\ dbg_state'.call_history = h
  BY DEF HistoryHoldsCalls
<1> HIDE DEF h
<1>8. HistoryHoldsCalls'
  BY <1>2, <1>6, <1>7 DEF HistoryHoldsCalls
<1> QED
  BY <1>1, <1>8
(* A restarted debugger. *)
LEMMA RestartedIs ==
    ASSUME IsDebugger(dbg_state)
    PROVE  /\ IsDebugger(Restarted) /\ Restarted.prog_state = "STARTED"
           /\ Restarted.quit_flag = dbg_state.quit_flag
           /\ Restarted.call_history = dbg_state.call_history
           /\ Restarted.call_history_size = dbg_state.call_history_size
           /\ Restarted.allocated = dbg_state.allocated
BY DEF Restarted, IsDebugger

LEMMA FileDInv == ASSUME Working, exec_file PROVE DInv'
<1> DEFINE fresh == [init_debugger EXCEPT !.prog_state = "LOADED"]
<1>1. mode = "prompt"
  BY DEF exec_file
<1>2. PICK p \in Programs : LoadFile(p, fresh, "prompt")
  BY DEF exec_file
<1>3. /\ IsDebugger(fresh) /\ fresh.prog_state = "LOADED" /\ fresh.quit_flag = FALSE
      /\ fresh.call_history = <<0, 0>> /\ fresh.call_history_size = 2 /\ fresh.allocated = 2
  BY FreshDebugger
<1> HIDE DEF fresh
<1>4. ASSUME LoadWorks(p, fresh, "prompt") PROVE DInv'
  <2>1. dbg_state' = fresh
    BY <1>4 DEF LoadWorks
  <2>2. frames' = <<>> => (HistoryFits /\ HistoryHoldsCalls)'
    BY <1>3, <2>1, FreshHistory
  <2> QED
    BY <1>3, <1>4, <2>2, LoadedDInv
<1>5. LoadFails => DInv'
  BY <1>1, FailedDInv
<1>6. Breaks \/ ScanExits(p) => DInv'
  BY GoneDInv DEF Breaks, ScanExits, Exits
<1> QED
  BY <1>2, <1>4, <1>5, <1>6 DEF LoadFile

LEMMA StartDInv ==
    ASSUME Working, NEW next_mode \in {"prompt", "resumed"}, Start(next_mode)
    PROVE  DInv'
<1>1. mode = "prompt" /\ ~dbg_state.quit_flag /\ IsDebugger(dbg_state)
  BY DEF Start, Working, KnowsFinished
<1>2. program \in Programs
  BY DEF Working, CInv, IInv, TypeOK
<1>3. PICK dbg : dbg = Restarted
  OBVIOUS
<1>4. /\ IsDebugger(dbg) /\ dbg.prog_state = "STARTED" /\ ~dbg.quit_flag
      /\ dbg.call_history = dbg_state.call_history
      /\ dbg.call_history_size = dbg_state.call_history_size
      /\ dbg.allocated = dbg_state.allocated
  BY <1>1, <1>3, RestartedIs
<1>5. ASSUME Stopped, LoadWorks(program, dbg, next_mode) PROVE DInv'
  <2>1. PICK p \in Programs : p = program
    BY <1>2
  <2>2. /\ dbg_state' = dbg /\ program' = program /\ restarted' = TRUE
    BY <1>4, <1>5 DEF LoadWorks
  <2>3. NoPrefixedCalls' <=> NoPrefixedCalls
    BY <2>2 DEF NoPrefixedCalls, CodeSize
  <2>4. NoPrefixedCalls => HistoryFits /\ HistoryHoldsCalls
    BY <1>1, <1>5 DEF Stopped, Working, Follows
  <2>5. frames \in Seq(Frame)
    BY DEF Working, CInv
  <2>6. NoPrefixedCalls' /\ frames' = <<>> => (HistoryFits /\ HistoryHoldsCalls)'
    BY <1>4, <2>2, <2>3, <2>4, <2>5, RestartedHistory
  <2>7. LoadWorks(p, dbg, next_mode)
    BY <1>5, <2>1
  <2> QED
    BY <1>4, <2>6, <2>7, LoadedDInv
<1>6. LoadFails => DInv'
  BY <1>1, FailedDInv
<1>7. Breaks \/ ScanExits(program) => DInv'
  BY GoneDInv DEF Breaks, ScanExits, Exits
<1>8. ASSUME dbg_state.prog_state = "LOADED", dbg_state' = dbg, mode' = next_mode,
             UNCHANGED <<machine_vars, memory, restarted, loads>>
      PROVE  DInv'
  <2>1. mode' \in {"prompt", "stepping", "resumed"}
    BY <1>8
  <2>2. UNCHANGED machine_vars /\ restarted' = restarted
    BY <1>8
  <2> QED
    BY <1>1, <1>4, <1>8, <2>1, <2>2, QuietDInv
<1> QED
  BY <1>3, <1>5, <1>6, <1>7, <1>8 DEF Start, LoadFile

LEMMA ResumeDInv ==
    ASSUME Working, NEW next_mode \in {"stepping", "resumed"}, Resume(next_mode)
    PROVE  DInv'
<1>1. /\ mode = "prompt" /\ mode' = next_mode /\ UNCHANGED machine_vars
      /\ dbg_state' = dbg_state /\ dbg_state.prog_state = "STARTED"
      /\ restarted' = restarted
  BY DEF Resume
<1>2. ~dbg_state.quit_flag /\ IsDebugger(dbg_state)
  BY <1>1 DEF Working, KnowsFinished
<1> QED
  BY <1>1, <1>2, QuietDInv

LEMMA BreakDInv == ASSUME Working, exec_break PROVE DInv'
<1>1. mode = "prompt" /\ UNCHANGED machine_vars /\ restarted' = restarted
  BY DEF exec_break
<1>2. ~dbg_state.quit_flag /\ IsDebugger(dbg_state)
  BY <1>1 DEF Working, KnowsFinished
<1>3. ASSUME NEW a \in Addresses, mode' = mode,
             dbg_state' = [dbg_state EXCEPT !.brkpts = Append(@, a)]
      PROVE  DInv'
  <2>1. /\ IsDebugger(dbg_state') /\ ~dbg_state'.quit_flag
        /\ dbg_state'.prog_state = dbg_state.prog_state
        /\ dbg_state'.call_history = dbg_state.call_history
        /\ dbg_state'.call_history_size = dbg_state.call_history_size
        /\ dbg_state'.allocated = dbg_state.allocated
    BY <1>2, <1>3 DEF IsDebugger
  <2>2. ~Commanded' /\ mode' = "prompt"
    BY <1>1, <1>3 DEF Commanded
  <2> QED
    BY <1>1, <2>1, <2>2, QuietDInv
<1>4. mode' = "gone" => DInv'
  BY GoneDInv
<1> QED
  BY <1>3, <1>4 DEF exec_break

LEMMA CommandDInv == ASSUME Working, Command PROVE DInv'
<1>1. exec_start \/ exec_run => DInv'
  BY StartDInv DEF exec_start, exec_run
<1>2. exec_step \/ exec_continue => DInv'
  BY ResumeDInv DEF exec_step, exec_continue
<1>3. exec_quit => DInv'
  BY GoneDInv DEF exec_quit, Breaks
<1> QED
  BY <1>1, <1>2, <1>3, FileDInv, BreakDInv DEF Command
-----------------------------------------------------------------------------
(* Steps                                                                   *)

(* What dbg_run leaves of what was recorded. *)
LEMMA AfterFacts ==
    ASSUME NEW dbg, IsDebugger(dbg), AfterStep(dbg)
    PROVE  /\ IsDebugger(dbg_state') /\ dbg_state'.quit_flag = dbg.quit_flag
           /\ dbg_state'.call_history = dbg.call_history
           /\ dbg_state'.call_history_size = dbg.call_history_size
           /\ dbg_state'.allocated = dbg.allocated
<1>1. dbg_state' = dbg \/ dbg_state' = [dbg EXCEPT !.prog_state = "FINISHED"]
  BY DEF AfterStep, EndState
<1> QED
  BY <1>1 DEF IsDebugger

LEMMA AfterDInv ==
    ASSUME Commanded, CInv', NEW dbg, IsDebugger(dbg), dbg.prog_state = "STARTED",
           AfterStep(dbg),
           status' = "running" /\ next_op_wide' => PrefixIsWide',
           status' = "running" /\ NoPrefixedCalls' /\ ~dbg_state'.quit_flag
              => (HistoryFits /\ HistoryHoldsCalls)'
    PROVE  DInv'
<1>1. /\ IsDebugger(dbg_state') /\ dbg_state'.quit_flag = dbg.quit_flag
  BY AfterFacts
<1>2. CASE status' # "running"
  BY <1>2, GoneDInv DEF AfterStep
<1>3. CASE status' = "running"
  <2>1. PrefixIsWide'
    BY <1>3 DEF PrefixIsWide
  <2>2. Follows'
    BY <1>3 DEF Follows
  <2>3. CASE next_op_wide'
    <3>1. dbg_state' = dbg /\ mode' = mode
      BY <1>3, <2>3 DEF AfterStep
    <3>2. KnowsFinished'
      BY <2>3, <3>1 DEF Commanded, KnowsFinished
    <3> QED
      BY <1>1, <1>3, <2>1, <2>2, <3>1, <3>2 DEF DInv, Working, Commanded
  <2>6. CASE ~next_op_wide' /\ ReadsBehind(dbg)
    BY <1>3, <2>6, GoneDInv DEF AfterStep
  <2>4. CASE /\ ~next_op_wide' /\ ~ReadsBehind(dbg)
             /\ mode = "stepping" \/ LoopEnds(dbg, cpu'.pc, finished')
    <3>1. /\ dbg_state' = EndState(dbg, finished')
          /\ mode' = IF dbg.quit_flag THEN "gone" ELSE "prompt"
      BY <1>3, <2>4 DEF AfterStep
    <3>2. CASE dbg.quit_flag
      BY <3>1, <3>2, GoneDInv
    <3>3. CASE ~dbg.quit_flag
      <4>1. mode' = "prompt"
        BY <3>1, <3>3
      <4>2. dbg_state'.prog_state = IF finished' THEN "FINISHED" ELSE "STARTED"
        BY <3>1 DEF EndState, IsDebugger
      <4>3. KnowsFinished'
        BY <1>1, <2>4, <3>3, <4>1, <4>2 DEF Commanded, KnowsFinished
      <4> QED
        BY <1>1, <1>3, <2>1, <2>2, <4>1, <4>3 DEF DInv, Working
    <3> QED
      BY <3>2, <3>3
  <2>5. CASE /\ ~next_op_wide' /\ ~ReadsBehind(dbg)
             /\ ~(mode = "stepping" \/ LoopEnds(dbg, cpu'.pc, finished'))
    <3>1. dbg_state' = dbg /\ mode' = "continuing"
      BY <1>3, <2>5 DEF AfterStep
    <3>2. ~dbg.quit_flag => ~at_breakpoint(dbg, cpu'.pc) /\ ~finished'
      BY <2>5 DEF LoopEnds
    <3>3. KnowsFinished'
      BY <3>1, <3>2 DEF Commanded, KnowsFinished
    <3> QED
      BY <1>1, <1>3, <2>1, <2>2, <3>1, <3>3 DEF DInv, Working
  <2> QED
    BY <2>3, <2>4, <2>5, <2>6
<1> QED
  BY <1>2, <1>3

(* The instruction that was looked at. *)
LEMMA LookedDInv ==
    ASSUME Working, Commanded, TakesItsOwn, cpu.pc < CodeSize, ~next_op_wide,
           NEW refused \in BOOLEAN, step, AfterStep(Recorded(refused)),
           restarted' = restarted
    PROVE  DInv'
<1>1. CInv /\ IInv /\ status = "running" /\ IsDebugger(dbg_state)
  BY DEF Working, CInv
<1>2. CInv' /\ program' = program
  BY <1>1, StepCInv
<1>3. dbg_state.prog_state = "STARTED"
  BY DEF Working, KnowsFinished
<1>4. PICK dbg : dbg = Recorded(refused)
  OBVIOUS
<1>5. /\ IsDebugger(dbg) /\ dbg.prog_state = "STARTED" /\ AfterStep(dbg)
      /\ ~dbg.quit_flag => ~dbg_state.quit_flag
  BY <1>1, <1>3, <1>4, RecordedFacts
<1>6. /\ dbg_state'.quit_flag = dbg.quit_flag
      /\ dbg_state'.call_history = dbg.call_history
      /\ dbg_state'.call_history_size = dbg.call_history_size
      /\ dbg_state'.allocated = dbg.allocated
  BY <1>5, AfterFacts
<1>7. status' = "running" /\ next_op_wide' => PrefixIsWide'
  BY <1>1, WideAdvances
<1>8. NoPrefixedCalls' <=> NoPrefixedCalls
  BY <1>2 DEF NoPrefixedCalls, CodeSize
<1>9. ASSUME status' = "running", NoPrefixedCalls', ~dbg_state'.quit_flag
      PROVE  (HistoryFits /\ HistoryHoldsCalls)'
  <2>1. HistoryFits /\ HistoryHoldsCalls /\ ~dbg.quit_flag
    BY <1>3, <1>5, <1>6, <1>8, <1>9 DEF Working, Follows
  <2>2. Op = OP_INVOKEVIRTUAL => IsCall
    BY <1>1, <1>9, StepIs, CallIsCall DEF Call
  <2>3. Op = OP_IRETURN => frames # <<>>
    BY DEF TakesItsOwn, Op
  <2>4. /\ Len(dbg.call_history) <= dbg.allocated /\ dbg.allocated \in Nat
        /\ dbg.call_history_size = dbg.allocated
    BY <1>1, <1>4, <2>1, <2>2, <2>3, RecordedFits
  <2>5. HistoryFits'
    BY <1>6, <2>4 DEF HistoryFits
  <2>6. HistoryHoldsCalls'
    BY <1>1, <1>4, <1>6, <1>9, <2>1, HistoryFollows
  <2> QED
    BY <2>5, <2>6
<1> QED
  BY <1>2, <1>5, <1>7, <1>9, AfterDInv

LEMMA StepDInv == ASSUME Working, dbg_step PROVE DInv'
<1>1. Commanded /\ TakesItsOwn /\ ~next_op_wide
  BY DEF dbg_step, Disciplined
<1>2. CASE ~CanLook \/ CallsNothing
  BY <1>2, GoneDInv DEF dbg_step, Breaks, Exits
<1>3. CASE CanLook /\ ~CallsNothing
  <2>1. PICK refused \in BOOLEAN :
           \/ step /\ AfterStep(Recorded(refused)) /\ restarted' = restarted
           \/ Breaks
    BY <1>3 DEF dbg_step
  <2>2. cpu.pc < CodeSize
    BY <1>3 DEF CanLook
  <2>3. Breaks => DInv'
    BY GoneDInv DEF Breaks
  <2> QED
    BY <1>1, <2>1, <2>2, <2>3, LookedDInv
<1> QED
  BY <1>2, <1>3

(* A prefixed instruction is not looked at; if it is no call and no return,*)
(* the history is still the one of the calls.                              *)
LEMMA PrefixedDInv == ASSUME Working, prefixed_step PROVE DInv'
<1>1. /\ Commanded /\ TakesItsOwn /\ next_op_wide /\ cpu.pc < CodeSize
      /\ step /\ AfterStep(dbg_state) /\ restarted' = restarted
  BY DEF prefixed_step, Disciplined
<1>2. CInv /\ IInv /\ status = "running" /\ IsDebugger(dbg_state)
  BY DEF Working, CInv
<1>3. CInv' /\ program' = program
  BY <1>1, <1>2, StepCInv
<1>4. PICK dbg : dbg = dbg_state
  OBVIOUS
<1>5. IsDebugger(dbg) /\ dbg.prog_state = "STARTED" /\ AfterStep(dbg)
  BY <1>1, <1>2, <1>4 DEF Working, KnowsFinished
<1>6. /\ dbg_state'.quit_flag = dbg_state.quit_flag
      /\ dbg_state'.call_history = dbg_state.call_history
      /\ dbg_state'.call_history_size = dbg_state.call_history_size
      /\ dbg_state'.allocated = dbg_state.allocated
  BY <1>4, <1>5, AfterFacts
<1>7. status' = "running" /\ next_op_wide' => PrefixIsWide'
  BY <1>1, <1>2, WideAdvances
<1>8. NoPrefixedCalls' <=> NoPrefixedCalls
  BY <1>3 DEF NoPrefixedCalls, CodeSize
<1>9. ASSUME status' = "running", NoPrefixedCalls', ~dbg_state'.quit_flag
      PROVE  (HistoryFits /\ HistoryHoldsCalls)'
  <2>1. HistoryFits /\ HistoryHoldsCalls
    BY <1>4, <1>5, <1>6, <1>8, <1>9 DEF Working, Follows
  <2>2. Op \notin {OP_INVOKEVIRTUAL, OP_IRETURN}
    <3>1. cpu.pc \in Nat /\ CodeSize \in Nat
      BY <1>2, LenProperties, ProgramIsCode DEF IInv, TypeOK
    <3>2. cpu.pc \in 1 .. CodeSize - 1 /\ cpu.pc - 1 + 1 = cpu.pc
      BY <1>1, <3>1 DEF Working, PrefixIsWide
    <3>3. program.code[cpu.pc - 1 + 1] = OP_WIDE
      BY <1>1 DEF Working, PrefixIsWide, CodeByte
    <3>4. program.code[cpu.pc] = OP_WIDE
      BY <3>2, <3>3
    <3> QED
      BY <1>8, <1>9, <3>2, <3>4 DEF NoPrefixedCalls, Op, CodeByte
  <2>3. frames' = frames
    BY <1>1, <2>2, StepIs
  <2>4. HistoryFits'
    BY <1>6, <2>1 DEF HistoryFits
  <2>5. HistoryHoldsCalls'
    BY <1>1, <1>6, <2>1, <2>3, HistoryStays
  <2> QED
    BY <2>4, <2>5
<1> QED
  BY <1>1, <1>3, <1>5, <1>7, <1>9, AfterDInv

LEMMA StutterDInv == ASSUME DInv, UNCHANGED dvars PROVE DInv'
<1>1. /\ UNCHANGED machine_vars /\ dbg_state' = dbg_state /\ mode' = mode
      /\ restarted' = restarted /\ cpu' = cpu /\ next_op_wide' = next_op_wide
  BY DEF dvars, cvars, machine_vars, vars
<1>3. ASSUME Working PROVE Working'
  <2>1. /\ CInv' /\ status' = "running" /\ frames' = frames /\ program' = program
        /\ (finished' <=> finished) /\ (NoPrefixedCalls' <=> NoPrefixedCalls)
        /\ PrefixIsWide'
    BY <1>1, <1>3, MachineStays
  <2>2. KnowsFinished'
    BY <1>1, <1>3, <2>1 DEF Working, KnowsFinished, Commanded
  <2>3. HistoryHoldsCalls => HistoryHoldsCalls'
    BY <1>1, <2>1, HistoryStays
  <2>4. Follows'
    BY <1>1, <1>3, <2>1, <2>3 DEF Working, Follows, HistoryFits
  <2>5. IsDebugger(dbg_state)'
    BY <1>1, <1>3 DEF Working
  <2> QED
    BY <1>1, <1>3, <2>1, <2>2, <2>4, <2>5 DEF Working
<1> QED
  BY <1>1, <1>3 DEF DInv

LEMMA NextDInv == DInv /\ [DNext]_dvars => DInv'
<1> SUFFICES ASSUME DInv, [DNext]_dvars PROVE DInv'
  OBVIOUS
<1>1. CASE UNCHANGED dvars
  BY <1>1, StutterDInv
<1>2. CASE Command \/ dbg_step \/ prefixed_step
  <2>1. mode \notin {"gone", "broken"}
    BY <1>2 DEF Command, exec_file, exec_start, exec_run, Start, exec_step, exec_continue,
       Resume, exec_break, exec_quit, dbg_step, prefixed_step, Commanded
  <2> QED
    BY <1>2, <2>1, CommandDInv, StepDInv, PrefixedDInv DEF DInv
<1>3. CASE Rests
  BY <1>3, StutterDInv DEF Rests
<1> QED
  BY <1>1, <1>2, <1>3 DEF DNext

LEMMA AlwaysDInv == DSpec => []DInv
<1>1. DInv /\ [DNext]_dvars => DInv'
  BY NextDInv
<1> QED
  BY InitDInv, <1>1, PTL DEF DSpec

-----------------------------------------------------------------------------
(* What follows                                                            *)

(* PromptKnowsFinished, for every program that takes only its own and      *)
(* whose code holds no byte of NEWARRAY, GC, NETBIND or NETCONNECT         *)
(* (DebuggerAssumption): at the prompt of ijdb a started program can go    *)
(* on, and one that is called finished cannot (ijdb.c:350-396, 437-474).   *)
THEOREM PromptKnows == DSpec => []PromptKnowsFinished
<1>1. DInv => PromptKnowsFinished
  BY DEF DInv, Working, KnowsFinished, PromptKnowsFinished
<1> QED
  BY AlwaysDInv, <1>1, PTL

(* StepsStayInBounds, for such a program, and whatever breakpoints its     *)
(* code has (DebuggerAssumption): while no allocation failed, what ijdb    *)
(* reads of the code before and after a step, of the method that is called *)
(* and of its history is there (ijdb.c:246-326, 350-365).                  *)
THEOREM StepsInBounds == DSpec => StepsStayInBounds
<1>1. ASSUME DInv, [DNext]_dvars, Commanded, InOrder
      PROVE  mode' # "broken"
  <2>1. Working /\ CInv /\ IInv /\ status = "running" /\ IsDebugger(dbg_state)
    BY <1>1 DEF DInv, Commanded, Working, CInv
  <2>2. mode \notin {"prompt", "gone", "broken"}
    BY <1>1 DEF Commanded
  <2>3. dbg_state.prog_state = "STARTED"
    BY <1>1, <2>1 DEF Working, KnowsFinished
  <2>4. HistoryFits /\ HistoryHoldsCalls
    BY <1>1, <2>1, <2>3 DEF Working, Follows, InOrder
  <2>9. ASSUME CInv', NEW dbg, dbg.brkpts = dbg_state.brkpts, AfterStep(dbg)
        PROVE  mode' # "broken"
    <3>1. cpu'.pc \in Nat /\ CodeSize \in Nat
      BY <2>1, <2>9, LenProperties, ProgramIsCode DEF CInv, IInv, TypeOK
    <3>2. at_breakpoint(dbg, cpu'.pc) => cpu'.pc < CodeSize
      BY <1>1, <2>9 DEF at_breakpoint, InOrder, BreakpointsInCode
    <3>3. ~ReadsBehind(dbg)
      BY <3>1, <3>2 DEF ReadsBehind
    <3>4. status' # "undefined"
      BY <2>9 DEF CInv
    <3> QED
      BY <2>2, <2>9, <3>3, <3>4 DEF AfterStep
  <2>5. CASE Command
    BY <2>2, <2>5 DEF Command, exec_file, exec_start, exec_run, Start, exec_step,
       exec_continue, Resume, exec_break, exec_quit
  <2>6. CASE dbg_step
    <3>1. TakesItsOwn /\ ~next_op_wide
      BY <2>6 DEF dbg_step, Disciplined
    <3>2. cpu.pc < CodeSize
      <4>1. cpu.pc \in Nat /\ CodeSize \in Nat
        BY <2>1, LenProperties, ProgramIsCode DEF IInv, TypeOK
      <4>2. ~finished
        BY <1>1, <2>1, <2>3, <3>1 DEF Working, KnowsFinished, InOrder
      <4> QED
        BY <4>1, <4>2 DEF finished
    <3>3. Op = OP_INVOKEVIRTUAL => IsCall /\ HasHeader
      <4> DEFINE target == get_constant(arg_short(1))
      <4> SUFFICES ASSUME Op = OP_INVOKEVIRTUAL PROVE IsCall /\ HasHeader
        OBVIOUS
      <4>1. IsCall /\ CodeShort(target) >= 0
        BY <1>1, <3>2 DEF CalledWell, InOrder
      <4>2. HasArgs(2) /\ target \in 0 .. CodeSize - 4
        BY <4>1 DEF IsCall
      <4>3. CodeSize \in Nat
        BY <2>1, LenProperties, ProgramIsCode
      <4> HIDE DEF target
      <4>4. target \in 0 .. CodeSize - 2
        BY <4>2, <4>3
      <4> QED
        BY <4>1, <4>2, <4>4 DEF HasHeader, target
    <3>4. Op = OP_IRETURN => frames # <<>>
      BY <3>1, <3>2 DEF TakesItsOwn, Op
    <3>5. \A refused \in BOOLEAN :
             /\ Len(dbg_state.call_history) >= 2
             /\ InItsMemory(Recorded(refused))
      BY <2>1, <2>4, <3>1, <3>2, <3>3, <3>4, RecordedFits DEF InItsMemory
    <3>6. CanLook
      <4>1. Op = OP_INVOKEVIRTUAL => HasArgs(2) /\ HasHeader
        BY <3>3 DEF HasHeader
      <4> QED
        BY <3>2, <3>5, <4>1 DEF CanLook
    <3>7. CASE CallsNothing
      BY <2>6, <3>6, <3>7 DEF dbg_step, Exits, DestroyNow
    <3>8. CASE ~CallsNothing
      <4>1. PICK refused \in BOOLEAN : step /\ AfterStep(Recorded(refused))
        BY <2>6, <3>5, <3>6, <3>8 DEF dbg_step
      <4>2. CInv'
        BY <2>1, <3>1, <3>2, <4>1, StepCInv
      <4>3. Recorded(refused).brkpts = dbg_state.brkpts
        BY <2>1, RecordedBreakpoints
      <4> QED
        BY <2>9, <4>1, <4>2, <4>3
    <3> QED
      BY <3>7, <3>8
  <2>7. CASE prefixed_step
    <3>1. TakesItsOwn /\ cpu.pc < CodeSize /\ step /\ AfterStep(dbg_state)
      BY <2>7 DEF prefixed_step, Disciplined
    <3>2. CInv'
      BY <2>1, <3>1, StepCInv
    <3> QED
      BY <2>9, <3>1, <3>2
  <2>8. CASE UNCHANGED dvars
    BY <2>2, <2>8 DEF dvars
  <2> QED
    BY <1>1, <2>5, <2>6, <2>7, <2>8 DEF DNext, Rests
<1>2. DInv /\ [DNext]_dvars => [Commanded /\ InOrder => mode' # "broken"]_dvars
  BY <1>1
<1> QED
  BY AlwaysDInv, <1>2, PTL DEF DSpec, StepsStayInBounds
-----------------------------------------------------------------------------
(* What backtrace prints                                                   *)

(* The call whose record ends at n, and where the record under it ends.    *)
TopCall(h, n) == [entry |-> h[n], args |-> [k \in 1 .. h[n - 1] |-> h[n - 1 - k]]]

PrintedAt(h, f, n) ==
    IF n = 0 THEN <<>>
    ELSE IF n = 1 THEN <<[entry |-> h[1], args |-> <<>>]>>
    ELSE <<TopCall(h, n)>>
            \o (IF h[n - 1] \in 0 .. n - 2 THEN f[n - 2 - h[n - 1]] ELSE <<>>)

(* What is printed of each part of the history, as a function of its end.  *)
Printed(h, m, f) == f = [n \in 0 .. m |-> PrintedAt(h, f, n)]

LEMMA PrintedSame ==
    ASSUME NEW h, NEW n \in Nat, NEW f, NEW g, \A k \in 0 .. n - 1 : f[k] = g[k]
    PROVE  PrintedAt(h, f, n) = PrintedAt(h, g, n)
<1> DEFINE a == h[n - 1]
<1>1. ASSUME n # 0, n # 1, a \in 0 .. n - 2 PROVE f[n - 2 - a] = g[n - 2 - a]
  <2> HIDE DEF a
  <2>1. n - 2 - a \in 0 .. n - 1
    BY <1>1
  <2> QED
    BY <2>1
<1> QED
  BY <1>1 DEF PrintedAt

(* There is such a function, whatever the history is. *)
LEMMA PrintedExists ==
    ASSUME NEW h, NEW m \in Nat
    PROVE  \E f : Printed(h, m, f)
<1> DEFINE bad == {n \in Nat : ~ \E f : Printed(h, n, f)}
<1>1. ASSUME bad # {} PROVE FALSE
  <2>1. PICK n \in bad : \A k \in bad : n <= k
    BY <1>1, LeastElement
  <2>2. CASE n = 0
    <3> DEFINE f == [k \in 0 .. 0 |-> <<>>]
    <3>1. Printed(h, 0, f)
      BY DEF Printed, PrintedAt
    <3> QED
      BY <2>1, <2>2, <3>1
  <2>3. CASE n # 0
    <3>1. n - 1 \in Nat /\ ~(n <= n - 1) /\ n \in Nat
      BY <2>1, <2>3
    <3>2. PICK f : Printed(h, n - 1, f)
      BY <2>1, <3>1
    <3> DEFINE g == [k \in 0 .. n |-> IF k = n THEN PrintedAt(h, f, n) ELSE f[k]]
    <3>3. \A k \in 0 .. n - 1 : g[k] = f[k]
      BY <3>1
    <3>4. \A k \in 0 .. n - 1 : f[k] = PrintedAt(h, f, k)
      BY <3>2 DEF Printed
    <3>5. g[n] = PrintedAt(h, f, n)
      BY <3>1
    <3>6. g = [k \in 0 .. n |-> g[k]]
      OBVIOUS
    <3> HIDE DEF g
    <3>7. ASSUME NEW k \in 0 .. n PROVE g[k] = PrintedAt(h, g, k)
      <4>1. k \in Nat /\ k <= n /\ \A l \in 0 .. k - 1 : l \in 0 .. n - 1
        BY <3>1
      <4>2. PrintedAt(h, f, k) = PrintedAt(h, g, k)
        BY <3>3, <4>1, PrintedSame
      <4>3. k # n => k \in 0 .. n - 1
        BY <3>1, <4>1
      <4> QED
        BY <3>3, <3>4, <3>5, <4>2, <4>3
    <3>8. Printed(h, n, g)
      BY <3>6, <3>7 DEF Printed
    <3> QED
      BY <2>1, <3>8
  <2> QED
    BY <2>2, <2>3
<1> QED
  BY <1>1

LEMMA BacktraceIs ==
    ASSUME NEW h, Len(h) \in Nat
    PROVE  \E f : Printed(h, Len(h), f) /\ Backtrace(h) = f[Len(h)]
<1> DEFINE f == CHOOSE f : Printed(h, Len(h), f)
<1>1. Printed(h, Len(h), f)
  BY PrintedExists
<1>2. Backtrace(h) = f[Len(h)]
  BY DEF Backtrace, Printed, PrintedAt, TopCall
<1> HIDE DEF f
<1> QED
  BY <1>1, <1>2

(* The first calls of fs, the latest one first. *)
LatestFirst(fs, i) == [k \in 1 .. i |-> fs[i - k + 1]]

LEMMA LatestFirstGrows ==
    ASSUME NEW fs, NEW i \in Nat, i >= 1
    PROVE  <<fs[i]>> \o LatestFirst(fs, i - 1) = LatestFirst(fs, i)
<1> DEFINE S == {fs[k] : k \in 1 .. i}
           e == i - 1
           t == <<fs[i]>>
           f == LatestFirst(fs, e)
           g == LatestFirst(fs, i)
<1>1. e \in Nat /\ i = e + 1 /\ i \in 1 .. i
  OBVIOUS
<1>2. t \in Seq(S) /\ Len(t) = 1 /\ t[1] = fs[i]
  BY <1>1
<1> HIDE DEF t
<1>3. IsList(f, e) /\ \A k \in 1 .. e : f[k] = fs[e - k + 1]
  BY DEF IsList, LatestFirst
<1>4. IsList(g, i) /\ \A k \in 1 .. i : g[k] = fs[i - k + 1]
  BY DEF IsList, LatestFirst
<1> HIDE DEF f, g
<1>5. f \in Seq(S) /\ Len(f) = e
  <2>1. \A k \in 1 .. e : e - k + 1 \in 1 .. i
    BY <1>1
  <2> HIDE DEF e
  <2>2. \A k \in 1 .. e : f[k] \in S
    BY <1>3, <2>1
  <2>3. f \in Seq({f[k] : k \in 1 .. e}) /\ Len(f) = e
    BY <1>1, <1>3, ListFacts
  <2>4. f \in [1 .. e -> S]
    BY <1>3, <2>2 DEF IsList
  <2> HIDE DEF S
  <2>5. f \in Seq(S)
    BY <1>1, <1>3, <2>2, IsASeq DEF IsList
  <2> QED
    BY <2>3, <2>5
<1> DEFINE b == t \o f
<1> HIDE DEF S, e
<1>6. /\ b \in Seq(S) /\ Len(b) = i
      /\ \A k \in 1 .. i : b[k] = IF k <= 1 THEN t[k] ELSE f[k - 1]
  <2>1. /\ b \in Seq(S) /\ Len(b) = Len(t) + Len(f)
        /\ \A k \in 1 .. Len(t) + Len(f) :
              b[k] = IF k <= Len(t) THEN t[k] ELSE f[k - Len(t)]
    BY <1>2, <1>5, ConcatProperties DEF b
  <2>2. Len(t) + Len(f) = i
    BY <1>1, <1>2, <1>5
  <2> QED
    BY <1>2, <2>1, <2>2
<1> HIDE DEF b
<1>7. IsList(b, i)
  BY <1>6, LenProperties DEF IsList
<1>8. ASSUME NEW k \in 1 .. i PROVE b[k] = g[k]
  <2>1. CASE k = 1
    <3>1. i - k + 1 = i /\ k <= 1
      BY <2>1
    <3> QED
      BY <1>2, <1>4, <1>6, <2>1, <3>1
  <2>2. CASE k # 1
    <3>1. k - 1 \in 1 .. e /\ e - (k - 1) + 1 = i - k + 1 /\ ~(k <= 1)
      BY <1>1, <2>2
    <3> QED
      BY <1>3, <1>4, <1>6, <3>1
  <2> QED
    BY <2>1, <2>2
<1>9. b = g
  BY <1>4, <1>7, <1>8, ListsEqual
<1> QED
  BY <1>9 DEF b, t, f, g, e

(* A record is printed as the call it is the record of. *)
LEMMA TopCallIs ==
    ASSUME NEW h \in Seq(Int), NEW fs \in Seq(Seen), NEW pos, RecordsAt(h, fs, pos),
           NEW i \in 1 .. Len(fs)
    PROVE  /\ pos[i] \in Nat /\ pos[i] >= 2 /\ pos[i] <= Len(h)
           /\ h[pos[i] - 1] \in 0 .. pos[i] - 2
           /\ pos[i] - 2 - h[pos[i] - 1] = pos[i - 1]
           /\ TopCall(h, pos[i]) = fs[i]
<1> DEFINE m == Len(fs)
           n == pos[i]
           p == pos[i - 1]
           a == Len(fs[i].args)
<1>1. m \in Nat /\ i \in 0 .. m /\ i - 1 \in 0 .. m /\ m \in 0 .. m /\ i <= m
  BY LenProperties
<1>2. fs[i] \in Seen
  BY ElementOfSeq
<1>3. a \in Nat /\ fs[i].args \in Seq(Word) /\ fs[i].entry \in Int
  BY <1>2, LenProperties DEF Seen
<1>4. n \in Nat /\ p \in Nat /\ pos[m] \in Nat /\ n <= pos[m] /\ pos[m] = Len(h)
  BY <1>1 DEF RecordsAt
<1>5. /\ h[n] = fs[i].entry /\ h[n - 1] = a
      /\ \A k \in 1 .. a : h[n - 1 - k] = fs[i].args[k]
  BY DEF RecordsAt
<1>0. n = p + a + 2
  BY DEF RecordsAt
<1> DEFINE args == fs[i].args
           printed == [k \in 1 .. a |-> h[n - 1 - k]]
<1>6. printed = args
  <2>1. IsList(args, a)
    BY <1>3, LenProperties DEF IsList
  <2>2. IsList(printed, a)
    BY DEF IsList
  <2>3. \A k \in 1 .. a : printed[k] = args[k]
    BY <1>5
  <2> HIDE DEF printed, args, a
  <2> QED
    BY <2>1, <2>2, <2>3, ListsEqual
<1>7. TopCall(h, n) = [entry |-> fs[i].entry, args |-> printed]
  BY <1>5 DEF TopCall
<1> HIDE DEF printed
<1>8. TopCall(h, n) = fs[i]
  BY <1>2, <1>6, <1>7 DEF Seen
<1> HIDE DEF n, p, a, m
<1>9. n >= 2 /\ a \in 0 .. n - 2 /\ n - 2 - a = p
  <2>1. a \in Nat /\ n \in Nat /\ p \in Nat
    BY <1>3, <1>4
  <2> QED
    BY <1>0, <2>1
<1>10. n <= Len(h)
  BY <1>4
<1> QED
  BY <1>4, <1>5, <1>8, <1>9, <1>10 DEF n, p

(* The history is printed as the calls it holds, the latest one first.     *)
LEMMA BacktraceReads ==
    ASSUME NEW h \in Seq(Int), NEW fs \in Seq(Seen), Records(h, fs)
    PROVE  Backtrace(h) = LatestFirst(fs, Len(fs))
<1>1. Len(h) \in Nat /\ Len(fs) \in Nat
  BY LenProperties
<1>2. PICK pos : RecordsAt(h, fs, pos)
  BY DEF Records
<1>3. PICK f : Printed(h, Len(h), f) /\ Backtrace(h) = f[Len(h)]
  BY <1>1, BacktraceIs
<1>4. \A n \in 0 .. Len(h) : f[n] = PrintedAt(h, f, n)
  BY <1>3 DEF Printed
<1> DEFINE bad == {i \in 0 .. Len(fs) : f[pos[i]] # LatestFirst(fs, i)}
<1>5. ASSUME bad # {} PROVE FALSE
  <2>1. bad \in SUBSET Nat
    OBVIOUS
  <2>2. PICK i \in bad : \A j \in bad : i <= j
    BY <1>5, <2>1, LeastElement
  <2>3. i \in 0 .. Len(fs) /\ f[pos[i]] # LatestFirst(fs, i)
    OBVIOUS
  <2>4. CASE i = 0
    <3>1. f[0] = <<>>
      <4>1. 0 \in 0 .. Len(h)
        BY <1>1
      <4>2. PrintedAt(h, f, 0) = <<>>
        BY DEF PrintedAt
      <4> QED
        BY <1>4, <4>1, <4>2
    <3>2. LatestFirst(fs, 0) = <<>>
      <4>1. PICK none \in Nat : none = 0
        OBVIOUS
      <4>2. PICK g : g = LatestFirst(fs, none)
        OBVIOUS
      <4>3. IsList(g, none)
        BY <4>2 DEF IsList, LatestFirst
      <4>4. g = <<>>
        <5> DEFINE S == {g[k] : k \in 1 .. none}
        <5>1. g \in Seq(S) /\ Len(g) = none
          BY <4>1, <4>3, ListFacts
        <5> HIDE DEF S
        <5> QED
          BY <4>1, <5>1, EmptySeq
      <4> QED
        BY <4>1, <4>2, <4>4
    <3> QED
      BY <1>2, <2>3, <2>4, <3>1, <3>2 DEF RecordsAt
  <2>5. CASE i # 0
    <3>1. /\ i - 1 \in 0 .. Len(fs) /\ ~(i <= i - 1) /\ i \in 1 .. Len(fs)
          /\ i \in Nat /\ i >= 1
      BY <1>1, <2>3, <2>5
    <3>2. f[pos[i - 1]] = LatestFirst(fs, i - 1)
      BY <2>2, <3>1
    <3> DEFINE n == pos[i]
    <3>3. /\ n \in Nat /\ n >= 2 /\ n <= Len(h) /\ h[n - 1] \in 0 .. n - 2
          /\ n - 2 - h[n - 1] = pos[i - 1] /\ TopCall(h, n) = fs[i]
      BY <1>2, <3>1, TopCallIs
    <3> HIDE DEF n
    <3>4. n # 0 /\ n # 1 /\ n \in 0 .. Len(h)
      BY <1>1, <3>3
    <3>5. f[n] = <<fs[i]>> \o LatestFirst(fs, i - 1)
      BY <1>4, <3>2, <3>3, <3>4 DEF PrintedAt
    <3>6. f[n] = LatestFirst(fs, i)
      BY <3>1, <3>5, LatestFirstGrows
    <3> QED
      BY <2>3, <3>6 DEF n
  <2> QED
    BY <2>4, <2>5
<1>6. f[pos[Len(fs)]] = LatestFirst(fs, Len(fs))
  <2>1. Len(fs) \in 0 .. Len(fs)
    BY <1>1
  <2> QED
    BY <1>5, <2>1
<1> QED
  BY <1>2, <1>3, <1>6 DEF RecordsAt

(* BacktraceShowsCalls, for every program without the bytes that           *)
(* DebuggerAssumption names, however deep its calls are, and for every     *)
(* series of commands: the history that is written before each call        *)
(* and cut before each return, by what it holds itself, prints the calls   *)
(* in progress with their arguments, and main (ijdb.c:246-326).            *)
THEOREM BacktraceIsRight == DSpec => []BacktraceShowsCalls
<1>1. ASSUME DInv, Traced
      PROVE  /\ SubSeq(Shown, 1, Len(frames)) = CallsInProgress
             /\ Last(Shown) = OfMain
             /\ ~restarted => Len(Shown) = Len(frames) + 1
  <2> DEFINE h == dbg_state.call_history
             d == Len(frames)
  <2>1. h \in Seq(Int) /\ HistoryHoldsCalls
    BY <1>1 DEF DInv, Working, Follows, Traced, HistoryHoldsCalls
  <2>2. PICK fs \in Seq(Seen) : Records(h, fs) /\ EndsWithFrames(fs)
    BY <2>1 DEF HistoryHoldsCalls
  <2>3. PICK lower : EndsAbove(fs, lower)
    BY <2>2, EndsAboveSome
  <2> DEFINE m == Len(fs)
  <2>4. Shown = LatestFirst(fs, m)
    <3> HIDE DEF h
    <3>1. Backtrace(h) = LatestFirst(fs, Len(fs))
      BY <2>1, <2>2, BacktraceReads
    <3> QED
      BY <3>1 DEF Shown, h
  <2>5. d \in Nat /\ m \in Nat /\ lower \in Nat /\ lower >= 1 /\ m = lower + d
    <3>1. frames \in Seq(Frame)
      BY <1>1 DEF DInv, Traced, Working, CInv
    <3> QED
      BY <2>3, <3>1, LenProperties DEF EndsAbove
  <2>6. /\ fs[1] = OfMain /\ (~restarted => lower = 1)
        /\ \A i \in 1 .. d : fs[lower + i].entry = frames[i].entry
                             /\ fs[lower + i].args = frames[i].args
    BY <2>3 DEF EndsAbove
  <2>7. \A i \in 1 .. m : fs[i] \in Seen
    BY ElementOfSeq
  <2> HIDE DEF m
  <2>8. IsList(Shown, m) /\ \A k \in 1 .. m : Shown[k] = fs[m - k + 1]
    BY <2>4 DEF LatestFirst, IsList
  <2>9. Len(Shown) = m
    BY <2>5, <2>8, ListFacts
  <2>10. Last(Shown) = OfMain
    <3>1. m \in 1 .. m /\ m - m + 1 = 1
      BY <2>5
    <3> QED
      BY <2>6, <2>8, <2>9, <3>1 DEF Last
  <2> DEFINE calls == [k \in 1 .. d |-> [entry |-> frames[k].entry, args |-> frames[k].args]]
             latest == SubSeq(Shown, 1, d)
  <2>11. Len(calls) = d
    BY <2>5, ListFacts DEF IsList
  <2>12. /\ IsList(CallsInProgress, d)
         /\ \A k \in 1 .. d : CallsInProgress[k] = calls[d - k + 1]
    <3>1. CallsInProgress = [k \in 1 .. d |-> calls[d - k + 1]]
      BY <2>11 DEF CallsInProgress, Reversed
    <3> HIDE DEF calls, d
    <3> QED
      BY <3>1 DEF IsList
  <2>13. IsList(latest, d) /\ \A k \in 1 .. d : latest[k] = Shown[k]
    <3> HIDE DEF d
    <3>1. d \in 0 .. m
      BY <2>5
    <3> QED
      BY <2>5, <2>8, <3>1, ListCut
  <2>14. ASSUME NEW k \in 1 .. d PROVE latest[k] = CallsInProgress[k]
    <3> DEFINE j == d - k + 1
    <3>1. j \in 1 .. d /\ k \in 1 .. m /\ m - k + 1 = lower + j /\ lower + j \in 1 .. m
      <4> HIDE DEF d
      <4> QED
        BY <2>5
    <3> HIDE DEF j
    <3>2. latest[k] = fs[lower + j]
      BY <2>8, <2>13, <3>1
    <3>3. fs[lower + j] = [entry |-> frames[j].entry, args |-> frames[j].args]
      BY <2>6, <2>7, <3>1 DEF Seen
    <3>4. CallsInProgress[k] = calls[j]
      BY <2>12 DEF j
    <3>5. calls[j] = [entry |-> frames[j].entry, args |-> frames[j].args]
      BY <3>1
    <3> QED
      BY <3>2, <3>3, <3>4, <3>5
  <2>15. latest = CallsInProgress
    <3> HIDE DEF latest, d
    <3> QED
      BY <2>12, <2>13, <2>14, ListsEqual
  <2>16. ~restarted => Len(Shown) = d + 1
    BY <2>5, <2>6, <2>9
  <2> QED
    BY <2>10, <2>15, <2>16
<1>2. DInv => BacktraceShowsCalls
  BY <1>1 DEF BacktraceShowsCalls
<1> QED
  BY AlwaysDInv, <1>2, PTL
=============================================================================
