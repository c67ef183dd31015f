---------------------------- MODULE SessionProofs -----------------------------
(***************************************************************************)
(* What a process frees, and what it loses, on every way through its       *)
(* operations.                                                             *)
(*                                                                         *)
(* The argument is Hoare's.  Leads(L, M, A, s, B) says that the script s,  *)
(* begun with pointers as in A, frees no pointer of M twice, loses nothing *)
(* but files and what is in L, and ends with pointers as in B.  Scripts    *)
(* that lead on lead on together (LeadsOn), so each operation is proved    *)
(* from the parts it is written with, and the invariant SInv says that the *)
(* rest of the script in progress leads to what its end promises the next  *)
(* operation.  M and L separate the cases: M is all pointers, the          *)
(* debugger's own after a failed load or a collection, and none after      *)
(* SIGINT struck inside an operation that frees before it resets; L is     *)
(* empty until memory was refused.                                         *)
(***************************************************************************)
EXTENDS Session, SequenceTheorems, TLAPS

-----------------------------------------------------------------------------
(* Pointers                                                                *)

Pointers == MachinePointers \cup DebuggerPointers

(* What may always get lost. *)
Files == {"in_file", "out_file", "symbols_file", "idle_fd", "accepted_fd", "name"}

(* What an assignment copies, or makes of a pointer. *)
Assignments == UNION {[S -> Resources \cup {"live", "null"}] : S \in SUBSET Resources}

States == {"null", "live", "stale"}
Calls ==
    ({"alloc", "free", "clear", "release"} \X Resources) \cup ({"assign"} \X Assignments)

(* A connection has its sockets as long as it is there, *)
Sockets == {"client_fd", "server_fd", "idle_fd"}

Held(o) ==
    /\ \A fd \in Sockets : o[fd] = "live" => o["sock"] = "live"
    /\ o["new_fd"] = "live" => o["new_sock"] = "live"

(* and these are never freed and left as they are. *)
Fresh == Descriptors \cup {"new_array", "new_sock", "path_copy", "name"}

Owners ==
    {o \in [Resources -> States] : Held(o) /\ \A r \in Fresh : o[r] # "stale"}

(* What a call makes of a pointer, or of all of them.                      *)
Ends(verb, state) ==
    IF verb = "alloc" THEN "live"
    ELSE IF verb = "free" /\ state # "null" THEN "stale" ELSE "null"

Assigned(f, o) ==
    [r \in Resources |->
        IF r \notin DOMAIN f THEN o[r]
        ELSE IF f[r] \in Resources THEN o[f[r]] ELSE f[r]]

Done(call, o) ==
    IF call[1] = "assign" THEN Assigned(call[2], o)
    ELSE [o EXCEPT ![call[2]] = Ends(call[1], o[call[2]])]

(* The call frees no pointer of M twice, and loses only what may get lost. *)
Sound(L, M, call, o) ==
    /\ call[1] \in {"alloc", "clear"} /\ o[call[2]] = "live" => call[2] \in Files \cup L
    /\ call[1] = "free" => /\ call[2] \in Pointers
                           /\ call[2] \in M => o[call[2]] # "stale"
    /\ call[1] = "assign" =>
          \A r \in DOMAIN call[2] \ {"array"} :
             o[r] = "live" /\ (\A q \in DOMAIN call[2] : call[2][q] # r) => r \in Files \cup L

Leads(L, M, A, s, B) ==
    /\ s \in Seq(Calls)
    /\ \E h \in [1 .. Len(s) + 1 -> SUBSET Owners] :
          /\ A \subseteq h[1] /\ h[Len(s) + 1] \subseteq B
          /\ \A k \in 1 .. Len(s) : \A o \in h[k] :
                Sound(L, M, s[k], o) /\ Done(s[k], o) \in h[k + 1]

LEMMA LeadsNowhere ==
    ASSUME NEW L, NEW M, NEW A \in SUBSET Owners
    PROVE  Leads(L, M, A, <<>>, A)
<1> DEFINE h == [k \in 1 .. 1 |-> A]
<1>1. <<>> \in Seq(Calls) /\ Len(<<>>) = 0
  BY EmptySeq
<1>2. h \in [1 .. Len(<<>>) + 1 -> SUBSET Owners] /\ h[1] = A /\ Len(<<>>) + 1 = 1
  BY <1>1
<1>3. \A k \in 1 .. Len(<<>>) : FALSE
  BY <1>1
<1> HIDE DEF h
<1> QED
  BY <1>1, <1>2, <1>3 DEF Leads

LEMMA LeadsFromTo ==
    ASSUME NEW L, NEW M, NEW A, NEW s, NEW B, Leads(L, M, A, s, B),
           NEW A2, A2 \subseteq A, NEW B2, B \subseteq B2
    PROVE  Leads(L, M, A2, s, B2)
<1>1. PICK h \in [1 .. Len(s) + 1 -> SUBSET Owners] :
          /\ A \subseteq h[1] /\ h[Len(s) + 1] \subseteq B
          /\ \A k \in 1 .. Len(s) : \A o \in h[k] :
                Sound(L, M, s[k], o) /\ Done(s[k], o) \in h[k + 1]
  BY DEF Leads
<1>2. A2 \subseteq h[1] /\ h[Len(s) + 1] \subseteq B2
  BY <1>1
<1> QED
  BY <1>1, <1>2 DEF Leads

LEMMA LessLeads ==
    ASSUME NEW L, NEW M, NEW A, NEW s, NEW B, Leads(L, M, A, s, B),
           NEW L2, L \subseteq L2, NEW M2, M2 \subseteq M
    PROVE  Leads(L2, M2, A, s, B)
<1>1. PICK h \in [1 .. Len(s) + 1 -> SUBSET Owners] :
          /\ A \subseteq h[1] /\ h[Len(s) + 1] \subseteq B
          /\ \A k \in 1 .. Len(s) : \A o \in h[k] :
                Sound(L, M, s[k], o) /\ Done(s[k], o) \in h[k + 1]
  BY DEF Leads
<1>2. \A k \in 1 .. Len(s) : \A o \in h[k] : Sound(L2, M2, s[k], o)
  BY <1>1 DEF Sound
<1> QED
  BY <1>1, <1>2 DEF Leads

(* Scripts one after the other.                                            *)
LEMMA LeadsOn ==
    ASSUME NEW L, NEW M, NEW A, NEW s, NEW B, Leads(L, M, A, s, B), NEW t, NEW C, Leads(L, M, B, t, C)
    PROVE  Leads(L, M, A, s \o t, C)
<1>1. PICK h \in [1 .. Len(s) + 1 -> SUBSET Owners] :
          /\ A \subseteq h[1] /\ h[Len(s) + 1] \subseteq B
          /\ \A k \in 1 .. Len(s) : \A o \in h[k] :
                Sound(L, M, s[k], o) /\ Done(s[k], o) \in h[k + 1]
  BY DEF Leads
<1>2. PICK g \in [1 .. Len(t) + 1 -> SUBSET Owners] :
          /\ B \subseteq g[1] /\ g[Len(t) + 1] \subseteq C
          /\ \A k \in 1 .. Len(t) : \A o \in g[k] :
                Sound(L, M, t[k], o) /\ Done(t[k], o) \in g[k + 1]
  BY DEF Leads
<1> DEFINE n == Len(s)
           m == Len(t)
           f == [k \in 1 .. n + m + 1 |-> IF k <= n THEN h[k] ELSE g[k - n]]
<1>3. /\ s \in Seq(Calls) /\ t \in Seq(Calls) /\ n \in Nat /\ m \in Nat
      /\ s \o t \in Seq(Calls) /\ Len(s \o t) = n + m
      /\ \A k \in 1 .. n + m : (s \o t)[k] = IF k <= n THEN s[k] ELSE t[k - n]
  BY ConcatProperties, LenProperties DEF Leads
<1> HIDE DEF n, m
<1>4. f \in [1 .. n + m + 1 -> SUBSET Owners]
  <2>1. ASSUME NEW k \in 1 .. n + m + 1
        PROVE  (IF k <= n THEN h[k] ELSE g[k - n]) \in SUBSET Owners
    <3>1. CASE k <= n
      <4>1. k \in 1 .. n + 1
        BY <1>3, <3>1
      <4> QED
        BY <3>1, <4>1 DEF n
    <3>2. CASE ~(k <= n)
      <4>1. k - n \in 1 .. m + 1
        BY <1>3, <3>2
      <4> QED
        BY <3>2, <4>1 DEF m
    <3> QED
      BY <3>1, <3>2
  <2> QED
    BY <2>1
<1>5. A \subseteq f[1]
  <2>1. 1 \in 1 .. n + m + 1
    BY <1>3
  <2>2. CASE n = 0
    BY <1>1, <1>2, <2>1, <2>2 DEF n
  <2>3. CASE n # 0
    BY <1>1, <1>3, <2>1, <2>3
  <2> QED
    BY <2>2, <2>3
<1>6. f[n + m + 1] \subseteq C
  <2> DEFINE last == n + m + 1
  <2>1. last \in 1 .. n + m + 1 /\ ~(last <= n) /\ last - n = m + 1
    BY <1>3
  <2> HIDE DEF last
  <2>2. f[last] = g[m + 1]
    BY <2>1
  <2>3. f[last] \subseteq C
    BY <1>2, <2>2 DEF m
  <2> QED
    BY <2>3 DEF last
<1>7. ASSUME NEW k \in 1 .. n + m, NEW o \in f[k]
      PROVE  Sound(L, M, (s \o t)[k], o) /\ Done((s \o t)[k], o) \in f[k + 1]
  <2>1. k \in 1 .. n + m + 1 /\ k + 1 \in 1 .. n + m + 1
    BY <1>3
  <2>2. CASE k < n
    <3>1. k \in 1 .. n /\ k <= n /\ k + 1 <= n
      BY <1>3, <2>2
    <3>2. f[k] = h[k] /\ f[k + 1] = h[k + 1] /\ (s \o t)[k] = s[k]
      BY <1>3, <2>1, <3>1
    <3> QED
      BY <1>1, <1>7, <3>1, <3>2 DEF n
  <2>3. CASE k = n
    <3>1. k \in 1 .. n /\ k <= n /\ ~(k + 1 <= n) /\ k + 1 - n = 1
      BY <1>3, <2>3
    <3>2. f[k] = h[k] /\ f[k + 1] = g[1] /\ (s \o t)[k] = s[k]
      BY <1>3, <2>1, <3>1
    <3>3. Sound(L, M, s[k], o) /\ Done(s[k], o) \in h[n + 1]
      BY <1>1, <1>7, <2>3, <3>1, <3>2 DEF n
    <3> QED
      BY <1>1, <1>2, <3>2, <3>3 DEF n
  <2>4. CASE k > n
    <3> DEFINE j == k - n
    <3>1. j \in 1 .. m /\ ~(k <= n) /\ ~(k + 1 <= n) /\ k + 1 - n = j + 1
      BY <1>3, <2>4
    <3>2. f[k] = g[j]
      BY <2>1, <3>1
    <3>3. f[k + 1] = g[j + 1]
      <4> DEFINE next == k + 1
      <4>1. next \in 1 .. n + m + 1 /\ ~(next <= n) /\ next - n = j + 1
        BY <1>3, <2>1, <2>4, <3>1
      <4> HIDE DEF next
      <4>2. f[next] = g[next - n]
        BY <4>1
      <4>3. f[next] = g[j + 1]
        BY <4>1, <4>2
      <4> QED
        BY <4>3 DEF next
    <3>4. (s \o t)[k] = t[j]
      BY <1>3, <3>1
    <3> HIDE DEF j, f
    <3> QED
      BY <1>2, <1>7, <3>1, <3>2, <3>3, <3>4 DEF m
  <2> QED
    BY <1>3, <2>2, <2>3, <2>4
<1> HIDE DEF f
<1> QED
  BY <1>3, <1>4, <1>5, <1>6, <1>7 DEF Leads

(* The first call of a script. *)
LEMMA LeadsStep ==
    ASSUME NEW L, NEW M, NEW o, NEW s, NEW B, Leads(L, M, {o}, s, B), s # <<>>
    PROVE  /\ Head(s) \in Calls /\ o \in Owners
           /\ Sound(L, M, Head(s), o) /\ Leads(L, M, {Done(Head(s), o)}, Tail(s), B)
<1>1. PICK h \in [1 .. Len(s) + 1 -> SUBSET Owners] :
          /\ {o} \subseteq h[1] /\ h[Len(s) + 1] \subseteq B
          /\ \A k \in 1 .. Len(s) : \A p \in h[k] :
                Sound(L, M, s[k], p) /\ Done(s[k], p) \in h[k + 1]
  BY DEF Leads
<1> DEFINE n == Len(s)
           g == [k \in 1 .. n |-> h[k + 1]]
<1>2. /\ s \in Seq(Calls) /\ n \in Nat /\ n >= 1
      /\ Head(s) = s[1] /\ s[1] \in Calls
      /\ Tail(s) \in Seq(Calls) /\ Len(Tail(s)) = n - 1
      /\ \A k \in 1 .. n - 1 : Tail(s)[k] = s[k + 1]
  BY HeadTailProperties, LenProperties, EmptySeq DEF Leads
<1> HIDE DEF n
<1>3. 1 \in 1 .. n /\ 1 \in 1 .. n + 1 /\ n \in 1 .. n
  BY <1>2
<1>4. o \in Owners /\ Sound(L, M, Head(s), o) /\ Done(Head(s), o) \in h[2]
  BY <1>1, <1>2, <1>3 DEF n
<1>5. g \in [1 .. Len(Tail(s)) + 1 -> SUBSET Owners]
  <2>1. ASSUME NEW k \in 1 .. n
        PROVE  h[k + 1] \in SUBSET Owners
    <3>1. k + 1 \in 1 .. n + 1
      BY <1>2
    <3> QED
      BY <3>1 DEF n
  <2>2. n - 1 + 1 = n
    BY <1>2
  <2> QED
    BY <1>2, <2>1, <2>2
<1>6. g[1] = h[2] /\ g[Len(Tail(s)) + 1] \subseteq B
  BY <1>1, <1>2, <1>3 DEF n
<1>7. ASSUME NEW k \in 1 .. Len(Tail(s)), NEW p \in g[k]
      PROVE  Sound(L, M, Tail(s)[k], p) /\ Done(Tail(s)[k], p) \in g[k + 1]
  <2> DEFINE j == k + 1
  <2>1. j \in 1 .. n /\ k \in 1 .. n /\ k \in 1 .. n - 1
    BY <1>2
  <2>2. g[k] = h[j] /\ g[j] = h[j + 1] /\ Tail(s)[k] = s[j]
    BY <1>2, <2>1
  <2> HIDE DEF j
  <2>3. p \in h[j]
    BY <1>7, <2>2
  <2> QED
    BY <1>1, <2>1, <2>2, <2>3 DEF n, j
<1> HIDE DEF g
<1> QED
  BY <1>2, <1>4, <1>5, <1>6, <1>7 DEF Leads

(* The end of a script. *)
LEMMA LeadsThere ==
    ASSUME NEW L, NEW M, NEW o, NEW B, Leads(L, M, {o}, <<>>, B)
    PROVE  o \in B
BY EmptySeq DEF Leads

-----------------------------------------------------------------------------
(* What a call does to one pointer, told by the pointers that are surely   *)
(* null, surely not live, and surely not stale.                            *)

Box(N, D, W) ==
    {o \in Owners : \A r \in Resources :
        /\ r \in N => o[r] = "null"
        /\ r \in D => o[r] # "live"
        /\ r \in W => o[r] # "stale"}

LEMMA BoxIn ==
    ASSUME NEW N, NEW D, NEW W, NEW N2, NEW D2, NEW W2,
           N2 \subseteq N, D2 \subseteq D \cup N, W2 \subseteq W \cup N
    PROVE  Box(N, D, W) \subseteq Box(N2, D2, W2)
BY DEF Box

LEMMA NamesDiffer ==
    /\ Pointers \subseteq Resources /\ Files \subseteq Resources /\ Fresh \subseteq Resources
    /\ Sockets \subseteq Fresh /\ Sockets \subseteq Resources /\ "sock" \in Resources
    /\ Sockets \cap Pointers = {} /\ Fresh \cap Pointers = {} /\ Files \subseteq Fresh
    /\ "sock" \notin Sockets /\ "sock" \notin Files /\ "sock" \in Pointers
    /\ "new_fd" \in Fresh /\ "new_sock" \in Fresh /\ "new_fd" \notin Files
    /\ "new_sock" \notin Files /\ "new_fd" \notin Sockets /\ "new_sock" \notin Sockets
    /\ "live" \notin Resources /\ "null" \notin Resources
BY DEF Pointers, Files, Fresh, Sockets, Resources, MachinePointers, CpuPointers, TablePointers,
       DebuggerPointers, Descriptors, Locals

(* A socket needs a connection, and a new one its new connection.          *)
LEMMA BoxHeld ==
    ASSUME NEW N, NEW D, NEW W
    PROVE  /\ "sock" \in N => Box(N, D, W) \subseteq Box(N, D \cup Sockets, W)
           /\ "new_sock" \in N => Box(N, D, W) \subseteq Box(N, D \cup {"new_fd"}, W)
<1>1. ASSUME NEW o \in Box(N, D, W)
      PROVE  /\ "sock" \in N => o \in Box(N, D \cup Sockets, W)
             /\ "new_sock" \in N => o \in Box(N, D \cup {"new_fd"}, W)
  BY NamesDiffer DEF Box, Owners, Held
<1> QED
  BY <1>1

(* A pointer is freed or reset: a connection first loses its sockets.      *)
LEMMA StillHeld ==
    ASSUME NEW o \in Owners, NEW r \in Resources, NEW state \in States,
           state # "live", state = "stale" => r \in Pointers, r # "new_sock",
           r = "sock" => \A fd \in Sockets : o[fd] # "live"
    PROVE  [o EXCEPT ![r] = state] \in Owners
<1> DEFINE p == [o EXCEPT ![r] = state]
<1>1. p \in [Resources -> States] /\ \A q \in Resources : p[q] = IF q = r THEN state ELSE o[q]
  BY DEF Owners
<1> HIDE DEF p
<1>2. ASSUME NEW fd \in Sockets, p[fd] = "live"
      PROVE  p["sock"] = "live"
  <2>1. fd # r /\ o[fd] = "live"
    BY <1>1, <1>2, NamesDiffer
  <2>2. o["sock"] = "live" /\ r # "sock"
    BY <2>1 DEF Owners, Held
  <2> QED
    BY <1>1, <2>2, NamesDiffer
<1>3. p["new_fd"] = "live" => p["new_sock"] = "live"
  BY <1>1, NamesDiffer DEF Owners, Held
<1>4. \A q \in Fresh : p[q] # "stale"
  BY <1>1, NamesDiffer DEF Owners
<1>5. p \in Owners
  BY <1>1, <1>2, <1>3, <1>4 DEF Owners, Held
<1> QED
  BY <1>5 DEF p

LEMMA FreeOne ==
    ASSUME NEW L, NEW M, NEW N, NEW D, NEW W, NEW r \in Pointers, NEW o \in Box(N, D, W),
           r \in M => r \in W \cup N,
           r = "sock" => Sockets \subseteq N \cup D
    PROVE  /\ Sound(L, M, <<"free", r>>, o)
           /\ Done(<<"free", r>>, o) \in Box(N, D \cup {r}, W \ {r})
<1> DEFINE state == IF o[r] # "null" THEN "stale" ELSE "null"
<1>1. o \in Owners /\ r \in Resources /\ state \in States /\ state # "live"
        /\ r # "new_sock"
  BY NamesDiffer DEF Box, States
<1>2. Done(<<"free", r>>, o) = [o EXCEPT ![r] = state]
  BY DEF Done, Ends
<1>3. [o EXCEPT ![r] = state] \in Owners
  <2>1. r = "sock" => \A fd \in Sockets : o[fd] # "live"
    BY NamesDiffer DEF Box
  <2> HIDE DEF state
  <2> QED
    BY <1>1, <2>1, StillHeld
<1>4. Sound(L, M, <<"free", r>>, o)
  BY NamesDiffer DEF Sound, Box
<1>5. [o EXCEPT ![r] = state] \in Box(N, D \cup {r}, W \ {r})
  <2>1. \A q \in Resources : [o EXCEPT ![r] = state][q] = IF q = r THEN state ELSE o[q]
    BY <1>1 DEF Owners
  <2>2. r \in N => state = "null"
    BY <1>1 DEF Box
  <2> QED
    BY <1>1, <1>3, <2>1, <2>2 DEF Box, Owners
<1> QED
  BY <1>2, <1>4, <1>5

LEMMA ClearOne ==
    ASSUME NEW L, NEW M, NEW N, NEW D, NEW W, NEW r \in Resources, NEW o \in Box(N, D, W),
           r # "new_sock", r = "sock" => Sockets \subseteq N \cup D
    PROVE  /\ r \in D \cup N \cup Files \cup L => Sound(L, M, <<"clear", r>>, o)
           /\ Sound(L, M, <<"release", r>>, o)
           /\ Done(<<"clear", r>>, o) \in Box(N \cup {r}, D, W)
           /\ Done(<<"release", r>>, o) \in Box(N \cup {r}, D, W)
<1>1. o \in Owners /\ "null" \in States
  BY DEF Box, States
<1>2. /\ Done(<<"clear", r>>, o) = [o EXCEPT ![r] = "null"]
      /\ Done(<<"release", r>>, o) = [o EXCEPT ![r] = "null"]
  BY DEF Done, Ends
<1>3. [o EXCEPT ![r] = "null"] \in Owners
  <2>1. r = "sock" => \A fd \in Sockets : o[fd] # "live"
    BY NamesDiffer DEF Box
  <2> QED
    BY <1>1, <2>1, StillHeld
<1>4. /\ r \in D \cup N \cup Files \cup L => Sound(L, M, <<"clear", r>>, o)
      /\ Sound(L, M, <<"release", r>>, o)
  BY NamesDiffer DEF Sound, Box
<1>5. [o EXCEPT ![r] = "null"] \in Box(N \cup {r}, D, W)
  BY <1>1, <1>3 DEF Box, Owners
<1> QED
  BY <1>2, <1>4, <1>5

LEMMA AllocOne ==
    ASSUME NEW L, NEW M, NEW N, NEW D, NEW W, NEW r \in Resources, NEW o \in Box(N, D, W),
           r \in D \cup N \cup Files \cup L, r \notin Sockets, r # "new_fd"
    PROVE  /\ Sound(L, M, <<"alloc", r>>, o)
           /\ Done(<<"alloc", r>>, o) \in Box(N \ {r}, D \ {r}, W \cup {r})
<1>1. o \in [Resources -> States] /\ Held(o) /\ "live" \in States
      /\ \A q \in Fresh : o[q] # "stale"
  BY DEF Box, States, Owners
<1>2. Done(<<"alloc", r>>, o) = [o EXCEPT ![r] = "live"]
  BY DEF Done, Ends
<1>3. [o EXCEPT ![r] = "live"] \in Owners
  <2>1. [o EXCEPT ![r] = "live"] \in [Resources -> States]
    BY <1>1
  <2>2. \A q \in Resources : [o EXCEPT ![r] = "live"][q] = IF q = r THEN "live" ELSE o[q]
    BY <1>1
  <2>3. Held([o EXCEPT ![r] = "live"])
    BY <1>1, <2>2, NamesDiffer DEF Held
  <2> QED
    BY <1>1, <2>1, <2>2, <2>3, NamesDiffer DEF Owners
<1>4. Sound(L, M, <<"alloc", r>>, o)
  BY NamesDiffer DEF Sound, Box
<1>5. [o EXCEPT ![r] = "live"] \in Box(N \ {r}, D \ {r}, W \cup {r})
  BY <1>1, <1>3 DEF Box, Owners
<1> QED
  BY <1>2, <1>4, <1>5

-----------------------------------------------------------------------------
(* The same call for each of some resources                                *)

(* The names of S, each of them once.                                      *)
Lists(names, S) ==
    /\ names \in Seq(S)
    /\ \A i, j \in 1 .. Len(names) : names[i] = names[j] => i = j
    /\ \A r \in S : \E i \in 1 .. Len(names) : names[i] = r

Before(names, k) == {names[j] : j \in 1 .. k - 1}

LEMMA NoNames ==
    Lists(<<>>, {})
BY DEF Lists

LEMMA OneName ==
    ASSUME NEW a
    PROVE  Lists(<<a>>, {a})
BY DEF Lists

LEMMA TwoNames ==
    ASSUME NEW a, NEW b, a # b
    PROVE  Lists(<<a, b>>, {a, b})
<1>1. <<a, b>> \in Seq({a, b}) /\ Len(<<a, b>>) = 2 /\ 1 .. 2 = {1, 2}
  OBVIOUS
<1> QED
  BY <1>1 DEF Lists

LEMMA ThreeNames ==
    ASSUME NEW a, NEW b, NEW c, a # b, b # c, a # c
    PROVE  Lists(<<a, b, c>>, {a, b, c})
<1>1. <<a, b, c>> \in Seq({a, b, c}) /\ Len(<<a, b, c>>) = 3 /\ 1 .. 3 = {1, 2, 3}
  OBVIOUS
<1> QED
  BY <1>1 DEF Lists

LEMMA MoreNames ==
    ASSUME NEW a, NEW S, NEW names, Lists(names, S), a \notin S
    PROVE  Lists(<<a>> \o names, {a} \cup S)
<1> DEFINE n == Len(names)
           T == {a} \cup S
           all == <<a>> \o names
<1>1. <<a>> \in Seq(T) /\ Len(<<a>>) = 1 /\ names \in Seq(T) /\ n \in Nat
  BY LenProperties DEF Lists
<1>2. /\ all \in Seq(T) /\ Len(all) = 1 + n
      /\ \A k \in 1 .. 1 + n : all[k] = IF k <= 1 THEN <<a>>[k] ELSE names[k - 1]
  BY <1>1, ConcatProperties
<1>3. \A k \in 1 .. n : names[k] \in S
  BY <1>1, ElementOfSeq DEF Lists
<1> HIDE DEF all, n
<1>4. 1 \in 1 .. 1 + n /\ all[1] = a
  BY <1>1, <1>2
<1>5. \A k \in 1 .. 1 + n : k # 1 => k - 1 \in 1 .. n /\ all[k] = names[k - 1]
  BY <1>1, <1>2
<1>6. \A k \in 1 .. n : k + 1 \in 1 .. 1 + n /\ all[k + 1] = names[k]
  BY <1>1, <1>2
<1>7. ASSUME NEW i \in 1 .. 1 + n, NEW j \in 1 .. 1 + n, all[i] = all[j]
      PROVE  i = j
  <2>1. ASSUME i # 1, j # 1
        PROVE  i - 1 = j - 1
    <3>1. i - 1 \in 1 .. n /\ j - 1 \in 1 .. n /\ names[i - 1] = names[j - 1]
      BY <1>5, <1>7, <2>1
    <3>2. \A p, q \in 1 .. n : names[p] = names[q] => p = q
      BY DEF Lists, n
    <3> QED
      BY <3>1, <3>2
  <2> QED
    BY <1>1, <1>3, <1>4, <1>5, <1>7, <2>1
<1>8. \A r \in T : \E i \in 1 .. 1 + n : all[i] = r
  BY <1>4, <1>6 DEF Lists, n
<1>9. Lists(all, T)
  BY <1>2, <1>7, <1>8 DEF Lists
<1> QED
  BY <1>9 DEF all

LEMMA NamesBefore ==
    ASSUME NEW S, NEW names, Lists(names, S)
    PROVE  /\ Len(names) \in Nat
           /\ Before(names, 1) = {}
           /\ Before(names, Len(names) + 1) = S
           /\ \A k \in 1 .. Len(names) :
                 /\ names[k] \in S /\ names[k] \notin Before(names, k)
                 /\ Before(names, k + 1) = Before(names, k) \cup {names[k]}
<1> DEFINE n == Len(names)
<1>1. n \in Nat /\ (\A k \in 1 .. n : names[k] \in S)
  BY LenProperties, ElementOfSeq DEF Lists
<1>2. Before(names, 1) = {}
  BY DEF Before
<1>3. Before(names, n + 1) = S
  <2>1. 1 .. (n + 1) - 1 = 1 .. n
    BY <1>1
  <2> QED
    BY <1>1, <2>1 DEF Before, Lists
<1>4. ASSUME NEW k \in 1 .. n
      PROVE  /\ names[k] \notin Before(names, k)
             /\ Before(names, k + 1) = Before(names, k) \cup {names[k]}
  <2>1. 1 .. (k + 1) - 1 = (1 .. k - 1) \cup {k} /\ k \notin 1 .. k - 1
        /\ 1 .. k - 1 \subseteq 1 .. n
    BY <1>1
  <2>2. Before(names, k + 1) = {names[j] : j \in (1 .. k - 1) \cup {k}}
    BY <2>1 DEF Before
  <2>3. names[k] \notin {names[j] : j \in 1 .. k - 1}
    BY <2>1 DEF Lists
  <2> QED
    BY <2>2, <2>3 DEF Before
<1> QED
  BY <1>1, <1>2, <1>3, <1>4

(* A script of one verb is sound if each call of it is.                    *)
LEMMA EachLeads ==
    ASSUME NEW L, NEW M, NEW S \in SUBSET Resources, NEW names, Lists(names, S),
           NEW verb \in {"alloc", "free", "clear", "release"},
           NEW h \in [1 .. Len(names) + 1 -> SUBSET Owners],
           \A k \in 1 .. Len(names) : \A o \in h[k] :
              Sound(L, M, <<verb, names[k]>>, o) /\ Done(<<verb, names[k]>>, o) \in h[k + 1]
    PROVE  Leads(L, M, h[1], Each(verb, names), h[Len(names) + 1])
<1> DEFINE n == Len(names)
<1>1. n \in Nat /\ (\A k \in 1 .. n : names[k] \in S)
  BY LenProperties, ElementOfSeq DEF Lists
<1>2. \A k \in 1 .. n : <<verb, names[k]>> \in Calls
  BY <1>1 DEF Calls
<1> HIDE DEF n
<1>3. [k \in 1 .. n |-> <<verb, names[k]>>] \in [1 .. n -> Calls]
  BY <1>2
<1>4. Each(verb, names) = [k \in 1 .. n |-> <<verb, names[k]>>]
  BY DEF n, Each
<1>5. Each(verb, names) \in Seq(Calls) /\ Len(Each(verb, names)) = n
  BY <1>1, <1>3, <1>4, LenProperties
<1>6. \A k \in 1 .. n : Each(verb, names)[k] = <<verb, names[k]>>
  BY <1>4
<1>7. h \in [1 .. Len(Each(verb, names)) + 1 -> SUBSET Owners]
  BY <1>5 DEF n
<1>8. \A k \in 1 .. Len(Each(verb, names)) : \A o \in h[k] :
         Sound(L, M, Each(verb, names)[k], o) /\ Done(Each(verb, names)[k], o) \in h[k + 1]
  BY <1>5, <1>6 DEF n
<1>9. h[Len(Each(verb, names)) + 1] = h[Len(names) + 1]
  BY <1>5 DEF n
<1> HIDE DEF n
<1> QED
  BY <1>5, <1>7, <1>8, <1>9 DEF Leads

LEMMA FreeLeads ==
    ASSUME NEW L, NEW M, NEW N, NEW D, NEW W, NEW N2, NEW D2, NEW W2,
           NEW S \in SUBSET Pointers, NEW names, Lists(names, S),
           S \cap M \subseteq W \cup N,
           "sock" \in S => Sockets \subseteq N \cup D,
           N2 \subseteq N, D2 \subseteq D \cup N \cup S, W2 \subseteq (W \ S) \cup N
    PROVE  Leads(L, M, Box(N, D, W), Free(names), Box(N2, D2, W2))
<1> DEFINE n == Len(names)
           E(k) == Before(names, k)
           At1(k) == Box(N, D \cup E(k), W \ E(k))
           h == [k \in 1 .. n + 1 |-> At1(k)]
<1>1. /\ n \in Nat /\ E(1) = {} /\ E(n + 1) = S
      /\ \A k \in 1 .. n : /\ names[k] \in S /\ names[k] \notin E(k)
                           /\ E(k + 1) = E(k) \cup {names[k]}
  BY NamesBefore
<1>2. h \in [1 .. n + 1 -> SUBSET Owners]
  BY DEF Box
<1> HIDE DEF E
<1>3. ASSUME NEW k \in 1 .. n, NEW o \in h[k]
      PROVE  Sound(L, M, <<"free", names[k]>>, o) /\ Done(<<"free", names[k]>>, o) \in h[k + 1]
  <2> DEFINE r == names[k]
  <2>1. k \in 1 .. n + 1 /\ k + 1 \in 1 .. n + 1
    BY <1>1
  <2>2. h[k] = At1(k) /\ h[k + 1] = At1(k + 1)
    BY <2>1
  <2>3. r \in S /\ r \in Pointers /\ r \notin E(k) /\ E(k + 1) = E(k) \cup {r}
    BY <1>1
  <2>4. (r \in M => r \in (W \ E(k)) \cup N)
        /\ (r = "sock" => Sockets \subseteq N \cup (D \cup E(k)))
    BY <2>3
  <2>5. (D \cup E(k)) \cup {r} = D \cup E(k + 1) /\ (W \ E(k)) \ {r} = W \ E(k + 1)
    BY <2>3
  <2> DEFINE D1 == D \cup E(k)
             W1 == W \ E(k)
  <2>6. o \in Box(N, D1, W1)
    BY <1>3, <2>2
  <2> HIDE DEF r, D1, W1, h
  <2>7. Sound(L, M, <<"free", r>>, o) /\ Done(<<"free", r>>, o) \in Box(N, D1 \cup {r}, W1 \ {r})
    <3>1. (r \in M => r \in W1 \cup N) /\ (r = "sock" => Sockets \subseteq N \cup D1)
      BY <2>4 DEF D1, W1
    <3> QED
      BY <2>3, <2>6, <3>1, FreeOne
  <2>8. D1 \cup {r} = D \cup E(k + 1) /\ W1 \ {r} = W \ E(k + 1)
    BY <2>5 DEF D1, W1
  <2> QED
    BY <2>2, <2>7, <2>8 DEF r
<1>4. Leads(L, M, h[1], Free(names), h[n + 1])
  <2> HIDE DEF h
  <2>1. S \in SUBSET Resources
    BY NamesDiffer
  <2> QED
    BY <1>2, <1>3, <2>1, EachLeads DEF Free
<1>5. h[1] = Box(N, D, W) /\ h[n + 1] = Box(N, D \cup S, W \ S)
  <2>1. 1 \in 1 .. n + 1 /\ n + 1 \in 1 .. n + 1
    BY <1>1
  <2>2. D \cup E(1) = D /\ W \ E(1) = W
    BY <1>1
  <2> QED
    BY <1>1, <2>1, <2>2
<1>6. Box(N, D \cup S, W \ S) \subseteq Box(N2, D2, W2)
  BY BoxIn
<1> HIDE DEF h, n
<1> QED
  BY <1>4, <1>5, <1>6, LeadsFromTo

LEMMA ClearLeads ==
    ASSUME NEW L, NEW M, NEW N, NEW D, NEW W, NEW N2, NEW D2, NEW W2,
           NEW S \in SUBSET Resources, NEW names, Lists(names, S),
           NEW verb \in {"clear", "release"},
           verb = "clear" => S \subseteq D \cup N \cup Files \cup L,
           "new_sock" \notin S, "sock" \in S => Sockets \subseteq N \cup D,
           N2 \subseteq N \cup S, D2 \subseteq D \cup N \cup S, W2 \subseteq W \cup N \cup S
    PROVE  Leads(L, M, Box(N, D, W), Each(verb, names), Box(N2, D2, W2))
<1> DEFINE n == Len(names)
           E(k) == Before(names, k)
           At1(k) == Box(N \cup E(k), D, W)
           h == [k \in 1 .. n + 1 |-> At1(k)]
<1>1. /\ n \in Nat /\ E(1) = {} /\ E(n + 1) = S
      /\ \A k \in 1 .. n : /\ names[k] \in S /\ names[k] \notin E(k)
                           /\ E(k + 1) = E(k) \cup {names[k]}
  BY NamesBefore
<1>2. h \in [1 .. n + 1 -> SUBSET Owners]
  BY DEF Box
<1> HIDE DEF E
<1>3. ASSUME NEW k \in 1 .. n, NEW o \in h[k]
      PROVE  Sound(L, M, <<verb, names[k]>>, o) /\ Done(<<verb, names[k]>>, o) \in h[k + 1]
  <2> DEFINE r == names[k]
             N1 == N \cup E(k)
  <2>1. k \in 1 .. n + 1 /\ k + 1 \in 1 .. n + 1
    BY <1>1
  <2>2. h[k] = At1(k) /\ h[k + 1] = At1(k + 1)
    BY <2>1
  <2>3. r \in S /\ r \in Resources /\ E(k + 1) = E(k) \cup {r}
    BY <1>1
  <2>4. /\ verb = "clear" => r \in D \cup N1 \cup Files \cup L
        /\ r # "new_sock" /\ (r = "sock" => Sockets \subseteq N1 \cup D)
    BY <2>3
  <2>5. N1 \cup {r} = N \cup E(k + 1) /\ o \in Box(N1, D, W)
    BY <1>3, <2>2, <2>3
  <2> HIDE DEF r, N1, h
  <2>6. Sound(L, M, <<verb, r>>, o) /\ Done(<<verb, r>>, o) \in Box(N1 \cup {r}, D, W)
    <3>1. r \in Resources /\ o \in Box(N1, D, W)
      BY <2>3, <2>5
    <3>2. /\ r \in D \cup N1 \cup Files \cup L => Sound(L, M, <<"clear", r>>, o)
          /\ Sound(L, M, <<"release", r>>, o)
          /\ Done(<<"clear", r>>, o) \in Box(N1 \cup {r}, D, W)
          /\ Done(<<"release", r>>, o) \in Box(N1 \cup {r}, D, W)
      BY <2>4, <3>1, ClearOne
    <3>3. CASE verb = "clear"
      BY <2>4, <3>2, <3>3
    <3>4. CASE verb = "release"
      BY <3>2, <3>4
    <3> QED
      BY <3>3, <3>4
  <2> QED
    BY <2>2, <2>5, <2>6 DEF r
<1>4. Leads(L, M, h[1], Each(verb, names), h[n + 1])
  <2> HIDE DEF h
  <2> QED
    BY <1>2, <1>3, EachLeads
<1>5. h[1] = Box(N, D, W) /\ h[n + 1] = Box(N \cup S, D, W)
  <2>1. 1 \in 1 .. n + 1 /\ n + 1 \in 1 .. n + 1
    BY <1>1
  <2>2. N \cup E(1) = N
    BY <1>1
  <2> QED
    BY <1>1, <2>1, <2>2
<1>6. Box(N \cup S, D, W) \subseteq Box(N2, D2, W2)
  BY BoxIn
<1> HIDE DEF h, n
<1> QED
  BY <1>4, <1>5, <1>6, LeadsFromTo

LEMMA AllocLeads ==
    ASSUME NEW L, NEW M, NEW N, NEW D, NEW W, NEW N2, NEW D2, NEW W2,
           NEW S \in SUBSET Resources, NEW names, Lists(names, S),
           S \subseteq D \cup N \cup Files \cup L, S \cap Sockets = {}, "new_fd" \notin S,
           N2 \subseteq N \ S, D2 \subseteq (D \cup N) \ S, W2 \subseteq W \cup N \cup S
    PROVE  Leads(L, M, Box(N, D, W), Alloc(names), Box(N2, D2, W2))
<1> DEFINE n == Len(names)
           E(k) == Before(names, k)
           At1(k) == Box(N \ E(k), D \ E(k), W \cup E(k))
           h == [k \in 1 .. n + 1 |-> At1(k)]
<1>1. /\ n \in Nat /\ E(1) = {} /\ E(n + 1) = S
      /\ \A k \in 1 .. n : /\ names[k] \in S /\ names[k] \notin E(k)
                           /\ E(k + 1) = E(k) \cup {names[k]}
  BY NamesBefore
<1>2. h \in [1 .. n + 1 -> SUBSET Owners]
  BY DEF Box
<1> HIDE DEF E
<1>3. ASSUME NEW k \in 1 .. n, NEW o \in h[k]
      PROVE  Sound(L, M, <<"alloc", names[k]>>, o) /\ Done(<<"alloc", names[k]>>, o) \in h[k + 1]
  <2> DEFINE r == names[k]
             N1 == N \ E(k)
             D1 == D \ E(k)
             W1 == W \cup E(k)
  <2>1. k \in 1 .. n + 1 /\ k + 1 \in 1 .. n + 1
    BY <1>1
  <2>2. h[k] = At1(k) /\ h[k + 1] = At1(k + 1)
    BY <2>1
  <2>3. r \in S /\ r \in Resources /\ r \notin E(k) /\ E(k + 1) = E(k) \cup {r}
    BY <1>1
  <2>4. r \in D1 \cup N1 \cup Files \cup L /\ r \notin Sockets /\ r # "new_fd"
    BY <2>3
  <2>5. /\ N1 \ {r} = N \ E(k + 1) /\ D1 \ {r} = D \ E(k + 1) /\ W1 \cup {r} = W \cup E(k + 1)
        /\ o \in Box(N1, D1, W1)
    BY <1>3, <2>2, <2>3
  <2> HIDE DEF r, N1, D1, W1, h
  <2>6. /\ Sound(L, M, <<"alloc", r>>, o)
        /\ Done(<<"alloc", r>>, o) \in Box(N1 \ {r}, D1 \ {r}, W1 \cup {r})
    BY <2>3, <2>4, <2>5, AllocOne
  <2> QED
    BY <2>2, <2>5, <2>6 DEF r
<1>4. Leads(L, M, h[1], Alloc(names), h[n + 1])
  <2> HIDE DEF h
  <2> QED
    BY <1>2, <1>3, EachLeads DEF Alloc
<1>5. h[1] = Box(N, D, W) /\ h[n + 1] = Box(N \ S, D \ S, W \cup S)
  <2>1. 1 \in 1 .. n + 1 /\ n + 1 \in 1 .. n + 1
    BY <1>1
  <2>2. N \ E(1) = N /\ D \ E(1) = D /\ W \cup E(1) = W
    BY <1>1
  <2> QED
    BY <1>1, <2>1, <2>2
<1>6. Box(N \ S, D \ S, W \cup S) \subseteq Box(N2, D2, W2)
  BY BoxIn
<1>7. Leads(L, M, Box(N, D, W), Alloc(names), Box(N \ S, D \ S, W \cup S))
  BY <1>4, <1>5
<1> HIDE DEF h, n
<1> QED
  BY <1>6, <1>7, LeadsFromTo

-----------------------------------------------------------------------------
(* Assignments                                                             *)

LEMMA AssignLeads ==
    ASSUME NEW L, NEW M, NEW A \in SUBSET Owners, NEW B \in SUBSET Owners,
           NEW f \in Assignments,
           \A o \in A : Sound(L, M, <<"assign", f>>, o) /\ Assigned(f, o) \in B
    PROVE  Leads(L, M, A, Assign(f), B)
<1> DEFINE call == <<"assign", f>>
           s == <<call>>
           h == [k \in 1 .. 2 |-> IF k = 1 THEN A ELSE B]
<1>1. call \in Calls /\ call[1] = "assign" /\ call[2] = f
  BY DEF Calls
<1> HIDE DEF call
<1>2. s \in Seq(Calls) /\ Len(s) = 1 /\ s[1] = call
  BY <1>1
<1>3. h \in [1 .. 2 -> SUBSET Owners] /\ h[1] = A /\ h[2] = B
  OBVIOUS
<1> HIDE DEF s, h
<1>4. ASSUME NEW k \in 1 .. 1, NEW o \in h[k]
      PROVE  Sound(L, M, s[k], o) /\ Done(s[k], o) \in h[k + 1]
  <2>1. k = 1 /\ o \in A
    BY <1>3, <1>4
  <2>2. Done(call, o) = Assigned(f, o) /\ Sound(L, M, call, o) /\ Assigned(f, o) \in B
    BY <1>1, <2>1 DEF Done, call
  <2> QED
    BY <1>2, <1>3, <2>1, <2>2
<1>5. A \subseteq h[1] /\ h[1 + 1] \subseteq B
  BY <1>3
<1>6. h \in [1 .. 1 + 1 -> SUBSET Owners]
  BY <1>3
<1>7. Leads(L, M, A, s, B)
  BY <1>2, <1>4, <1>5, <1>6 DEF Leads
<1> QED
  BY <1>7 DEF Assign, s, call

(* From a box to a box: no socket moves, and a connection only while there *)
(* is none.                                                                *)
Moves(f, N) ==
    /\ f \in Assignments
    /\ DOMAIN f \cap (Sockets \cup {"new_fd", "new_sock"}) = {}
    /\ "sock" \in DOMAIN f => "sock" \in N
    /\ \A r \in DOMAIN f \cap Fresh : f[r] \in Fresh \cup {"live", "null"}

Keeps(L, f, N) ==
    \A r \in DOMAIN f \ {"array"} :
       r \in N \cup Files \cup L \/ \E q \in DOMAIN f : f[q] = r

Reaches(f, N, W, N2, W2) ==
    \A r \in Resources :
       /\ r \in N2 => IF r \in DOMAIN f THEN f[r] \in N \cup {"null"} ELSE r \in N
       /\ r \in W2 => IF r \in DOMAIN f THEN f[r] \in W \cup N \cup Fresh \cup {"live", "null"}
                                      ELSE r \in W \cup N

LEMMA AssignTypes ==
    ASSUME NEW f \in Assignments
    PROVE  /\ DOMAIN f \subseteq Resources
           /\ \A r \in DOMAIN f : f[r] \in Resources \cup {"live", "null"}
BY DEF Assignments

LEMMA BoxAssign ==
    ASSUME NEW L, NEW M, NEW N, NEW W, NEW N2, NEW W2, NEW f,
           Moves(f, N), Keeps(L, f, N), Reaches(f, N, W, N2, W2),
           N \subseteq Resources, W \subseteq Resources
    PROVE  Leads(L, M, Box(N, {}, W), Assign(f), Box(N2, {}, W2))
<1>1. f \in Assignments /\ DOMAIN f \subseteq Resources
      /\ \A r \in DOMAIN f : f[r] \in Resources \cup {"live", "null"}
  BY AssignTypes DEF Moves
<1>2. ASSUME NEW o \in Box(N, {}, W)
      PROVE  Sound(L, M, <<"assign", f>>, o) /\ Assigned(f, o) \in Box(N2, {}, W2)
  <2> DEFINE p == Assigned(f, o)
  <2>1. o \in Owners /\ (\A r \in Resources : o[r] \in States)
        /\ (\A r \in N : o[r] = "null") /\ (\A r \in W : o[r] # "stale")
        /\ (\A r \in Fresh : o[r] # "stale")
    BY DEF Box, Owners
  <2>2. Sound(L, M, <<"assign", f>>, o)
    BY <1>1, <2>1 DEF Sound, Keeps
  <2>3. \A r \in Resources : p[r] = IF r \notin DOMAIN f THEN o[r]
                                    ELSE IF f[r] \in Resources THEN o[f[r]] ELSE f[r]
    BY DEF Assigned
  <2>4. p \in [Resources -> States]
    <3>1. ASSUME NEW r \in Resources
          PROVE  (IF r \notin DOMAIN f THEN o[r]
                  ELSE IF f[r] \in Resources THEN o[f[r]] ELSE f[r]) \in States
      BY <1>1, <2>1 DEF States
    <3> QED
      BY <3>1 DEF Assigned
  <2> HIDE DEF p
  <2>5. \A r \in Fresh : p[r] # "stale"
    <3>1. ASSUME NEW r \in Fresh
          PROVE  p[r] # "stale"
      <4>1. r \in Resources
        BY NamesDiffer
      <4>2. CASE r \notin DOMAIN f
        BY <2>1, <2>3, <4>1, <4>2
      <4>3. CASE r \in DOMAIN f
        <5>1. f[r] \in Fresh \cup {"live", "null"}
          BY <4>3 DEF Moves
        <5> QED
          BY <2>1, <2>3, <4>1, <4>3, <5>1, NamesDiffer
      <4> QED
        BY <4>2, <4>3
    <3> QED
      BY <3>1
  <2>6. Held(p)
    <3>1. Held(o)
      BY <2>1 DEF Owners
    <3>2. \A r \in Sockets \cup {"new_fd", "new_sock"} : p[r] = o[r]
      BY <2>3, NamesDiffer DEF Moves
    <3>3. "sock" \in DOMAIN f => \A fd \in Sockets : o[fd] # "live"
      BY <2>1, <3>1 DEF Moves, Held
    <3>4. "sock" \notin DOMAIN f => p["sock"] = o["sock"]
      BY <2>3, NamesDiffer
    <3> QED
      BY <3>1, <3>2, <3>3, <3>4 DEF Held
  <2>7. ASSUME NEW r \in Resources
        PROVE  /\ r \in N2 => p[r] = "null"
               /\ r \in W2 => p[r] # "stale"
    <3>1. CASE r \notin DOMAIN f
      BY <2>1, <2>3, <3>1 DEF Reaches
    <3>2. CASE r \in DOMAIN f
      <4>1. r \in N2 => f[r] \in N \cup {"null"}
        BY <3>2 DEF Reaches
      <4>2. r \in W2 => f[r] \in W \cup N \cup Fresh \cup {"live", "null"}
        BY <3>2 DEF Reaches
      <4>3. p[r] = IF f[r] \in Resources THEN o[f[r]] ELSE f[r]
        BY <2>3, <3>2
      <4> QED
        BY <2>1, <4>1, <4>2, <4>3, NamesDiffer
    <3> QED
      BY <3>1, <3>2
  <2>8. p \in Box(N2, {}, W2)
    BY <2>4, <2>5, <2>6, <2>7 DEF Box, Owners
  <2> QED
    BY <2>2, <2>8 DEF p
<1>3. Box(N, {}, W) \in SUBSET Owners /\ Box(N2, {}, W2) \in SUBSET Owners
  BY DEF Box
<1> QED
  BY <1>1, <1>2, <1>3, AssignLeads
-----------------------------------------------------------------------------
(* The operations of the machine                                           *)

(* What a connection consists of, and what destroy_ijvm resets.            *)
Connection == {"sock", "accepted_fd"} \cup Sockets
Tables == {"arr_map", "arr_values", "net_map", "net_values"}
Reset == Connection \cup {"array"} \cup Tables

(* What it frees and leaves as it is.                                      *)
Left == CpuPointers \cup {"marked_arrays"}

LEMMA FreeAndClearLeads ==
    ASSUME NEW L, NEW M, NEW N, NEW D, NEW W, NEW N2, NEW D2, NEW W2,
           NEW r \in Pointers, r # "sock",
           r \in M => r \in W \cup N,
           N2 \subseteq N \cup {r}, D2 \subseteq D \cup N \cup {r}, W2 \subseteq W \cup N \cup {r}
    PROVE  Leads(L, M, Box(N, D, W), FreeAndClear(r), Box(N2, D2, W2))
<1>1. Lists(<<r>>, {r}) /\ {r} \subseteq Resources /\ "new_sock" \notin {r}
  BY OneName, NamesDiffer
<1>2. Leads(L, M, Box(N, D, W), Free(<<r>>), Box(N, D \cup {r}, W \ {r}))
  BY <1>1, FreeLeads
<1>3. Leads(L, M, Box(N, D \cup {r}, W \ {r}), Clear(<<r>>), Box(N2, D2, W2))
  BY <1>1, ClearLeads DEF Clear
<1> QED
  BY <1>2, <1>3, LeadsOn DEF FreeAndClear

LEMMA NetCloseLeads ==
    ASSUME NEW L, NEW M, NEW N, NEW D, NEW W, NEW N2, NEW D2, NEW W2,
           "sock" \in M => "sock" \in W \cup N,
           N2 \subseteq N \cup Connection, D2 \subseteq D \cup N \cup Connection,
           W2 \subseteq W \cup N \cup Connection
    PROVE  Leads(L, M, Box(N, D, W), net_close, Box(N2, D2, W2))
<1> DEFINE ends == {"client_fd", "server_fd"}
           rests == {"idle_fd", "accepted_fd"}
           N3 == N \cup ends
           N4 == N3 \cup rests
           D5 == D \cup {"sock"}
           W5 == W \ {"sock"}
<1>1. /\ Lists(<<"client_fd", "server_fd">>, ends) /\ Lists(<<"idle_fd", "accepted_fd">>, rests)
      /\ Lists(<<"sock">>, {"sock"})
  BY OneName, TwoNames
<1>2. /\ ends \subseteq Resources /\ rests \subseteq Resources /\ rests \subseteq Files
      /\ "sock" \notin ends \cup rests /\ "new_sock" \notin ends \cup rests
      /\ Sockets \subseteq ends \cup rests /\ Connection = ends \cup rests \cup {"sock"}
      /\ {"sock"} \subseteq Resources /\ "new_sock" # "sock"
  BY NamesDiffer DEF Sockets, Files, Connection, Fresh, Descriptors
<1> HIDE DEF ends, rests
<1>3. Leads(L, M, Box(N, D, W), Release(<<"client_fd", "server_fd">>), Box(N3, D, W))
  BY <1>1, <1>2, ClearLeads DEF Release
<1>4. Leads(L, M, Box(N3, D, W), Clear(<<"idle_fd", "accepted_fd">>), Box(N4, D, W))
  <2>1. rests \subseteq D \cup N3 \cup Files \cup L
    BY <1>2
  <2> HIDE DEF N3
  <2> QED
    BY <1>1, <1>2, <2>1, ClearLeads DEF Clear
<1>5. Leads(L, M, Box(N4, D, W), Free(<<"sock">>), Box(N4, D5, W5))
  <2>1. {"sock"} \subseteq Pointers /\ Sockets \subseteq N4 \cup D
        /\ {"sock"} \cap M \subseteq W \cup N4
    BY <1>2, NamesDiffer
  <2> HIDE DEF N4
  <2> QED
    BY <1>1, <2>1, FreeLeads
<1>6. Leads(L, M, Box(N4, D5, W5), Clear(<<"sock">>), Box(N2, D2, W2))
  <2>1. /\ {"sock"} \subseteq D5 \cup N4 \cup Files \cup L /\ Sockets \subseteq N4 \cup D5
        /\ "new_sock" \notin {"sock"}
    BY <1>2
  <2>2. /\ N2 \subseteq N4 \cup {"sock"} /\ D2 \subseteq D5 \cup N4 \cup {"sock"}
        /\ W2 \subseteq W5 \cup N4 \cup {"sock"}
    BY <1>2
  <2> HIDE DEF N4, D5, W5
  <2> QED
    BY <1>1, <1>2, <2>1, <2>2, ClearLeads DEF Clear
<1> HIDE DEF N3, N4, D5, W5
<1> QED
  BY <1>3, <1>4, <1>5, <1>6, LeadsOn DEF net_close, FreeAndClear

(* A table: its map and its values. *)
LEMMA TableLeads ==
    ASSUME NEW L, NEW M, NEW N, NEW D, NEW W, NEW N2, NEW D2, NEW W2, NEW t,
           t \in {arr_mem, net_conn},
           M \cap {t.map, t.values} \subseteq W \cup N,
           N2 \subseteq N \cup {t.map, t.values},
           D2 \subseteq D \cup N \cup {t.map, t.values},
           W2 \subseteq W \cup N \cup {t.map, t.values}
    PROVE  Leads(L, M, Box(N, D, W), marr_destroy(t), Box(N2, D2, W2))
<1> DEFINE S == {t.map, t.values}
<1>1. /\ Lists(<<t.map, t.values>>, S) /\ S \subseteq Pointers /\ S \subseteq Resources
      /\ "sock" \notin S /\ "new_sock" \notin S
  <2>1. t.map # t.values /\ S \subseteq TablePointers /\ "sock" \notin S /\ "new_sock" \notin S
    BY DEF arr_mem, net_conn, TablePointers
  <2> QED
    BY <2>1, TwoNames, NamesDiffer DEF Pointers, MachinePointers
<1>2. Leads(L, M, Box(N, D, W), Free(<<t.map, t.values>>), Box(N, D \cup S, W \ S))
  <2>1. S \cap M \subseteq W \cup N
    OBVIOUS
  <2> HIDE DEF S
  <2> QED
    BY <1>1, <2>1, FreeLeads
<1>3. Leads(L, M, Box(N, D \cup S, W \ S), Clear(<<t.map, t.values>>), Box(N2, D2, W2))
  <2>1. /\ N2 \subseteq N \cup S /\ D2 \subseteq (D \cup S) \cup N \cup S
        /\ W2 \subseteq (W \ S) \cup N \cup S
    OBVIOUS
  <2> HIDE DEF S
  <2> QED
    BY <1>1, <2>1, ClearLeads DEF Clear
<1> HIDE DEF S
<1> QED
  BY <1>2, <1>3, LeadsOn DEF marr_destroy

LEMMA DestroyLeads ==
    ASSUME NEW L, NEW M, NEW N, NEW D, NEW W, NEW N2, NEW D2, NEW W2,
           M \cap MachinePointers \subseteq W \cup N,
           N2 \subseteq N \cup Reset, D2 \subseteq D \cup N \cup Reset \cup Left,
           W2 \subseteq (W \ Left) \cup N \cup Reset
    PROVE  Leads(L, M, Box(N, D, W), destroy_ijvm, Box(N2, D2, W2))
<1> DEFINE N3 == N \cup Connection
           N4 == N3 \cup {"net_map", "net_values"}
           N5 == N4 \cup {"array"}
           N6 == N5 \cup {"arr_map", "arr_values"}
           D7 == D \cup {"marked_arrays"}
           W7 == W \ {"marked_arrays"}
<1>1. /\ {"sock", "array", "marked_arrays"} \cup Tables \subseteq MachinePointers
      /\ CpuPointers \subseteq MachinePointers /\ MachinePointers \subseteq Pointers
      /\ N6 = N \cup Reset
  BY DEF Pointers, MachinePointers, TablePointers, CpuPointers, Reset, Tables
<1>2. Leads(L, M, Box(N, D, W), net_close, Box(N3, D, W))
  BY <1>1, NetCloseLeads
<1>3. Leads(L, M, Box(N3, D, W), marr_destroy(net_conn), Box(N4, D, W))
  BY <1>1, TableLeads DEF net_conn, Tables
<1>4. Leads(L, M, Box(N4, D, W), FreeAndClear("array"), Box(N5, D, W))
  BY <1>1, FreeAndClearLeads
<1>5. Leads(L, M, Box(N5, D, W), marr_destroy(arr_mem), Box(N6, D, W))
  BY <1>1, TableLeads DEF arr_mem, Tables
<1>6. Leads(L, M, Box(N6, D, W), Free(<<"marked_arrays">>), Box(N6, D7, W7))
  <2>1. Lists(<<"marked_arrays">>, {"marked_arrays"})
    BY OneName
  <2> QED
    BY <1>1, <2>1, FreeLeads
<1>7. Leads(L, M, Box(N6, D7, W7), cpu_destroy, Box(N2, D2, W2))
  <2>1. Lists(<<"stack", "code_mem", "const_mem">>, CpuPointers)
    BY ThreeNames DEF CpuPointers
  <2>2. "sock" \notin CpuPointers /\ "marked_arrays" \notin CpuPointers
    BY DEF CpuPointers
  <2>3. CpuPointers \cap M \subseteq W7 \cup N6
    BY <1>1, <2>2
  <2>4. N2 \subseteq N6 /\ D2 \subseteq D7 \cup N6 \cup CpuPointers
        /\ W2 \subseteq (W7 \ CpuPointers) \cup N6
    BY <1>1 DEF Left
  <2> HIDE DEF N6, D7, W7
  <2> QED
    BY <1>1, <2>1, <2>2, <2>3, <2>4, FreeLeads DEF cpu_destroy
<1> HIDE DEF N3, N4, N5, N6, D7, W7
<1>8. Leads(L, M, Box(N, D, W), net_destroy, Box(N4, D, W))
  BY <1>2, <1>3, LeadsOn DEF net_destroy
<1>9. Leads(L, M, Box(N4, D, W), arr_destroy, Box(N6, D7, W7))
  BY <1>4, <1>5, <1>6, LeadsOn DEF arr_destroy, arr_remove
<1> QED
  BY <1>7, <1>8, <1>9, LeadsOn DEF destroy_ijvm

-----------------------------------------------------------------------------
(* The operations of the debugger, and loading                             *)

Labels == {"func_label", "sec_label"}
Own == {"call_history", "last_prog", "brkpts"}
Symbolic == Labels \cup {"symbols_file"}

LEMMA NamesOfOne ==
    /\ Labels \subseteq Pointers /\ Own \subseteq Pointers /\ CpuPointers \subseteq Pointers
    /\ DebuggerPointers = Labels \cup Own
    /\ "sock" \notin DebuggerPointers /\ "sock" \notin CpuPointers
    /\ Sockets \cap Pointers = {} /\ "symbols_file" \in Files
    /\ "new_sock" \notin Pointers /\ "new_fd" \notin Pointers /\ "symbols_file" \notin Sockets
    /\ MachinePointers \subseteq Reset \cup Left
    /\ Pointers = MachinePointers \cup DebuggerPointers
    /\ DebuggerPointers \cap (Reset \cup Left) = {}
    /\ CpuPointers \subseteq Left /\ CpuPointers \cap Reset = {}
    /\ Left = CpuPointers \cup {"marked_arrays"}
    /\ "marked_arrays" \notin Reset /\ "marked_arrays" \notin CpuPointers
    /\ "marked_arrays" \in MachinePointers
    /\ Locals \subseteq Resources /\ Locals \cap Pointers = {} /\ Locals \cap Sockets = {}
    /\ Locals \cap Symbolic = {} /\ Locals \cap Reset = {} /\ "new_fd" \notin Locals
BY DEF Labels, Own, CpuPointers, DebuggerPointers, Sockets, Pointers, Files, Reset, Left,
       MachinePointers, TablePointers, Tables, Connection, Locals, Symbolic, Resources

LEMMA LabelLists ==
    /\ Lists(<<"func_label", "sec_label">>, Labels)
    /\ Lists(<<"call_history", "last_prog", "brkpts">>, Own)
    /\ Lists(<<"last_prog", "brkpts">>, {"last_prog", "brkpts"})
    /\ Lists(<<"const_mem", "code_mem">>, {"const_mem", "code_mem"})
    /\ Lists(<<"out_file", "in_file">>, {"out_file", "in_file"})
    /\ \A a \in Resources : Lists(<<a>>, {a})
<1>1. Lists(<<"func_label", "sec_label">>, Labels)
  BY TwoNames DEF Labels
<1>2. Lists(<<"call_history", "last_prog", "brkpts">>, Own)
  BY ThreeNames DEF Own
<1>3. /\ Lists(<<"last_prog", "brkpts">>, {"last_prog", "brkpts"})
      /\ Lists(<<"const_mem", "code_mem">>, {"const_mem", "code_mem"})
      /\ Lists(<<"out_file", "in_file">>, {"out_file", "in_file"})
  BY TwoNames
<1>4. \A a \in Resources : Lists(<<a>>, {a})
  BY OneName
<1> QED
  BY <1>1, <1>2, <1>3, <1>4

LEMMA DestroyDataLeads ==
    ASSUME NEW L, NEW M, NEW N, NEW D, NEW W, NEW N2, NEW D2, NEW W2,
           M \cap Labels \subseteq W \cup N,
           N2 \subseteq N, D2 \subseteq D \cup N \cup Labels, W2 \subseteq (W \ Labels) \cup N
    PROVE  Leads(L, M, Box(N, D, W), destroy_debug_data, Box(N2, D2, W2))
BY LabelLists, NamesOfOne, FreeLeads DEF destroy_debug_data

LEMMA InitDataLeads ==
    ASSUME NEW L, NEW M, NEW N, NEW D, NEW W, NEW N2, NEW D2, NEW W2,
           Labels \subseteq D \cup N,
           N2 \subseteq N \cup Labels, D2 \subseteq D \cup N \cup Labels,
           W2 \subseteq W \cup N \cup Labels
    PROVE  Leads(L, M, Box(N, D, W), init_debug_data, Box(N2, D2, W2))
<1>1. /\ Lists(<<"func_label", "sec_label">>, Labels)
      /\ Labels \subseteq Resources /\ "sock" \notin Labels /\ "new_sock" \notin Labels
      /\ Labels \subseteq D \cup N \cup Files
  BY LabelLists, NamesOfOne, NamesDiffer
<1> QED
  BY <1>1, ClearLeads DEF init_debug_data, Clear

LEMMA RenewDataLeads ==
    ASSUME NEW L, NEW M, NEW N, NEW D, NEW W, NEW N2, NEW D2, NEW W2,
           M \cap Labels \subseteq W \cup N,
           N2 \subseteq N \cup Labels, D2 \subseteq D \cup N \cup Labels,
           W2 \subseteq W \cup N \cup Labels
    PROVE  Leads(L, M, Box(N, D, W), renew_debug_data, Box(N2, D2, W2))
<1>1. Leads(L, M, Box(N, D, W), destroy_debug_data, Box(N, D \cup Labels, W \ Labels))
  BY DestroyDataLeads
<1>2. Leads(L, M, Box(N, D \cup Labels, W \ Labels), init_debug_data, Box(N2, D2, W2))
  BY InitDataLeads
<1> QED
  BY <1>1, <1>2, LeadsOn DEF renew_debug_data

LEMMA RenewDebuggerLeads ==
    ASSUME NEW L, NEW M, NEW N, NEW D, NEW W, NEW N2, NEW D2, NEW W2,
           M \cap Own \subseteq W \cup N,
           N2 \subseteq N \ Own, D2 \subseteq (D \cup N) \ Own,
           W2 \subseteq W \cup N \cup Own
    PROVE  Leads(L, M, Box(N, D, W), renew_debugger, Box(N2, D2, W2))
<1> DEFINE paths == {"last_prog", "brkpts"}
           N1 == N \ {"call_history"}
           D0 == D \cup Own
           D1 == D0 \ {"call_history"}
           W0 == W \ Own
           W1 == W0 \cup {"call_history"}
<1>1. /\ Lists(<<"call_history", "last_prog", "brkpts">>, Own) /\ Own \subseteq Pointers
      /\ Lists(<<"last_prog", "brkpts">>, paths) /\ paths \subseteq Own
      /\ Lists(<<"call_history">>, {"call_history"})
      /\ Own \subseteq Resources /\ "sock" \notin Own /\ Own \cap Sockets = {}
      /\ "new_sock" \notin Own /\ "new_fd" \notin Own
      /\ Own = paths \cup {"call_history"}
  <2>1. Own = paths \cup {"call_history"}
    BY DEF Own
  <2> QED
    BY <2>1, LabelLists, NamesOfOne, NamesDiffer, OneName
<1>2. Leads(L, M, Box(N, D, W), destroy_debugger, Box(N, D0, W0))
  BY <1>1, FreeLeads DEF destroy_debugger
<1>3. Leads(L, M, Box(N, D0, W0), Alloc(<<"call_history">>), Box(N1, D1, W1))
  <2>1. {"call_history"} \subseteq D0 /\ {"call_history"} \subseteq Resources
        /\ {"call_history"} \cap Sockets = {} /\ "new_fd" \notin {"call_history"}
    BY <1>1
  <2>2. N1 \subseteq N \ {"call_history"} /\ D1 \subseteq (D0 \cup N) \ {"call_history"}
        /\ W1 \subseteq W0 \cup N \cup {"call_history"}
    OBVIOUS
  <2>3. {"call_history"} \subseteq D0 \cup N \cup Files
    BY <2>1
  <2> HIDE DEF N1, D1, W1, D0, W0
  <2> QED
    BY <1>1, <2>1, <2>2, <2>3, AllocLeads
<1>4. Leads(L, M, Box(N1, D1, W1), Clear(<<"last_prog", "brkpts">>), Box(N2, D2, W2))
  <2>1. /\ N2 \subseteq N1 \cup paths /\ D2 \subseteq D1 \cup N1 \cup paths
        /\ W2 \subseteq W1 \cup N1 \cup paths
    BY <1>1
  <2>2. paths \subseteq D1 \cup N1 \cup Files /\ paths \subseteq Resources /\ "sock" \notin paths
        /\ "new_sock" \notin paths
    BY <1>1
  <2> HIDE DEF N1, D1, W1, paths
  <2> QED
    BY <1>1, <2>1, <2>2, ClearLeads DEF Clear
<1> HIDE DEF N1, D0, D1, W0, W1
<1>5. Leads(L, M, Box(N, D0, W0), init_debugger, Box(N2, D2, W2))
  BY <1>3, <1>4, LeadsOn DEF init_debugger
<1> QED
  BY <1>2, <1>5, LeadsOn DEF renew_debugger

(* Reading a program                                                       *)

Loaded == {"const_mem", "code_mem"}

LEMMA LoadBinLeads ==
    ASSUME NEW L, NEW M, NEW N, NEW D, NEW W, NEW N2, NEW D2, NEW W2,
           Loaded \subseteq D \cup N,
           N2 \subseteq N \ Loaded, D2 \subseteq (D \cup N) \ Loaded,
           W2 \subseteq W \cup N \cup Loaded
    PROVE  Leads(L, M, Box(N, D, W), load_bin, Box(N2, D2, W2))
<1>1. /\ Lists(<<"const_mem", "code_mem">>, Loaded) /\ Loaded \subseteq Resources
      /\ Loaded \cap Sockets = {} /\ "new_fd" \notin Loaded
  BY LabelLists, NamesDiffer, NamesOfOne DEF Loaded, CpuPointers
<1>2. Loaded \subseteq D \cup N \cup Files
  OBVIOUS
<1> QED
  BY <1>1, <1>2, AllocLeads DEF load_bin

LEMMA InitLeads ==
    ASSUME NEW L, NEW M, NEW N, NEW D, NEW W, NEW N2, NEW D2, NEW W2,
           CpuPointers \subseteq D \cup N,
           N2 \subseteq N \ CpuPointers, D2 \subseteq (D \cup N) \ CpuPointers,
           W2 \subseteq W \cup N \cup CpuPointers
    PROVE  Leads(L, M, Box(N, D, W), init_ijvm, Box(N2, D2, W2))
<1> DEFINE N0 == N \ Loaded
           D0 == (D \cup N) \ Loaded
           W0 == W \cup N \cup Loaded
           N1 == N0 \ {"stack"}
           D1 == (D0 \cup N0) \ {"stack"}
           W1 == W0 \cup N0 \cup {"stack"}
           files == {"out_file", "in_file"}
<1>1. /\ CpuPointers = Loaded \cup {"stack"} /\ "stack" \notin Loaded
      /\ "stack" \in Resources /\ "stack" \notin Sockets
      /\ files \subseteq Files /\ files \subseteq Resources /\ "sock" \notin files
      /\ "new_sock" \notin files
      /\ Lists(<<"out_file", "in_file">>, files)
      /\ Lists(<<"stack">>, {"stack"})
  BY OneName, LabelLists, NamesDiffer, NamesOfOne
     DEF Loaded, CpuPointers, Files, Resources, Descriptors
<1>2. Leads(L, M, Box(N, D, W), load_bin, Box(N0, D0, W0))
  BY <1>1, LoadBinLeads
<1>3. Leads(L, M, Box(N0, D0, W0), Alloc(<<"stack">>), Box(N1, D1, W1))
  <2>1. {"stack"} \subseteq D0 \cup N0 \cup Files /\ {"stack"} \cap Sockets = {}
        /\ {"stack"} \subseteq Resources
    BY <1>1
  <2> HIDE DEF N0, D0, W0
  <2> QED
    BY <1>1, <2>1, AllocLeads
<1>4. Leads(L, M, Box(N1, D1, W1), Clear(<<"out_file", "in_file">>), Box(N2, D2, W2))
  <2>1. N2 \subseteq N1 \cup files /\ D2 \subseteq D1 \cup N1 \cup files
        /\ W2 \subseteq W1 \cup N1 \cup files
    BY <1>1
  <2>2. files \subseteq D1 \cup N1 \cup Files
    BY <1>1
  <2> HIDE DEF N1, D1, W1, files
  <2> QED
    BY <1>1, <2>1, <2>2, ClearLeads DEF Clear
<1> HIDE DEF N0, D0, W0, N1, D1, W1
<1> QED
  BY <1>2, <1>3, <1>4, LeadsOn DEF init_ijvm

LEMMA LoadFailureLeads ==
    ASSUME NEW L, NEW M, NEW N, NEW D, NEW W, NEW N2, NEW D2, NEW W2,
           NEW failure \in load_bin_failures, Loaded \subseteq D \cup N,
           N2 \subseteq N \ Loaded, D2 \subseteq (D \cup N) \ Loaded, W2 \subseteq W \cup N
    PROVE  Leads(L, M, Box(N, D, W), failure, Box(N2, D2, W2))
<1> DEFINE Target == Box(N2, D2, W2)
           const == {"const_mem"}
           code == {"code_mem"}
           N0 == N \ const
           D0 == (D \cup N) \ const
           W0 == W \cup N
<1>1. /\ Loaded = const \cup code /\ Loaded \subseteq Resources
      /\ Loaded \cap Sockets = {} /\ "sock" \notin Loaded /\ "code_mem" \notin const
      /\ "new_sock" \notin Loaded /\ "new_fd" \notin Loaded
      /\ Lists(<<"const_mem">>, const) /\ Lists(<<"code_mem">>, code)
  BY OneName, NamesDiffer, NamesOfOne DEF Loaded, CpuPointers
<1>2. Leads(L, M, Box(N, D, W), <<>>, Target)
  <2>1. Box(N, D, W) \subseteq Target
    BY BoxIn
  <2>2. Box(N, D, W) \in SUBSET Owners
    BY DEF Box
  <2> HIDE DEF Target
  <2> QED
    BY <2>1, <2>2, LeadsNowhere, LeadsFromTo
<1>3. Leads(L, M, Box(N, D, W), Clear(<<"const_mem">>), Target)
  <2>1. const \subseteq D \cup N \cup Files /\ const \subseteq Resources /\ "sock" \notin const
        /\ "new_sock" \notin const
    BY <1>1
  <2>2. N2 \subseteq N \cup const /\ D2 \subseteq D \cup N \cup const
        /\ W2 \subseteq W \cup N \cup const
    BY <1>1
  <2> HIDE DEF const
  <2> QED
    BY <1>1, <2>1, <2>2, ClearLeads DEF Clear
<1>4. Leads(L, M, Box(N, D, W), Alloc(<<"const_mem">>), Box(N0, D0, W0))
  <2>1. const \subseteq D \cup N \cup Files /\ const \subseteq Resources /\ const \cap Sockets = {}
        /\ "new_fd" \notin const
    BY <1>1
  <2>2. W0 \subseteq W \cup N \cup const
    OBVIOUS
  <2> HIDE DEF const, W0
  <2> QED
    BY <1>1, <2>1, <2>2, AllocLeads
<1>5. Box(N0, D0, W0) \subseteq Target
  <2>1. N2 \subseteq N0 /\ D2 \subseteq D0 \cup N0 /\ W2 \subseteq W0 \cup N0
    BY <1>1
  <2> HIDE DEF N0, D0, W0
  <2> QED
    BY <2>1, BoxIn
<1>6. Leads(L, M, Box(N0, D0, W0), Clear(<<"code_mem">>), Target)
  <2>1. code \subseteq D0 \cup N0 \cup Files /\ code \subseteq Resources /\ "sock" \notin code
        /\ "new_sock" \notin code
    BY <1>1
  <2>2. N2 \subseteq N0 \cup code /\ D2 \subseteq D0 \cup N0 \cup code
        /\ W2 \subseteq W0 \cup N0 \cup code
    BY <1>1
  <2> HIDE DEF code, N0, D0, W0
  <2> QED
    BY <1>1, <2>1, <2>2, ClearLeads DEF Clear
<1>7. Leads(L, M, Box(N, D, W), Alloc(<<"const_mem", "code_mem">>), Target)
  BY LoadBinLeads DEF load_bin
<1> HIDE DEF Target, N0, D0, W0
<1>8. Leads(L, M, Box(N, D, W), Alloc(<<"const_mem">>), Target)
  BY <1>4, <1>5, LeadsFromTo
<1>9. Leads(L, M, Box(N, D, W), Alloc(<<"const_mem">>) \o Clear(<<"code_mem">>), Target)
  BY <1>4, <1>6, LeadsOn
<1>10. Leads(L, M, Box(N, D, W), failure, Target)
  BY <1>2, <1>3, <1>7, <1>8, <1>9 DEF load_bin_failures
<1> QED
  BY <1>10 DEF Target

(* A load that fails, or ends the process, frees the machine again.        *)
LEMMA InitFailureLeads ==
    ASSUME NEW L, NEW M, NEW N, NEW D, NEW W, NEW N2, NEW D2, NEW W2,
           NEW script \in init_ijvm_failures \cup init_ijvm_exits,
           CpuPointers \subseteq D \cup N,
           M \cap MachinePointers \subseteq W \cup N,
           N2 \subseteq (N \ CpuPointers) \cup Reset, D2 \subseteq Reset \cup Left,
           W2 \subseteq (W \ Left) \cup Reset
    PROVE  Leads(L, M, Box(N, D, W), script, Box(N2, D2, W2))
<1> DEFINE N0 == N \ Loaded
           D0 == (D \cup N) \ Loaded
           W0 == W \cup N
           Target == Box(N2, D2, W2)
           Read == Box(N0, D0, W0)
           NoStack == Box(N0 \ {"stack"}, D0, W0)
<1>1. /\ CpuPointers = Loaded \cup {"stack"} /\ "stack" \notin Loaded
      /\ "stack" \in Resources /\ "stack" # "sock"
      /\ Lists(<<"stack">>, {"stack"})
  BY OneName, NamesDiffer, NamesOfOne DEF Loaded, CpuPointers
<1>2. Leads(L, M, Box(N0 \ {"stack"}, D0, W0), destroy_ijvm, Target)
  <2>1. M \cap MachinePointers \subseteq W0 \cup (N0 \ {"stack"})
    OBVIOUS
  <2>2. /\ N2 \subseteq (N0 \ {"stack"}) \cup Reset
        /\ D2 \subseteq D0 \cup (N0 \ {"stack"}) \cup Reset \cup Left
        /\ W2 \subseteq (W0 \ Left) \cup (N0 \ {"stack"}) \cup Reset
    BY <1>1
  <2> HIDE DEF N0, D0, W0
  <2> QED
    BY <2>1, <2>2, DestroyLeads
<1>3. Leads(L, M, Read, destroy_ijvm, Target)
  <2>1. Read \subseteq NoStack
    BY BoxIn
  <2> HIDE DEF N0, D0, W0
  <2> QED
    BY <1>2, <2>1, LeadsFromTo
<1>4. ASSUME NEW failure \in load_bin_failures
      PROVE  Leads(L, M, Box(N, D, W), failure \o destroy_ijvm, Target)
  <2>1. Leads(L, M, Box(N, D, W), failure, Read)
    BY <1>1, LoadFailureLeads
  <2> HIDE DEF Read, Target
  <2> QED
    BY <1>3, <2>1, LeadsOn
<1>5. load_bin \in load_bin_failures
  BY DEF load_bin_failures, load_bin
<1>6. Leads(L, M, Box(N, D, W), load_bin \o Clear(<<"stack">>) \o destroy_ijvm, Target)
  <2>1. Leads(L, M, Box(N, D, W), load_bin, Read)
    BY <1>1, <1>5, LoadFailureLeads
  <2>2. Leads(L, M, Read, Clear(<<"stack">>), NoStack)
    <3>1. {"stack"} \subseteq D0 \cup N0 \cup Files /\ {"stack"} \subseteq Resources
          /\ "sock" \notin {"stack"}
      BY <1>1
    <3>2. N0 \ {"stack"} \subseteq N0 \cup {"stack"} /\ D0 \subseteq D0 \cup N0 \cup {"stack"}
          /\ W0 \subseteq W0 \cup N0 \cup {"stack"}
      OBVIOUS
    <3> HIDE DEF N0, D0, W0
    <3> QED
      BY <1>1, <3>1, <3>2, ClearLeads DEF Clear
  <2> HIDE DEF Target, Read, N0, D0, W0
  <2> QED
    BY <1>2, <2>1, <2>2, LeadsOn
<1>7. Leads(L, M, Box(N, D, W), script, Target)
  BY <1>4, <1>5, <1>6 DEF init_ijvm_failures, init_ijvm_exits
<1> QED
  BY <1>7 DEF Target

(* Whichever symbols are read, and whether they are read to the end.       *)
LEMMA ReadSymbolsLeads ==
    ASSUME NEW L, NEW M, NEW N, NEW D, NEW W, NEW N2, NEW D2, NEW W2,
           NEW symbols \in Symbols, Labels \subseteq D \cup N,
           N2 \subseteq N \ Symbolic, D2 \subseteq (D \cup N) \ Symbolic, W2 \subseteq W \cup N
    PROVE  Leads(L, M, Box(N, D, W), Alloc(<<"symbols_file">> \o symbols), Box(N2, D2, W2))
<1> DEFINE names == <<"symbols_file">> \o symbols
<1>1. Labels \subseteq Resources /\ "symbols_file" \in Files /\ "symbols_file" \in Resources
      /\ Labels \cap Sockets = {} /\ "symbols_file" \notin Sockets
      /\ "new_fd" \notin Labels /\ "symbols_file" # "new_fd"
      /\ Labels = {"func_label", "sec_label"}
  BY NamesOfOne, NamesDiffer DEF Labels
<1>2. PICK S : S \subseteq Symbolic /\ Lists(names, S)
  <2>1. PICK T : T \subseteq Labels /\ Lists(symbols, T)
    <3>1. Lists(<<>>, {}) /\ Lists(<<"func_label">>, {"func_label"})
          /\ Lists(<<"sec_label">>, {"sec_label"})
          /\ Lists(<<"func_label", "sec_label">>, {"func_label", "sec_label"})
      BY NoNames, OneName, TwoNames
    <3> QED
      BY <1>1, <3>1 DEF Symbols
  <2>2. "symbols_file" \notin T
    BY <1>1, <2>1
  <2> QED
    BY <2>1, <2>2, MoreNames DEF Symbolic
<1>3. S \subseteq Resources /\ S \subseteq D \cup N \cup Files /\ S \cap Sockets = {}
      /\ "new_fd" \notin S
  BY <1>1, <1>2 DEF Symbolic
<1>4. N2 \subseteq N \ S /\ D2 \subseteq (D \cup N) \ S /\ W2 \subseteq W \cup N \cup S
  BY <1>2
<1> HIDE DEF names
<1>5. Leads(L, M, Box(N, D, W), Alloc(names), Box(N2, D2, W2))
  BY <1>2, <1>3, <1>4, AllocLeads
<1> QED
  BY <1>5 DEF names

LEMMA SymbolsLeads ==
    ASSUME NEW L, NEW M, NEW N, NEW D, NEW W, NEW N2, NEW D2, NEW W2,
           NEW script \in load_debug_data \cup load_debug_data_failures,
           Labels \subseteq D \cup N, M \cap Labels \subseteq W \cup N,
           N2 \subseteq N \ Symbolic, D2 \subseteq (D \cup N) \ Symbolic, W2 \subseteq W \cup N
    PROVE  Leads(L, M, Box(N, D, W), script, Box(N2, D2, W2))
<1> DEFINE N0 == N \ Symbolic
           D0 == (D \cup N) \ Symbolic
           W0 == W \cup N
           Target == Box(N2, D2, W2)
           Read == Box(N0, D0, W0)
           file == {"symbols_file"}
<1>1. Lists(<<"symbols_file">>, file) /\ file \subseteq Files /\ file \subseteq Resources
      /\ "sock" \notin file /\ "new_sock" \notin file
  BY OneName, NamesOfOne, NamesDiffer
<1>2. ASSUME NEW verb \in {"clear", "release"}
      PROVE  Leads(L, M, Read, Each(verb, <<"symbols_file">>), Target)
  <2>1. N2 \subseteq N0 \cup file /\ D2 \subseteq D0 \cup N0 \cup file
        /\ W2 \subseteq W0 \cup N0 \cup file
    OBVIOUS
  <2>2. file \subseteq D0 \cup N0 \cup Files
    BY <1>1
  <2> HIDE DEF N0, D0, W0, file
  <2> QED
    BY <1>1, <1>2, <2>1, <2>2, ClearLeads
<1>3. Leads(L, M, Read, Release(<<"symbols_file">>), Target)
      /\ Leads(L, M, Read, Clear(<<"symbols_file">>), Target)
  BY <1>2 DEF Release, Clear
<1> DEFINE Freed == Box(N0, D0 \cup Labels, W0 \ Labels)
<1>4. Leads(L, M, Read, destroy_debug_data, Freed) /\ Leads(L, M, Freed, init_debug_data, Read)
  <2>1. M \cap Labels \subseteq W0 \cup N0
    OBVIOUS
  <2> HIDE DEF N0, D0, W0
  <2>2. Leads(L, M, Box(N0, D0, W0), destroy_debug_data, Freed)
    BY <2>1, DestroyDataLeads
  <2>3. Leads(L, M, Freed, init_debug_data, Box(N0, D0, W0))
    BY InitDataLeads
  <2> QED
    BY <2>2, <2>3
<1>5. \A symbols \in Symbols :
         Leads(L, M, Box(N, D, W), Alloc(<<"symbols_file">> \o symbols), Read)
  BY ReadSymbolsLeads
<1>6. Leads(L, M, Box(N, D, W), <<>>, Target)
  <2>1. Box(N, D, W) \subseteq Target
    BY BoxIn
  <2>2. Box(N, D, W) \in SUBSET Owners
    BY DEF Box
  <2> HIDE DEF Target
  <2> QED
    BY <2>1, <2>2, LeadsNowhere, LeadsFromTo
<1> HIDE DEF Target, Read, Freed
<1>7. ASSUME NEW symbols \in Symbols
      PROVE  /\ Leads(L, M, Box(N, D, W), Alloc(<<"symbols_file">> \o symbols)
                                          \o Release(<<"symbols_file">>), Target)
             /\ Leads(L, M, Box(N, D, W), Alloc(<<"symbols_file">> \o symbols)
                                          \o destroy_debug_data \o init_debug_data
                                          \o Clear(<<"symbols_file">>), Target)
  <2>1. Leads(L, M, Box(N, D, W), Alloc(<<"symbols_file">> \o symbols), Read)
    BY <1>5
  <2>2. Leads(L, M, Box(N, D, W),
              Alloc(<<"symbols_file">> \o symbols) \o destroy_debug_data \o init_debug_data, Read)
    BY <1>4, <2>1, LeadsOn
  <2> QED
    BY <1>3, <2>1, <2>2, LeadsOn
<1>8. Leads(L, M, Box(N, D, W), script, Target)
  BY <1>6, <1>7 DEF load_debug_data, load_debug_data_failures
<1> QED
  BY <1>8 DEF Target

(* Between two operations: C is what was never used.  Then the machine and *)
(* the debugger, cleared for another load; and the end of the process.     *)
Between(M, C) == Box(C, {}, M)
Clean(C) == Box(C \cup Reset \cup Labels, Left, DebuggerPointers)
Gone == Box({}, MachinePointers, {})

(* The debugger itself is sound, and the marks are if nobody used them.    *)
Debugs(M, C) ==
    /\ DebuggerPointers \subseteq M /\ M \subseteq Pointers
    /\ C \subseteq {"marked_arrays"} \cup Locals
    /\ "marked_arrays" \in M => "marked_arrays" \in C

LEMMA RestartLeads ==
    ASSUME NEW L, NEW M, NEW C, Debugs(M, C)
    PROVE  Leads(L, M, Between(M, C), destroy_ijvm \o renew_debug_data, Clean(C))
<1> DEFINE N0 == C \cup Reset
           W0 == M \cap DebuggerPointers
<1>1. Leads(L, M, Between(M, C), destroy_ijvm, Box(N0, Left, W0))
  <2>1. W0 \subseteq (M \ Left) \cup C \cup Reset
    BY NamesOfOne
  <2>2. N0 \subseteq C \cup Reset /\ Left \subseteq {} \cup C \cup Reset \cup Left
        /\ M \cap MachinePointers \subseteq M \cup C
    OBVIOUS
  <2> HIDE DEF N0, W0
  <2> QED
    BY <2>1, <2>2, DestroyLeads DEF Between
<1>2. Leads(L, M, Box(N0, Left, W0), renew_debug_data, Clean(C))
  <2>1. M \cap Labels \subseteq W0 \cup N0 /\ DebuggerPointers \subseteq W0 \cup N0 \cup Labels
        /\ C \cup Reset \cup Labels \subseteq N0 \cup Labels
        /\ Left \subseteq Left \cup N0 \cup Labels
    BY NamesOfOne DEF Debugs
  <2> HIDE DEF N0, W0
  <2> QED
    BY <2>1, RenewDataLeads DEF Clean
<1> HIDE DEF N0, W0
<1> QED
  BY <1>1, <1>2, LeadsOn

LEMMA RenewalLeads ==
    ASSUME NEW L, NEW M, NEW C, Debugs(M, C)
    PROVE  Leads(L, M, Between(M, C), Renewal, Clean(C))
<1> DEFINE N0 == C \cup Reset \cup Labels
<1>1. Leads(L, M, Clean(C), renew_debugger, Clean(C))
  <2>1. /\ N0 \subseteq N0 \ Own /\ Left \subseteq (Left \cup N0) \ Own
        /\ M \cap Own \subseteq DebuggerPointers \cup N0
        /\ DebuggerPointers \subseteq DebuggerPointers \cup N0 \cup Own
    <3>1. Own \cap Labels = {}
      BY DEF Own, Labels
    <3>2. Own \cap (Reset \cup Left) = {} /\ Own \cap C = {}
          /\ Own \subseteq DebuggerPointers
      BY NamesOfOne DEF Debugs
    <3> QED
      BY <3>1, <3>2
  <2> HIDE DEF N0
  <2>2. Leads(L, M, Box(N0, Left, DebuggerPointers), renew_debugger,
              Box(N0, Left, DebuggerPointers))
    BY <2>1, RenewDebuggerLeads
  <2> QED
    BY <2>2 DEF Clean, N0
<1> QED
  BY <1>1, RestartLeads, LeadsOn DEF Renewal

LEMMA InitFromClean ==
    ASSUME NEW L, NEW M, NEW C, Debugs(M, C)
    PROVE  Leads(L, M, Clean(C), init_ijvm, Box(C \cup Labels, {}, M))
<1> DEFINE N0 == C \cup Reset \cup Labels
<1>1. /\ CpuPointers \subseteq Left \cup N0
      /\ C \cup Labels \subseteq N0 \ CpuPointers
      /\ M \subseteq DebuggerPointers \cup N0 \cup CpuPointers
  <2>1. CpuPointers \cap Labels = {} /\ CpuPointers \cap C = {}
    BY NamesOfOne DEF CpuPointers, Labels, Debugs
  <2>2. M \subseteq DebuggerPointers \cup Reset \cup CpuPointers \cup C
    BY NamesOfOne DEF Debugs
  <2> QED
    BY <2>1, <2>2, NamesOfOne
<1> HIDE DEF N0
<1>2. Leads(L, M, Box(N0, Left, DebuggerPointers), init_ijvm, Box(C \cup Labels, {}, M))
  BY <1>1, InitLeads
<1> QED
  BY <1>2 DEF Clean, N0

LEMMA SymbolsBetween ==
    ASSUME NEW L, NEW M, NEW C, Debugs(M, C),
           NEW script \in load_debug_data \cup load_debug_data_failures
    PROVE  Leads(L, M, Box(C \cup Labels, {}, M), script, Between(M, C))
<1> DEFINE N0 == C \cup Labels
<1>1. Labels \subseteq {} \cup N0 /\ M \cap Labels \subseteq M \cup N0
      /\ C \subseteq N0 \ Symbolic /\ {} \subseteq ({} \cup N0) \ Symbolic
      /\ M \subseteq M \cup N0
  <2>1. Labels \cap C = {} /\ C \cap Symbolic = {}
    BY NamesOfOne DEF Symbolic, Labels, Debugs
  <2> QED
    BY <2>1 DEF Symbolic
<1> HIDE DEF N0
<1>2. Leads(L, M, Box(N0, {}, M), script, Box(C, {}, M))
  BY <1>1, SymbolsLeads
<1> QED
  BY <1>2 DEF N0, Between

(* A program is loaded: what comes before, and what comes after it.        *)
LEMMA LoadingLeads ==
    ASSUME NEW L, NEW M, NEW C, Debugs(M, C), NEW before, NEW after,
           Leads(L, M, Between(M, C), before, Clean(C)),
           Leads(L, M, Between(M, C), after, Between(M, C)),
           NEW symbols \in load_debug_data
    PROVE  Leads(L, M, Between(M, C), before \o init_ijvm \o symbols \o after, Between(M, C))
<1>1. Leads(L, M, Between(M, C), before \o init_ijvm, Box(C \cup Labels, {}, M))
  BY InitFromClean, LeadsOn
<1>2. Leads(L, M, Box(C \cup Labels, {}, M), symbols, Between(M, C))
  BY SymbolsBetween
<1> QED
  BY <1>1, <1>2, LeadsOn

(* The load fails, and the debugger clears everything once more.  From now *)
(* on it may free the machine twice.                                       *)
LEMMA FailingLeads ==
    ASSUME NEW L, NEW C, Debugs(DebuggerPointers, C), NEW before,
           Leads(L, DebuggerPointers, Between(DebuggerPointers, C), before, Clean(C)),
           NEW failure \in init_ijvm_failures
                             \cup {init_ijvm \o f : f \in load_debug_data_failures}
    PROVE  Leads(L, DebuggerPointers, Between(DebuggerPointers, C), before \o failure \o Renewal,
                 Between(DebuggerPointers, C))
<1> DEFINE M == DebuggerPointers
           N0 == C \cup Reset \cup Labels
<1>1. Leads(L, M, Clean(C), failure, Between(M, C))
  <2>1. CASE failure \in init_ijvm_failures
    <3>1. /\ CpuPointers \subseteq Left \cup N0 /\ M \cap MachinePointers \subseteq M \cup N0
          /\ C \subseteq (N0 \ CpuPointers) \cup Reset
          /\ M \subseteq (M \ Left) \cup Reset
      BY NamesOfOne DEF Debugs
    <3> HIDE DEF N0
    <3>2. Leads(L, M, Box(N0, Left, M), failure, Box(C, {}, M))
      BY <2>1, <3>1, InitFailureLeads
    <3> QED
      BY <3>2 DEF Clean, Between, N0
  <2>2. ASSUME NEW f \in load_debug_data_failures
        PROVE  Leads(L, M, Clean(C), init_ijvm \o f, Between(M, C))
    BY InitFromClean, SymbolsBetween, LeadsOn
  <2> QED
    BY <2>1, <2>2
<1>2. Clean(C) \subseteq Between(M, C)
  BY BoxIn DEF Clean, Between
<1>3. Leads(L, M, Between(M, C), before \o failure, Between(M, C))
  BY <1>1, LeadsOn
<1>4. Leads(L, M, Between(M, C), Renewal, Between(M, C))
  <2>1. Between(M, C) \subseteq Between(M, C)
    OBVIOUS
  <2> QED
    BY <1>2, <2>1, RenewalLeads, LeadsFromTo
<1> QED
  BY <1>3, <1>4, LeadsOn

LEMMA ExitingLeads ==
    ASSUME NEW L, NEW C, Debugs(DebuggerPointers, C), NEW before,
           Leads(L, DebuggerPointers, Between(DebuggerPointers, C), before, Clean(C)),
           NEW script \in init_ijvm_exits
    PROVE  Leads(L, DebuggerPointers, Between(DebuggerPointers, C), before \o script, Gone)
<1> DEFINE M == DebuggerPointers
           N0 == C \cup Reset \cup Labels
<1>1. Leads(L, M, Clean(C), script, Gone)
  <2>1. /\ CpuPointers \subseteq Left \cup N0
        /\ M \cap MachinePointers \subseteq DebuggerPointers \cup N0
        /\ MachinePointers \subseteq Reset \cup Left
    BY NamesOfOne DEF Debugs
  <2> HIDE DEF N0
  <2>2. Leads(L, M, Box(N0, Left, DebuggerPointers), script, Box({}, MachinePointers, {}))
    BY <2>1, InitFailureLeads
  <2> QED
    BY <2>2 DEF Clean, Gone, N0
<1> QED
  BY <1>1, LeadsOn

-----------------------------------------------------------------------------
(* The other operations, from the state between two operations to the next *)

LEMMA FilesLead ==
    ASSUME NEW L, NEW M, NEW C,
           NEW S \in SUBSET {"in_file", "out_file"}, S \cap C = {},
           NEW names, Lists(names, S)
    PROVE  Leads(L, M, Between(M, C), Alloc(names), Between(M, C))
<1>1. /\ S \subseteq Resources /\ S \subseteq {} \cup C \cup Files \cup L /\ S \cap Sockets = {}
      /\ C \subseteq C \ S /\ {} \subseteq ({} \cup C) \ S /\ M \subseteq M \cup C \cup S
      /\ "new_fd" \notin S
  BY NamesDiffer DEF Files, Sockets
<1> QED
  BY <1>1, AllocLeads DEF Between

LEMMA OneFileLeads ==
    ASSUME NEW L, NEW M, NEW C, C \subseteq {"marked_arrays"} \cup Locals,
           NEW file \in {"in_file", "out_file"}
    PROVE  Leads(L, M, Between(M, C), Alloc(<<file>>), Between(M, C))
<1>1. Lists(<<file>>, {file}) /\ {file} \in SUBSET {"in_file", "out_file"} /\ {file} \cap C = {}
  BY OneName DEF Locals
<1> QED
  BY <1>1, FilesLead

(* A pointer that is freed, and at once points to something else.          *)
LEMMA ReplaceLeads ==
    ASSUME NEW L, NEW M, NEW C, NEW r \in Pointers, r # "sock", r \notin C
    PROVE  /\ Leads(L, M, Between(M, C), Free(<<r>>) \o Alloc(<<r>>), Between(M, C))
           /\ Leads(L, M, Between(M, C), FreeAndClear(r) \o Alloc(<<r>>), Between(M, C))
<1> DEFINE S == {r}
<1>1. /\ Lists(<<r>>, S) /\ S \subseteq Pointers /\ S \subseteq Resources /\ S \cap Sockets = {}
      /\ "sock" \notin S /\ "new_fd" \notin S
  BY OneName, NamesDiffer
<1>2. Leads(L, M, Box(C, {}, M), Free(<<r>>), Box(C, S, M \ S))
  <2>1. S \cap M \subseteq M \cup C /\ C \subseteq C /\ S \subseteq {} \cup C \cup S
        /\ M \ S \subseteq (M \ S) \cup C
    OBVIOUS
  <2> HIDE DEF S
  <2> QED
    BY <1>1, <2>1, FreeLeads
<1>3. Leads(L, M, Box(C, S, M \ S), Alloc(<<r>>), Box(C, {}, M))
  <2>1. S \subseteq S \cup C \cup Files \cup L /\ C \subseteq C \ S /\ {} \subseteq (S \cup C) \ S
        /\ M \subseteq (M \ S) \cup C \cup S
    OBVIOUS
  <2> HIDE DEF S
  <2> QED
    BY <1>1, <2>1, AllocLeads
<1>4. Leads(L, M, Box(C, {}, M), FreeAndClear(r), Box(C, S, M \ S))
  <2>1. C \subseteq C \cup {r} /\ S \subseteq {} \cup C \cup {r}
        /\ M \ S \subseteq M \cup C \cup {r} /\ (r \in M => r \in M \cup C)
    OBVIOUS
  <2> HIDE DEF S
  <2> QED
    BY <2>1, FreeAndClearLeads
<1> HIDE DEF S
<1> QED
  BY <1>2, <1>3, <1>4, LeadsOn DEF Between

LEMMA CollectLeads ==
    ASSUME NEW L, NEW M, NEW C, "marked_arrays" \notin C, NEW sweeps \in BOOLEAN
    PROVE  Leads(L, M, Between(M, C), arr_gc(sweeps), Between(M, C))
<1>1. Leads(L, M, Between(M, C), Free(<<"marked_arrays">>) \o Alloc(<<"marked_arrays">>),
            Between(M, C))
  <2>1. "marked_arrays" \in Pointers /\ "marked_arrays" # "sock"
    BY NamesOfOne
  <2> QED
    BY <2>1, ReplaceLeads
<1>2. Leads(L, M, Between(M, C), arr_remove, Between(M, C))
  <2>1. "array" \in Pointers
    BY DEF Pointers, MachinePointers, TablePointers
  <2> QED
    BY <2>1, FreeAndClearLeads DEF arr_remove, Between
<1>3. Leads(L, M, Between(M, C), <<>>, Between(M, C))
  <2>1. Between(M, C) \in SUBSET Owners
    BY DEF Between, Box
  <2> QED
    BY <2>1, LeadsNowhere
<1> QED
  BY <1>1, <1>2, <1>3, LeadsOn DEF arr_gc

LEMMA CloseLeads ==
    ASSUME NEW L, NEW M, NEW C
    PROVE  Leads(L, M, Between(M, C), net_close, Between(M, C))
BY NetCloseLeads DEF Between

(* Assignments that are written with Shift and Together.                   *)

LEMMA ShiftMoves ==
    ASSUME NEW from \in Resources, NEW to \in Resources, from # to,
           NEW new \in Resources \cup {"live", "null"}, NEW f, f = Shift(new, from, to)
    PROVE  /\ f \in Assignments /\ DOMAIN f = {from, to}
           /\ f[to] = from /\ f[from] = new
<1>1. f \in [{from, to} -> Resources \cup {"live", "null"}] /\ f[to] = from /\ f[from] = new
  BY DEF Shift
<1>2. {from, to} \in SUBSET Resources
  OBVIOUS
<1> QED
  BY <1>1, <1>2 DEF Assignments

LEMMA NullMoves ==
    ASSUME NEW from \in Resources, NEW to \in Resources, from # to,
           NEW f, f = Shift("null", from, to)
    PROVE  /\ f \in Assignments /\ DOMAIN f = {from, to}
           /\ f[to] = from /\ f[from] = "null"
<1>1. "null" \in Resources \cup {"live", "null"}
  OBVIOUS
<1> QED
  BY <1>1, ShiftMoves

Joins(f, g, h) ==
    /\ h \in Assignments /\ DOMAIN h = DOMAIN f \cup DOMAIN g
    /\ \A r \in DOMAIN f : h[r] = f[r]
    /\ \A r \in DOMAIN g \ DOMAIN f : h[r] = g[r]

LEMMA TogetherMoves ==
    ASSUME NEW f \in Assignments, NEW g \in Assignments, NEW h, h = Together(f, g)
    PROVE  Joins(f, g, h)
<1> DEFINE S == DOMAIN f \cup DOMAIN g
<1>1. /\ DOMAIN f \subseteq Resources /\ DOMAIN g \subseteq Resources
      /\ \A r \in DOMAIN f : f[r] \in Resources \cup {"live", "null"}
      /\ \A r \in DOMAIN g : g[r] \in Resources \cup {"live", "null"}
  BY AssignTypes
<1>2. h = [r \in S |-> IF r \in DOMAIN f THEN f[r] ELSE g[r]]
  BY DEF Together
<1>3. \A r \in S : (IF r \in DOMAIN f THEN f[r] ELSE g[r]) \in Resources \cup {"live", "null"}
  BY <1>1
<1>4. S \in SUBSET Resources
  BY <1>1
<1> HIDE DEF S
<1>5. h \in [S -> Resources \cup {"live", "null"}] /\ DOMAIN h = S
      /\ \A r \in S : h[r] = IF r \in DOMAIN f THEN f[r] ELSE g[r]
  BY <1>2, <1>3
<1>6. h \in Assignments
  BY <1>4, <1>5 DEF Assignments
<1> QED
  BY <1>5, <1>6 DEF S, Joins

(* A table grows.  Its elements are out of reach meanwhile, a connection   *)
(* only if there is none.                                                  *)
Olds == {"old_map", "old_values", "old_elements"}

Growing(M, C, t) ==
    /\ t \in {arr_mem, net_conn}
    /\ M \subseteq Pointers /\ (TablePointers \subseteq M \/ TablePointers \cap M = {})
    /\ Olds \subseteq C /\ C \subseteq {"marked_arrays", "sock"} \cup Locals
    /\ t = net_conn => "sock" \in C

OldSafe(M) == M \cup (IF TablePointers \subseteq M THEN Olds ELSE {})
OldNull(C, t) == IF t = net_conn THEN C ELSE C \ {"old_elements"}

LEMMA TableNames ==
    ASSUME NEW t \in {arr_mem, net_conn}
    PROVE  /\ t.map \in TablePointers /\ t.values \in TablePointers /\ t.elements \in TablePointers
           /\ t.map # t.values /\ t.map # t.elements /\ t.values # t.elements
           /\ t.map \notin {"array", "sock", "marked_arrays"}
           /\ t.values \notin {"array", "sock", "marked_arrays"}
           /\ t.elements = IF t = net_conn THEN "sock" ELSE "array"
           /\ {t.map, t.values} \subseteq Tables
BY DEF arr_mem, net_conn, TablePointers, Tables

LEMMA OldNames ==
    /\ Olds \subseteq Locals /\ Olds \subseteq Resources /\ Olds \cap Fresh = {}
    /\ Olds \cap Pointers = {} /\ TablePointers \subseteq Pointers /\ TablePointers \subseteq Resources
    /\ Olds \cap TablePointers = {} /\ TablePointers \cap Fresh = {}
    /\ TablePointers \cap Locals = {} /\ "marked_arrays" \notin TablePointers
    /\ "sock" \notin Olds /\ "array" \notin Olds /\ "new_sock" \notin Olds
    /\ "old_map" # "old_values" /\ "old_map" # "old_elements" /\ "old_values" # "old_elements"
    /\ (Sockets \cup {"new_fd", "new_sock"}) \subseteq Fresh
<1>1. Olds \subseteq Locals /\ Olds \cap Fresh = {} /\ Olds \cap TablePointers = {}
  BY DEF Olds, Locals, Fresh, Descriptors, TablePointers
<1>2. TablePointers \subseteq Pointers
  BY DEF Pointers, MachinePointers
<1>3. "sock" \notin Olds /\ "array" \notin Olds /\ "new_sock" \notin Olds
      /\ "marked_arrays" \notin TablePointers
  BY DEF Olds, TablePointers
<1> QED
  BY <1>1, <1>2, <1>3, NamesDiffer, NamesOfOne

LEMMA GrowingTypes ==
    ASSUME NEW M, NEW C, NEW t, Growing(M, C, t)
    PROVE  /\ Olds \subseteq C /\ C \subseteq {"marked_arrays", "sock"} \cup Locals
           /\ C \subseteq Resources /\ OldSafe(M) \subseteq Resources /\ M \subseteq Pointers
<1>1. {"marked_arrays", "sock"} \subseteq Resources /\ Locals \subseteq Resources
  BY NamesOfOne, NamesDiffer
<1>2. OldSafe(M) \subseteq Resources
  BY NamesDiffer, OldNames DEF Growing, OldSafe
<1> QED
  BY <1>1, <1>2 DEF Growing

LEMMA NewMapLeads ==
    ASSUME NEW L, NEW M, NEW C, NEW t, Growing(M, C, t), NEW new \in {"live", "null"}
    PROVE  Leads(L, M, Between(M, C), Assign(new_map(t, new)),
                 Box((OldNull(C, t) \ {"old_map"}) \cup {t.elements}, {}, OldSafe(M)))
<1> DEFINE f == new_map(t, new)
           m == t.map
           e == t.elements
           W == OldSafe(M)
           N2 == (OldNull(C, t) \ {"old_map"}) \cup {e}
<1>1. /\ m \in TablePointers /\ e \in TablePointers /\ m # e /\ m \notin {"array", "sock", "marked_arrays"}
      /\ e = IF t = net_conn THEN "sock" ELSE "array"
  BY TableNames DEF Growing
<1> HIDE DEF m, e
<1>2. /\ f \in Assignments /\ DOMAIN f = {m, "old_map", e, "old_elements"}
      /\ f[m] = new /\ f["old_map"] = m /\ f[e] = "null" /\ f["old_elements"] = e
  <2> DEFINE g == Shift(new, m, "old_map")
             h == Shift("null", e, "old_elements")
  <2>1. /\ m \in Resources /\ e \in Resources /\ "old_map" \in Resources
        /\ "old_elements" \in Resources /\ m # "old_map" /\ e # "old_elements"
        /\ m # "old_elements" /\ e # "old_map"
        /\ new \in Resources \cup {"live", "null"}
        /\ "null" \in Resources \cup {"live", "null"}
    BY <1>1, OldNames DEF Olds
  <2>2. g = Shift(new, m, "old_map") /\ h = Shift("null", e, "old_elements")
        /\ f = Together(g, h)
    BY DEF new_map, m, e
  <2> HIDE DEF f, g, h
  <2>3. g \in Assignments /\ DOMAIN g = {m, "old_map"} /\ g["old_map"] = m /\ g[m] = new
    BY <2>1, <2>2, ShiftMoves
  <2>4. h \in Assignments /\ DOMAIN h = {e, "old_elements"} /\ h["old_elements"] = e /\ h[e] = "null"
    BY <2>1, <2>2, NullMoves
  <2>5. Joins(g, h, f)
    BY <2>2, <2>3, <2>4, TogetherMoves
  <2> QED
    BY <1>1, <2>1, <2>3, <2>4, <2>5 DEF Joins
<1> HIDE DEF f
<1>3. /\ Olds \subseteq C /\ C \subseteq {"marked_arrays", "sock"} \cup Locals /\ C \subseteq Resources
      /\ W \subseteq Resources /\ M \subseteq Pointers
      /\ e = "sock" => "sock" \in C
      /\ e # "sock" => e \notin C
  BY <1>1, OldNames, NamesOfOne, NamesDiffer DEF Growing, OldSafe
<1>4. Moves(f, C)
  <2>1. DOMAIN f \cap Fresh = {}
    BY <1>1, <1>2, OldNames DEF Olds
  <2>2. "sock" \in DOMAIN f => "sock" \in C
    BY <1>1, <1>2, <1>3
  <2> QED
    BY <1>2, <2>1, <2>2, OldNames DEF Moves
<1>5. Keeps(L, f, C)
  BY <1>2, <1>3 DEF Keeps, Olds
<1>6. Reaches(f, C, M, N2, W)
  <2>1. ASSUME NEW r \in N2
        PROVE  IF r \in DOMAIN f THEN f[r] \in C \cup {"null"} ELSE r \in C
    <3>1. r = e \/ (r \in C /\ r # "old_map")
      BY <2>1 DEF OldNull
    <3>2. r = "old_elements" => e \in C \/ r = e
      BY <1>1, <1>3, <2>1, OldNames DEF OldNull, Olds
    <3>3. m \notin C
      BY <1>1, <1>3, OldNames
    <3> QED
      BY <1>2, <3>1, <3>2, <3>3
  <2>2. ASSUME NEW r \in W
        PROVE  IF r \in DOMAIN f THEN f[r] \in M \cup C \cup Fresh \cup {"live", "null"}
               ELSE r \in M \cup C
    <3>1. r \in M \/ (r \in Olds /\ TablePointers \subseteq M)
      BY <2>2 DEF OldSafe
    <3>2. r \in M => r \notin Olds
      BY <1>3, OldNames
    <3> QED
      BY <1>1, <1>2, <1>3, <3>1, <3>2 DEF Olds
  <2> QED
    BY <2>1, <2>2 DEF Reaches
<1> HIDE DEF W, N2
<1>7. Leads(L, M, Box(C, {}, M), Assign(f), Box(N2, {}, W))
  <2>1. M \subseteq Resources
    BY <1>3, NamesDiffer
  <2> QED
    BY <1>3, <1>4, <1>5, <1>6, <2>1, BoxAssign
<1> QED
  BY <1>7 DEF Between, f, W, N2, m, e

LEMMA NewValuesLeads ==
    ASSUME NEW L, NEW M, NEW C, NEW t, Growing(M, C, t), NEW new \in {"live", "null"}
    PROVE  Leads(L, M, Box((OldNull(C, t) \ {"old_map"}) \cup {t.elements}, {}, OldSafe(M)),
                 Assign(new_values(t, new)),
                 Box((OldNull(C, t) \ {"old_map", "old_values"}) \cup {t.elements}, {}, OldSafe(M)))
<1> DEFINE f == new_values(t, new)
           v == t.values
           e == t.elements
           W == OldSafe(M)
           N == (OldNull(C, t) \ {"old_map"}) \cup {e}
           N2 == (OldNull(C, t) \ {"old_map", "old_values"}) \cup {e}
<1>1. /\ v \in TablePointers /\ e \in TablePointers /\ v # e /\ v \notin {"array", "sock", "marked_arrays"}
  BY TableNames DEF Growing
<1> HIDE DEF v, e
<1>2. /\ f \in Assignments /\ DOMAIN f = {v, "old_values"} /\ f[v] = new /\ f["old_values"] = v
  <2>1. v \in Resources /\ "old_values" \in Resources /\ v # "old_values"
        /\ new \in Resources \cup {"live", "null"}
    BY <1>1, OldNames DEF Olds
  <2> QED
    <3>1. f = Shift(new, v, "old_values")
      BY DEF new_values, v
    <3> HIDE DEF f
    <3> QED
      BY <2>1, <3>1, ShiftMoves
<1> HIDE DEF f
<1>3. /\ Olds \subseteq C /\ C \subseteq {"marked_arrays", "sock"} \cup Locals /\ C \subseteq Resources
      /\ W \subseteq Resources /\ M \subseteq Pointers /\ N \subseteq Resources
      /\ v \notin C /\ "old_values" \in N /\ v \notin N
  <2>1. /\ Olds \subseteq C /\ C \subseteq {"marked_arrays", "sock"} \cup Locals
        /\ C \subseteq Resources /\ W \subseteq Resources /\ M \subseteq Pointers
    BY GrowingTypes
  <2>2. v \notin C
    BY <1>1, <2>1, OldNames
  <2>3. "old_values" \in N /\ N \subseteq Resources /\ v \notin N
    BY <1>1, <2>1, <2>2, OldNames DEF Olds, OldNull
  <2> QED
    BY <2>1, <2>2, <2>3
<1>4. Moves(f, N)
  BY <1>1, <1>2, OldNames DEF Moves, Olds
<1>5. Keeps(L, f, N)
  BY <1>2, <1>3 DEF Keeps
<1>6. Reaches(f, N, W, N2, W)
  <2>1. \A r \in N2 : r # "old_values" /\ r # v /\ r \in N
    BY <1>1, <1>3, OldNames DEF Olds
  <2>2. ASSUME NEW r \in W
        PROVE  IF r \in DOMAIN f THEN f[r] \in W \cup N \cup Fresh \cup {"live", "null"}
               ELSE r \in W \cup N
    <3>1. r = "old_values" => TablePointers \subseteq M
      BY <1>3, <2>2, OldNames DEF OldSafe, Olds
    <3>2. TablePointers \subseteq M => v \in W
      BY <1>1 DEF OldSafe
    <3> QED
      BY <1>2, <2>2, <3>1, <3>2
  <2> QED
    BY <1>2, <2>1, <2>2 DEF Reaches
<1> HIDE DEF W, N, N2
<1>7. Leads(L, M, Box(N, {}, W), Assign(f), Box(N2, {}, W))
  BY <1>3, <1>4, <1>5, <1>6, BoxAssign
<1> QED
  BY <1>7 DEF f, W, N, N2, v, e

LEMMA CopiedLeads ==
    ASSUME NEW L, NEW M, NEW C, NEW t, Growing(M, C, t)
    PROVE  Leads(L, M,
                 Box((OldNull(C, t) \ {"old_map", "old_values"}) \cup {t.elements}, {}, OldSafe(M)),
                 Assign(copied(t)), Box(C \ {"old_map", "old_values"}, {}, OldSafe(M)))
<1> DEFINE f == copied(t)
           e == t.elements
           W == OldSafe(M)
           N == (OldNull(C, t) \ {"old_map", "old_values"}) \cup {e}
           N2 == C \ {"old_map", "old_values"}
<1>1. e \in TablePointers /\ (e \in C => OldNull(C, t) = C)
      /\ (e = "sock" => t = net_conn) /\ (e = "array" \/ e = "sock")
  <2>1. e \in TablePointers /\ e = IF t = net_conn THEN "sock" ELSE "array"
    BY TableNames DEF Growing
  <2>2. "array" \notin C
    BY OldNames DEF Growing, Locals
  <2> QED
    BY <2>1, <2>2 DEF OldNull
<1> HIDE DEF e
<1>2. /\ f \in Assignments /\ DOMAIN f = {e, "old_elements"} /\ f["old_elements"] = "null"
      /\ f[e] = "old_elements"
  <2>1. e \in Resources /\ "old_elements" \in Resources /\ e # "old_elements"
        /\ "null" \in Resources \cup {"live", "null"}
    BY <1>1, OldNames DEF Olds
  <2> QED
    <3>1. f = Shift("null", "old_elements", e)
      BY DEF copied, e
    <3> HIDE DEF f
    <3> QED
      BY <2>1, <3>1, ShiftMoves
<1> HIDE DEF f
<1>3. /\ Olds \subseteq C /\ C \subseteq {"marked_arrays", "sock"} \cup Locals
      /\ W \subseteq Resources /\ M \subseteq Pointers /\ N \subseteq Resources /\ e \in N
  <2>1. /\ Olds \subseteq C /\ C \subseteq {"marked_arrays", "sock"} \cup Locals
        /\ C \subseteq Resources /\ W \subseteq Resources /\ M \subseteq Pointers
    BY GrowingTypes
  <2> QED
    BY <1>1, <2>1, OldNames DEF OldNull
<1>4. Moves(f, N)
  BY <1>1, <1>2, <1>3, OldNames DEF Moves, Olds
<1>5. Keeps(L, f, N)
  BY <1>2, <1>3 DEF Keeps
<1>6. Reaches(f, N, W, N2, W)
  <2>1. ASSUME NEW r \in N2
        PROVE  IF r \in DOMAIN f THEN f[r] \in N \cup {"null"} ELSE r \in N
    <3>1. r \in C /\ r \notin {"old_map", "old_values"}
      OBVIOUS
    <3>2. r = e => "old_elements" \in N
      BY <1>1, <1>3, <3>1, OldNames DEF Olds
    <3>3. r # "old_elements" => r \in N
      BY <3>1 DEF OldNull
    <3> QED
      BY <1>2, <3>2, <3>3
  <2>2. ASSUME NEW r \in W
        PROVE  IF r \in DOMAIN f THEN f[r] \in W \cup N \cup Fresh \cup {"live", "null"}
               ELSE r \in W \cup N
    <3>1. e \in M => "old_elements" \in W
      BY <1>1 DEF OldSafe, Olds, Growing
    <3>2. e \in W => e \in M
      BY <1>1, OldNames DEF OldSafe
    <3> QED
      BY <1>2, <2>2, <3>1, <3>2
  <2> QED
    BY <2>1, <2>2 DEF Reaches
<1> HIDE DEF W, N, N2
<1>7. Leads(L, M, Box(N, {}, W), Assign(f), Box(N2, {}, W))
  BY <1>3, <1>4, <1>5, <1>6, BoxAssign
<1> QED
  BY <1>7 DEF f, W, N, N2, e

LEMMA RoomLeads ==
    ASSUME NEW L, NEW M, NEW C, NEW t, Growing(M, C, t)
    PROVE  Leads(L, M, Between(M, C), marr_resize(t), Between(M, C))
<1> DEFINE S == {"old_map", "old_values"}
           N1 == (OldNull(C, t) \ {"old_map"}) \cup {t.elements}
           N2 == (OldNull(C, t) \ S) \cup {t.elements}
           W == OldSafe(M)
<1>1. Leads(L, M, Between(M, C), Assign(new_map(t, "live")), Box(N1, {}, W))
  BY NewMapLeads
<1>2. Leads(L, M, Box(N1, {}, W), Assign(new_values(t, "live")), Box(N2, {}, W))
  BY NewValuesLeads
<1>3. Leads(L, M, Box(N2, {}, W), Assign(copied(t)), Box(C \ S, {}, W))
  BY CopiedLeads
<1>4. Leads(L, M, Box(C \ S, {}, W), Release(<<"old_map", "old_values">>), Between(M, C))
  <2>1. Lists(<<"old_map", "old_values">>, S) /\ S \subseteq Resources
        /\ "sock" \notin S /\ "new_sock" \notin S
    BY TwoNames, OldNames DEF Olds
  <2>2. /\ C \subseteq (C \ S) \cup S /\ {} \subseteq {} \cup (C \ S) \cup S
        /\ M \subseteq W \cup (C \ S) \cup S
    BY DEF OldSafe
  <2> HIDE DEF S, W
  <2> QED
    BY <2>1, <2>2, ClearLeads DEF Release, Between
<1> HIDE DEF S, N1, N2, W
<1> QED
  BY <1>1, <1>2, <1>3, <1>4, LeadsOn DEF marr_resize

(* What a refusal may leave without a pointer to it. *)
Refusable == {"arr_map", "arr_values", "net_map", "net_values", "brkpts", "path_copy"}

PutsBack(f, t) ==
    /\ f \in Assignments
    /\ DOMAIN f = {t.elements, t.map, t.values} \cup Olds
    /\ f[t.elements] = "old_elements" /\ f[t.map] = "old_map" /\ f[t.values] = "old_values"
    /\ \A r \in Olds : f[r] = "null"

LEMMA PutBackMoves ==
    ASSUME NEW M, NEW C, NEW t, Growing(M, C, t), NEW f, f = put_back(t)
    PROVE  PutsBack(f, t)
<1> DEFINE m == t.map
           v == t.values
           e == t.elements
           g == copied(t)
           p == Shift("null", "old_map", m)
           q == Shift("null", "old_values", v)
           h == Together(p, q)
<1>1. /\ m \in Resources /\ v \in Resources /\ e \in Resources
      /\ m # v /\ m # e /\ v # e /\ m \notin Olds /\ v \notin Olds /\ e \notin Olds
  BY TableNames, OldNames DEF Growing
<1>2. g = Shift("null", "old_elements", e) /\ p = Shift("null", "old_map", m)
      /\ q = Shift("null", "old_values", v) /\ h = Together(p, q) /\ f = Together(g, h)
  BY DEF put_back, copied
<1>3. {"old_map", "old_values", "old_elements"} \subseteq Resources
      /\ "null" \in Resources \cup {"live", "null"}
  BY OldNames DEF Olds
<1>4. m # "old_map" /\ m # "old_values" /\ m # "old_elements" /\ v # "old_map"
      /\ v # "old_values" /\ v # "old_elements" /\ e # "old_map" /\ e # "old_values"
      /\ e # "old_elements"
  BY <1>1 DEF Olds
<1> HIDE DEF m, v, e, g, p, q, h
<1>5. g \in Assignments /\ DOMAIN g = {e, "old_elements"} /\ g["old_elements"] = "null"
      /\ g[e] = "old_elements"
  BY <1>1, <1>2, <1>3, <1>4, NullMoves
<1>6. p \in Assignments /\ DOMAIN p = {m, "old_map"} /\ p["old_map"] = "null" /\ p[m] = "old_map"
  BY <1>1, <1>2, <1>3, <1>4, NullMoves
<1>7. q \in Assignments /\ DOMAIN q = {v, "old_values"} /\ q["old_values"] = "null"
      /\ q[v] = "old_values"
  <2>1. v \in Resources /\ "old_values" \in Resources /\ v # "old_values"
        /\ q = Shift("null", "old_values", v)
    BY <1>1, <1>2, <1>3, <1>4
  <2> QED
    BY <2>1, NullMoves
<1>8. Joins(p, q, h)
  <2>1. p \in Assignments /\ q \in Assignments /\ h = Together(p, q)
    BY <1>2, <1>6, <1>7
  <2> QED
    BY <2>1, TogetherMoves
<1>9. Joins(g, h, f)
  <2>1. g \in Assignments /\ h \in Assignments /\ f = Together(g, h)
    BY <1>2, <1>5, <1>8 DEF Joins
  <2> QED
    BY <2>1, TogetherMoves
<1>10. DOMAIN h = {m, "old_map", v, "old_values"} /\ h[m] = "old_map" /\ h["old_map"] = "null"
       /\ h[v] = "old_values" /\ h["old_values"] = "null"
  BY <1>1, <1>4, <1>6, <1>7, <1>8 DEF Joins
<1>11. /\ DOMAIN f = {e, "old_elements", m, "old_map", v, "old_values"}
       /\ f[e] = "old_elements" /\ f["old_elements"] = "null"
       /\ f[m] = "old_map" /\ f["old_map"] = "null"
       /\ f[v] = "old_values" /\ f["old_values"] = "null"
  BY <1>1, <1>4, <1>5, <1>9, <1>10 DEF Joins
<1> QED
  BY <1>9, <1>11 DEF Olds, Joins, PutsBack, m, v, e

LEMMA PutBackLeads ==
    ASSUME NEW L, Refusable \subseteq L, NEW M, NEW C, NEW t, Growing(M, C, t)
    PROVE  Leads(L, M,
                 Box((OldNull(C, t) \ {"old_map", "old_values"}) \cup {t.elements}, {}, OldSafe(M)),
                 Assign(put_back(t)), Between(M, C))
<1> DEFINE f == put_back(t)
           m == t.map
           v == t.values
           e == t.elements
           W == OldSafe(M)
           N == (OldNull(C, t) \ {"old_map", "old_values"}) \cup {e}
<1>1. /\ {m, v, e} \subseteq TablePointers /\ {m, v} \subseteq Refusable
      /\ m # "sock" /\ v # "sock" /\ m # "marked_arrays" /\ v # "marked_arrays"
  BY TableNames DEF Growing, Refusable, Tables
<1>2. (e \in C => OldNull(C, t) = C)
  <2>1. e = IF t = net_conn THEN "sock" ELSE "array"
    BY TableNames DEF Growing
  <2>2. "array" \notin C
    BY OldNames DEF Growing, Locals
  <2> QED
    BY <2>1, <2>2 DEF OldNull
<1>3. /\ f \in Assignments /\ DOMAIN f = {e, m, v} \cup Olds
      /\ f[e] = "old_elements" /\ f[m] = "old_map" /\ f[v] = "old_values"
      /\ \A r \in Olds : f[r] = "null"
  <2> HIDE DEF f
  <2>1. f = put_back(t)
    BY DEF f
  <2>2. PutsBack(f, t)
    BY <2>1, PutBackMoves
  <2> QED
    BY <2>2 DEF PutsBack
<1> HIDE DEF f, m, v, e
<1>4. /\ Olds \subseteq C /\ C \subseteq {"marked_arrays", "sock"} \cup Locals
      /\ C \subseteq Resources /\ W \subseteq Resources /\ M \subseteq Pointers
      /\ N \subseteq Resources /\ e \in N /\ m \notin C /\ v \notin C
  <2>1. /\ Olds \subseteq C /\ C \subseteq {"marked_arrays", "sock"} \cup Locals
        /\ C \subseteq Resources /\ W \subseteq Resources /\ M \subseteq Pointers
    BY GrowingTypes
  <2>2. e \in Resources
    BY <1>1, OldNames
  <2>3. m \notin C /\ v \notin C
    BY <1>1, <2>1, OldNames
  <2> QED
    BY <2>1, <2>2, <2>3 DEF OldNull
<1>5. Moves(f, N)
  <2>1. DOMAIN f \cap Fresh = {}
    BY <1>1, <1>3, OldNames
  <2>2. "sock" \in DOMAIN f => "sock" = e
    BY <1>1, <1>3, OldNames
  <2> QED
    BY <1>3, <1>4, <2>1, <2>2, OldNames DEF Moves
<1>6. Keeps(L, f, N)
  BY <1>1, <1>3, <1>4 DEF Keeps, Olds
<1>7. Reaches(f, N, W, C, M)
  <2>1. ASSUME NEW r \in C
        PROVE  IF r \in DOMAIN f THEN f[r] \in N \cup {"null"} ELSE r \in N
    <3>1. r = e => "old_elements" \in N /\ r \notin Olds
      BY <1>1, <1>2, <1>4, OldNames DEF Olds
    <3>2. r \notin Olds => r \in N
      BY DEF OldNull, Olds
    <3> QED
      BY <1>3, <1>4, <3>1, <3>2
  <2>2. ASSUME NEW r \in M
        PROVE  IF r \in DOMAIN f THEN f[r] \in W \cup N \cup Fresh \cup {"live", "null"}
               ELSE r \in W \cup N
    <3>1. r \in {e, m, v} => Olds \subseteq W
      BY <1>1 DEF OldSafe, Growing
    <3>2. r \notin Olds /\ r \in W
      BY <1>4, OldNames DEF OldSafe
    <3> QED
      BY <1>3, <3>1, <3>2 DEF Olds
  <2> QED
    BY <2>1, <2>2 DEF Reaches
<1> HIDE DEF W, N
<1>8. Leads(L, M, Box(N, {}, W), Assign(f), Box(C, {}, M))
  BY <1>4, <1>5, <1>6, <1>7, BoxAssign
<1> QED
  BY <1>8 DEF f, W, N, e, Between

LEMMA NoRoomLeads ==
    ASSUME NEW L, Refusable \subseteq L, NEW M, NEW C, NEW t, Growing(M, C, t),
           NEW script \in marr_resize_refusals(t)
    PROVE  Leads(L, M, Between(M, C), script, Between(M, C))
<1>1. PICK new \in {<<"null", "live">>, <<"live", "null">>, <<"null", "null">>} :
          script = Assign(new_map(t, new[1])) \o Assign(new_values(t, new[2]))
                      \o Assign(put_back(t))
  BY DEF marr_resize_refusals
<1> DEFINE N1 == (OldNull(C, t) \ {"old_map"}) \cup {t.elements}
           N2 == (OldNull(C, t) \ {"old_map", "old_values"}) \cup {t.elements}
           W == OldSafe(M)
<1>2. new[1] \in {"live", "null"} /\ new[2] \in {"live", "null"}
  OBVIOUS
<1>3. Leads(L, M, Between(M, C), Assign(new_map(t, new[1])), Box(N1, {}, W))
  BY <1>2, NewMapLeads
<1>4. Leads(L, M, Box(N1, {}, W), Assign(new_values(t, new[2])), Box(N2, {}, W))
  BY <1>2, NewValuesLeads
<1>5. Leads(L, M, Box(N2, {}, W), Assign(put_back(t)), Between(M, C))
  BY PutBackLeads
<1> HIDE DEF N1, N2, W
<1> QED
  BY <1>1, <1>3, <1>4, <1>5, LeadsOn

(* A stack that cannot grow. *)
LEMMA NoStackLeads ==
    ASSUME NEW L, NEW M, M \subseteq Pointers, NEW C, "old_stack" \in C,
           C \subseteq {"marked_arrays"} \cup Locals
    PROVE  Leads(L, M, Between(M, C), octuple_stack_size_refused, Between(M, C))
<1> DEFINE f == Shift("null", "stack", "old_stack")
           g == Shift("null", "old_stack", "stack")
           N == (C \ {"old_stack"}) \cup {"stack"}
           W == M \cup (IF "stack" \in M THEN {"old_stack"} ELSE {})
<1>1. /\ "stack" \in Resources /\ "old_stack" \in Resources /\ "stack" # "old_stack"
      /\ "stack" \notin C /\ "old_stack" \notin M /\ "stack" \notin Fresh /\ "old_stack" \notin Fresh
      /\ C \subseteq Resources /\ M \subseteq Resources /\ N \subseteq Resources /\ W \subseteq Resources
  <2>1. "old_stack" \in Locals /\ "stack" \in Pointers /\ "marked_arrays" \in Pointers
        /\ "stack" # "marked_arrays"
    BY DEF Locals, Pointers, MachinePointers, CpuPointers
  <2>2. "old_stack" \notin Fresh /\ "stack" \notin Fresh
    BY DEF Fresh, Descriptors
  <2> QED
    BY <2>1, <2>2, NamesDiffer, NamesOfOne
<1>2. /\ f \in Assignments /\ DOMAIN f = {"stack", "old_stack"}
      /\ f["old_stack"] = "stack" /\ f["stack"] = "null"
  <2> HIDE DEF f
  <2>1. f = Shift("null", "stack", "old_stack")
    BY DEF f
  <2> QED
    BY <1>1, <2>1, NullMoves
<1>3. /\ g \in Assignments /\ DOMAIN g = {"stack", "old_stack"}
      /\ g["stack"] = "old_stack" /\ g["old_stack"] = "null"
  <2> HIDE DEF g
  <2>1. g = Shift("null", "old_stack", "stack")
    BY DEF g
  <2> QED
    BY <1>1, <2>1, NullMoves
<1> HIDE DEF f, g
<1>4. Leads(L, M, Box(C, {}, M), Assign(f), Box(N, {}, W))
  <2>1. Moves(f, C) /\ Keeps(L, f, C)
    BY <1>1, <1>2, OldNames, NamesDiffer DEF Moves, Keeps
  <2>2. Reaches(f, C, M, N, W)
    BY <1>1, <1>2 DEF Reaches
  <2> HIDE DEF N, W
  <2> QED
    BY <1>1, <2>1, <2>2, BoxAssign
<1>5. Leads(L, M, Box(N, {}, W), Assign(g), Box(C, {}, M))
  <2>1. Moves(g, N) /\ Keeps(L, g, N)
    BY <1>1, <1>3, OldNames, NamesDiffer DEF Moves, Keeps
  <2>2. Reaches(g, N, W, C, M)
    BY <1>1, <1>3 DEF Reaches
  <2> HIDE DEF N, W
  <2> QED
    BY <1>1, <2>1, <2>2, BoxAssign
<1> HIDE DEF N, W
<1> QED
  BY <1>4, <1>5, LeadsOn DEF Between, f, g, octuple_stack_size_refused

(* An array: in a local, until it is stored.                               *)
LEMMA CreateLeads ==
    ASSUME NEW L, NEW M, NEW C, "new_array" \in C
    PROVE  Leads(L, M, Between(M, C), Alloc(<<"new_array">>), Between(M, C \ {"new_array"}))
<1> DEFINE S == {"new_array"}
<1>1. Lists(<<"new_array">>, S) /\ S \subseteq Resources /\ S \cap Sockets = {} /\ "new_fd" \notin S
  BY OneName, NamesOfOne DEF Locals
<1>2. S \subseteq {} \cup C \cup Files \cup L /\ C \ S \subseteq C \ S /\ {} \subseteq ({} \cup C) \ S
      /\ M \subseteq M \cup C \cup S
  OBVIOUS
<1> HIDE DEF S
<1>3. Leads(L, M, Box(C, {}, M), Alloc(<<"new_array">>), Box(C \ S, {}, M))
  BY <1>1, <1>2, AllocLeads
<1> QED
  BY <1>3 DEF Between, S

LEMMA StoreArrayLeads ==
    ASSUME NEW L, NEW M, M \subseteq Pointers,
           NEW C, C \subseteq {"marked_arrays"} \cup Locals
    PROVE  Leads(L, M, Between(M, C), Assign(Shift("null", "new_array", "array")),
                 Between(M, C \cup {"new_array"}))
<1> DEFINE f == Shift("null", "new_array", "array")
           N == C \cup {"new_array"}
<1>1. /\ "new_array" \in Resources /\ "array" \in Resources /\ "array" # "new_array"
      /\ "new_array" \in Fresh /\ "array" \notin Fresh /\ "array" \notin C
      /\ "new_array" \notin Sockets \cup {"new_fd", "new_sock"}
      /\ "new_array" \notin M /\ C \subseteq Resources /\ M \subseteq Resources
  <2>1. "new_array" \in Locals /\ "array" \in Pointers /\ "marked_arrays" \in Pointers
    BY DEF Locals, Pointers, MachinePointers, TablePointers
  <2>2. "array" \notin Fresh /\ "new_array" \in Fresh
        /\ "new_array" \notin Sockets \cup {"new_fd", "new_sock"}
    BY DEF Fresh, Descriptors, Sockets
  <2> QED
    BY <2>1, <2>2, NamesDiffer, NamesOfOne
<1>2. /\ f \in Assignments /\ DOMAIN f = {"new_array", "array"}
      /\ f["array"] = "new_array" /\ f["new_array"] = "null"
  <2> HIDE DEF f
  <2>1. f = Shift("null", "new_array", "array")
    BY DEF f
  <2> QED
    BY <1>1, <2>1, NullMoves
<1> HIDE DEF f
<1>3. Moves(f, C) /\ Keeps(L, f, C)
  <2>1. DOMAIN f \cap (Sockets \cup {"new_fd", "new_sock"}) = {} /\ "sock" \notin DOMAIN f
    BY <1>1, <1>2, OldNames
  <2>2. \A r \in DOMAIN f \cap Fresh : f[r] = "null"
    BY <1>1, <1>2
  <2>3. \A r \in DOMAIN f \ {"array"} : f["array"] = r
    BY <1>2
  <2> QED
    BY <1>2, <2>1, <2>2, <2>3 DEF Moves, Keeps
<1>4. Reaches(f, C, M, N, M)
  BY <1>1, <1>2 DEF Reaches
<1> HIDE DEF N
<1>5. Leads(L, M, Box(C, {}, M), Assign(f), Box(N, {}, M))
  BY <1>1, <1>3, <1>4, BoxAssign
<1> QED
  BY <1>5 DEF Between, f, N

(* A pointer that nobody needs any more loses nothing that matters.        *)
LEMMA DropLeads ==
    ASSUME NEW L, NEW M, NEW C, NEW r \in Resources, r \in C \cup Files \cup L,
           r # "sock", r # "new_sock"
    PROVE  Leads(L, M, Between(M, C), Clear(<<r>>), Between(M, C \cup {r}))
<1> DEFINE S == {r}
<1>1. Lists(<<r>>, S) /\ S \subseteq Resources /\ "sock" \notin S /\ "new_sock" \notin S
      /\ S \subseteq {} \cup C \cup Files \cup L
      /\ C \cup S \subseteq C \cup S /\ {} \subseteq {} \cup C \cup S /\ M \subseteq M \cup C \cup S
  BY OneName
<1> HIDE DEF S
<1>2. Leads(L, M, Box(C, {}, M), Clear(<<r>>), Box(C \cup S, {}, M))
  BY <1>1, ClearLeads DEF Clear
<1> QED
  BY <1>2 DEF Between, S

(* The name of a symbol is looked up.                                      *)
LEMMA TakeLeads ==
    ASSUME NEW L, NEW M, NEW C, NEW r \in C \cap Locals
    PROVE  Leads(L, M, Between(M, C), Alloc(<<r>>), Between(M, C \ {r}))
<1> DEFINE S == {r}
<1>1. Lists(<<r>>, S) /\ S \subseteq Resources /\ S \cap Sockets = {} /\ "new_fd" \notin S
      /\ S \subseteq {} \cup C \cup Files \cup L
      /\ C \ S \subseteq C \ S /\ {} \subseteq ({} \cup C) \ S /\ M \subseteq M \cup C \cup S
  BY OneName, NamesOfOne
<1> HIDE DEF S
<1>2. Leads(L, M, Box(C, {}, M), Alloc(<<r>>), Box(C \ S, {}, M))
  BY <1>1, AllocLeads
<1> QED
  BY <1>2 DEF Between, S

LEMMA NameLeads ==
    ASSUME NEW L, NEW M, NEW C, "name" \in C
    PROVE  Leads(L, M, Between(M, C), Alloc(<<"name">>) \o Clear(<<"name">>), Between(M, C))
<1>1. "name" \in Locals /\ "name" \in Files /\ "name" \in Resources
      /\ (C \ {"name"}) \cup {"name"} = C
  BY NamesOfOne DEF Locals, Files
<1>2. Leads(L, M, Between(M, C), Alloc(<<"name">>), Between(M, C \ {"name"}))
  BY <1>1, TakeLeads
<1>3. Leads(L, M, Between(M, C \ {"name"}), Clear(<<"name">>), Between(M, (C \ {"name"}) \cup {"name"}))
  BY <1>1, DropLeads
<1> QED
  BY <1>1, <1>2, <1>3, LeadsOn

(* The path of a program is kept, and may be forgotten when it cannot be.  *)
LEMMA SaveLeads ==
    ASSUME NEW L, NEW M, NEW C, "path_copy" \in C, C \subseteq {"marked_arrays"} \cup Locals
    PROVE  Leads(L, M, Between(M, C), save_last_prog, Between(M, C))
<1> DEFINE S == {"path_copy"}
           C1 == C \ S
<1>1. "path_copy" \in Locals /\ Lists(<<"path_copy">>, S) /\ S \subseteq Resources
      /\ "sock" \notin S /\ "new_sock" \notin S
      /\ "last_prog" \in Pointers /\ "last_prog" # "sock" /\ "last_prog" \notin C1
  BY OneName, NamesOfOne DEF Locals, Own
<1>2. Leads(L, M, Between(M, C), Alloc(<<"path_copy">>), Between(M, C1))
  BY <1>1, TakeLeads
<1>3. Leads(L, M, Between(M, C1), FreeAndClear("last_prog") \o Alloc(<<"last_prog">>), Between(M, C1))
  BY <1>1, ReplaceLeads
<1>4. Leads(L, M, Between(M, C1), Release(<<"path_copy">>), Between(M, C))
  <2>1. C \subseteq C1 \cup S /\ {} \subseteq {} \cup C1 \cup S /\ M \subseteq M \cup C1 \cup S
    OBVIOUS
  <2> HIDE DEF S, C1
  <2> QED
    BY <1>1, <2>1, ClearLeads DEF Release, Between
<1> DEFINE s == Alloc(<<"path_copy">>)
           u == FreeAndClear("last_prog")
           v == Alloc(<<"last_prog">>)
           w == Release(<<"path_copy">>)
<1>5. Leads(L, M, Between(M, C), s \o (u \o v), Between(M, C1))
  BY <1>2, <1>3, LeadsOn
<1>6. s \o (u \o v) = (s \o u) \o v
  <2>1. s \in Seq(Calls) /\ w \in Seq(Calls)
    BY <1>2, <1>4 DEF Leads
  <2>2. u \in Seq(Calls)
    <3>1. Leads(L, {}, Between({}, {}), FreeAndClear("last_prog"), Between({}, {}))
      BY <1>1, FreeAndClearLeads DEF Between
    <3> QED
      BY <3>1 DEF Leads
  <2>3. v \in Seq(Calls)
    <3>1. Leads(L, {}, Box({"last_prog"}, {}, {}), Alloc(<<"last_prog">>), Box({}, {}, {}))
      <4>1. Lists(<<"last_prog">>, {"last_prog"}) /\ {"last_prog"} \subseteq Resources
            /\ {"last_prog"} \cap Sockets = {} /\ "new_fd" \notin {"last_prog"}
        BY <1>1, OneName, NamesDiffer
      <4> QED
        BY <4>1, AllocLeads
    <3> QED
      BY <3>1 DEF Leads
  <2> HIDE DEF s, u, v, w
  <2> QED
    BY <2>1, <2>2, <2>3, ConcatAssociative
<1> HIDE DEF C1
<1> QED
  BY <1>4, <1>5, <1>6, LeadsOn DEF save_last_prog

LEMMA NoSaveLeads ==
    ASSUME NEW L, Refusable \subseteq L, NEW M, NEW C, "path_copy" \in C, C \subseteq Locals
    PROVE  Leads(L, M, Between(M, C), save_last_prog_refused, Between(M, C))
<1> DEFINE C1 == C \ {"path_copy"}
<1>1. "path_copy" \in Locals /\ "path_copy" \in L /\ "path_copy" \in Resources
      /\ "last_prog" \in Pointers /\ "last_prog" # "sock" /\ "marked_arrays" \notin C1
      /\ C1 \cup {"path_copy"} = C
  <2>1. "marked_arrays" \notin Locals /\ "path_copy" \in Locals /\ "path_copy" \in L
    BY DEF Locals, Refusable
  <2> QED
    BY <2>1, NamesOfOne DEF Own
<1>2. Leads(L, M, Between(M, C), Alloc(<<"path_copy">>), Between(M, C1))
  BY <1>1, TakeLeads
<1>3. Leads(L, M, Between(M, C1), FreeAndClear("last_prog"), Between(M, C1))
  BY <1>1, FreeAndClearLeads DEF Between
<1>4. Leads(L, M, Between(M, C1), arr_gc(FALSE), Between(M, C1))
  BY <1>1, CollectLeads
<1>5. Leads(L, M, Between(M, C1), Clear(<<"path_copy">>), Between(M, C1 \cup {"path_copy"}))
  BY <1>1, DropLeads
<1> HIDE DEF C1
<1> QED
  BY <1>1, <1>2, <1>3, <1>4, <1>5, LeadsOn DEF save_last_prog_refused


(* A connection: in a local, with its socket, until it is stored.          *)
LEMMA OpenLeads ==
    ASSUME NEW L, NEW M, NEW C, "new_sock" \in C, C \subseteq {"marked_arrays", "sock"} \cup Locals
    PROVE  Leads(L, M, Between(M, C), Alloc(<<"new_sock", "new_fd">>), Between(M, C \ {"new_sock"}))
<1> DEFINE names == <<"new_sock", "new_fd">>
           S == {"new_sock", "new_fd"}
           A == Box(C, {"new_fd"}, M)
           B == Between(M, C \ {"new_sock"})
           mid == {o \in Box(C \ {"new_sock"}, {"new_fd"}, M) : o["new_sock"] = "live"}
           h == [k \in 1 .. 3 |-> IF k = 1 THEN A ELSE IF k = 2 THEN mid ELSE B]
<1>1. /\ Lists(names, S) /\ S \subseteq Resources /\ Len(names) = 2
      /\ names[1] = "new_sock" /\ names[2] = "new_fd" /\ "new_fd" \notin C
  <2>1. "new_sock" # "new_fd" /\ "new_fd" \in Descriptors /\ "new_sock" \in Resources
    BY NamesDiffer DEF Descriptors
  <2>2. "new_fd" \notin C
    BY DEF Locals
  <2>3. "new_fd" \in Resources
    BY <2>1 DEF Resources
  <2> QED
    BY <2>1, <2>2, <2>3, TwoNames
<1>2. h \in [1 .. Len(names) + 1 -> SUBSET Owners]
      /\ h[1] = A /\ h[2] = mid /\ h[Len(names) + 1] = B
  <2>1. A \in SUBSET Owners /\ mid \in SUBSET Owners /\ B \in SUBSET Owners
    BY DEF Box, Between
  <2> HIDE DEF A, B, mid, names
  <2>2. h \in [1 .. 3 -> SUBSET Owners] /\ h[1] = A /\ h[2] = mid /\ h[3] = B
    BY <2>1
  <2> QED
    BY <1>1, <2>2
<1>3. ASSUME NEW o \in A
      PROVE  Sound(L, M, <<"alloc", "new_sock">>, o) /\ Done(<<"alloc", "new_sock">>, o) \in mid
  <2>1. /\ "new_sock" \in Resources /\ "new_sock" \notin Sockets /\ "new_sock" # "new_fd"
    BY NamesDiffer
  <2>2. Sound(L, M, <<"alloc", "new_sock">>, o)
        /\ Done(<<"alloc", "new_sock">>, o)
              \in Box(C \ {"new_sock"}, {"new_fd"} \ {"new_sock"}, M \cup {"new_sock"})
    BY <1>3, <2>1, AllocOne
  <2>3. Box(C \ {"new_sock"}, {"new_fd"} \ {"new_sock"}, M \cup {"new_sock"})
           \subseteq Box(C \ {"new_sock"}, {"new_fd"}, M)
    BY <2>1, BoxIn
  <2>4. Done(<<"alloc", "new_sock">>, o)["new_sock"] = "live"
    BY <1>3, <2>1 DEF Done, Ends, Box, Owners
  <2> QED
    BY <2>2, <2>3, <2>4
<1>4. ASSUME NEW o \in mid
      PROVE  Sound(L, M, <<"alloc", "new_fd">>, o) /\ Done(<<"alloc", "new_fd">>, o) \in B
  <2> DEFINE p == [o EXCEPT !["new_fd"] = "live"]
  <2>1. /\ o \in Box(C \ {"new_sock"}, {"new_fd"}, M) /\ o["new_sock"] = "live"
        /\ o \in [Resources -> States] /\ Held(o) /\ (\A r \in Fresh : o[r] # "stale")
        /\ "new_fd" \in Resources /\ "live" \in States
    BY <1>1, <1>4 DEF Box, Owners, States
  <2>2. p \in [Resources -> States]
        /\ \A r \in Resources : p[r] = IF r = "new_fd" THEN "live" ELSE o[r]
    BY <2>1
  <2> HIDE DEF p
  <2>3. Held(p)
    BY <2>1, <2>2, NamesDiffer DEF Held
  <2>4. p \in Owners
    BY <2>1, <2>2, <2>3, NamesDiffer DEF Owners
  <2>5. p \in B
    BY <1>1, <2>1, <2>2, <2>4 DEF Box, Between
  <2>6. Done(<<"alloc", "new_fd">>, o) = p
    BY DEF Done, Ends, p
  <2>7. Sound(L, M, <<"alloc", "new_fd">>, o)
    BY <1>4, <2>1 DEF Sound, Box
  <2> QED
    BY <2>5, <2>6, <2>7
<1>5. ASSUME NEW k \in 1 .. Len(names), NEW o \in h[k]
      PROVE  Sound(L, M, <<"alloc", names[k]>>, o) /\ Done(<<"alloc", names[k]>>, o) \in h[k + 1]
  <2> HIDE DEF A, B, mid, names, h
  <2>1. k = 1 \/ k = 2
    BY <1>1
  <2>2. h[1 + 1] = mid /\ h[2 + 1] = B
    BY <1>1, <1>2
  <2>3. CASE k = 1
    BY <1>1, <1>2, <1>3, <1>5, <2>2, <2>3
  <2>4. CASE k = 2
    BY <1>1, <1>2, <1>4, <1>5, <2>2, <2>4
  <2> QED
    BY <2>1, <2>3, <2>4
<1>6. Leads(L, M, A, Alloc(names), B)
  <2> HIDE DEF A, B, mid, names, h
  <2> QED
    BY <1>1, <1>2, <1>5, EachLeads DEF Alloc
<1>7. Box(C, {}, M) \subseteq A
  <2>1. Box(C, {}, M) \subseteq Box(C, {} \cup {"new_fd"}, M)
    BY BoxHeld
  <2> QED
    BY <2>1
<1> HIDE DEF A
<1> QED
  BY <1>6, <1>7, LeadsFromTo DEF Between

(* It is stored, and the socket is that of a client or of a server, or     *)
(* stays idle.                                                             *)
LEMMA SocketStoreLeads ==
    ASSUME NEW L, NEW M, M \subseteq Pointers,
           NEW C, "sock" \in C, C \subseteq {"marked_arrays", "sock"} \cup Locals
    PROVE  Leads(L, M, Between(M, C), socket_store,
                 Box((C \ {"sock"}) \cup {"new_sock"}, {"client_fd", "server_fd"}, M))
<1> DEFINE g == Shift("null", "new_sock", "sock")
           h == Shift("null", "new_fd", "idle_fd")
           f == Together(g, h)
           N2 == (C \ {"sock"}) \cup {"new_sock"}
           D2 == {"client_fd", "server_fd"}
           moved == {"new_sock", "sock", "new_fd", "idle_fd"}
<1>1. /\ moved \subseteq Resources /\ "new_sock" # "sock" /\ "new_fd" # "idle_fd"
      /\ "new_sock" # "new_fd" /\ "sock" # "idle_fd" /\ "new_sock" # "idle_fd" /\ "sock" # "new_fd"
      /\ "new_sock" \in Fresh /\ "new_fd" \in Fresh /\ "idle_fd" \in Fresh /\ "sock" \notin Fresh
      /\ "sock" \in Resources /\ "new_sock" \in Resources
      /\ "idle_fd" \in Resources /\ "new_fd" \in Resources
      /\ C \cap {"new_fd", "idle_fd"} = {} /\ C \subseteq Resources
      /\ M \cap {"new_sock", "new_fd", "idle_fd"} = {} /\ M \subseteq Resources
  <2>1. "idle_fd" \in Fresh /\ "new_fd" \in Fresh /\ "new_sock" \in Fresh
    BY DEF Fresh, Descriptors
  <2>2. C \cap {"new_fd", "idle_fd"} = {}
    BY DEF Locals
  <2>3. C \subseteq Resources
    BY NamesDiffer, NamesOfOne
  <2> QED
    BY <2>1, <2>2, <2>3, NamesDiffer
<1>2. /\ f \in Assignments /\ DOMAIN f = moved
      /\ f["sock"] = "new_sock" /\ f["new_sock"] = "null"
      /\ f["idle_fd"] = "new_fd" /\ f["new_fd"] = "null"
  <2> HIDE DEF f, g, h
  <2>1. g = Shift("null", "new_sock", "sock") /\ h = Shift("null", "new_fd", "idle_fd")
        /\ f = Together(g, h)
    BY DEF f, g, h
  <2>2. /\ g \in Assignments /\ DOMAIN g = {"new_sock", "sock"}
        /\ g["sock"] = "new_sock" /\ g["new_sock"] = "null"
    BY <1>1, <2>1, NullMoves
  <2>3. /\ h \in Assignments /\ DOMAIN h = {"new_fd", "idle_fd"}
        /\ h["idle_fd"] = "new_fd" /\ h["new_fd"] = "null"
    BY <1>1, <2>1, NullMoves
  <2>4. Joins(g, h, f)
    BY <2>1, <2>2, <2>3, TogetherMoves
  <2> QED
    BY <1>1, <2>2, <2>3, <2>4 DEF Joins
<1> HIDE DEF f, g, h
<1>3. ASSUME NEW o \in Between(M, C)
      PROVE  Sound(L, M, <<"assign", f>>, o) /\ Assigned(f, o) \in Box(N2, D2, M)
  <2> DEFINE p == Assigned(f, o)
  <2>1. /\ o \in [Resources -> States] /\ Held(o) /\ (\A r \in Fresh : o[r] # "stale")
        /\ (\A r \in C : o[r] = "null") /\ (\A r \in M : o[r] # "stale")
    BY <1>1 DEF Between, Box, Owners
  <2>2. \A fd \in Sockets : o[fd] # "live"
    BY <2>1 DEF Held
  <2>3. /\ p["sock"] = o["new_sock"] /\ p["new_sock"] = "null"
        /\ p["idle_fd"] = o["new_fd"] /\ p["new_fd"] = "null"
        /\ \A r \in Resources \ moved : p[r] = o[r]
    BY <1>1, <1>2, NamesDiffer DEF Assigned
  <2>4. p \in [Resources -> States]
    <3>1. \A r \in Resources : p[r] \in States
      BY <1>1, <2>1, <2>3 DEF States
    <3> QED
      BY <3>1 DEF Assigned
  <2> HIDE DEF p
  <2>5. Held(p)
    <3>1. p["client_fd"] # "live" /\ p["server_fd"] # "live"
      BY <2>2, <2>3, NamesDiffer DEF Sockets
    <3>2. p["idle_fd"] = "live" => p["sock"] = "live"
      BY <2>1, <2>3 DEF Held
    <3> QED
      BY <2>3, <3>1, <3>2 DEF Held, Sockets
  <2>6. \A r \in Fresh : p[r] # "stale"
    BY <1>1, <2>1, <2>3, NamesDiffer
  <2>7. p \in Box(N2, D2, M)
    <3>1. \A r \in N2 : p[r] = "null"
      BY <1>1, <2>1, <2>3
    <3>2. \A r \in D2 : p[r] # "live"
      BY <2>2, <2>3, NamesDiffer DEF Sockets
    <3>3. \A r \in M : p[r] # "stale"
      BY <1>1, <2>1, <2>3
    <3> QED
      BY <2>4, <2>5, <2>6, <3>1, <3>2, <3>3 DEF Box, Owners
  <2>8. Sound(L, M, <<"assign", f>>, o)
    <3>1. o["sock"] # "live" /\ o["idle_fd"] # "live"
      BY <2>1, <2>2 DEF Sockets
    <3>2. f["sock"] = "new_sock" /\ f["idle_fd"] = "new_fd" /\ "sock" \in DOMAIN f
          /\ "idle_fd" \in DOMAIN f
      BY <1>2
    <3> QED
      BY <1>2, <3>1, <3>2 DEF Sound
  <2> QED
    BY <2>7, <2>8 DEF p
<1>4. Between(M, C) \in SUBSET Owners /\ Box(N2, D2, M) \in SUBSET Owners
  BY DEF Between, Box
<1> HIDE DEF N2, D2
<1>5. Leads(L, M, Between(M, C), Assign(f), Box(N2, D2, M))
  BY <1>2, <1>3, <1>4, AssignLeads
<1> QED
  BY <1>5 DEF socket_store, f, g, h, N2, D2

LEMMA SocketMovesLeads ==
    ASSUME NEW L, NEW M, M \subseteq Pointers, NEW N, N \subseteq {"marked_arrays"} \cup Locals,
           NEW fd \in {"client_fd", "server_fd"}
    PROVE  Leads(L, M, Box(N, {"client_fd", "server_fd"}, M), Assign(Shift("null", "idle_fd", fd)),
                 Between(M, N))
<1> DEFINE f == Shift("null", "idle_fd", fd)
           A == Box(N, {"client_fd", "server_fd"}, M)
<1>1. /\ fd \in Resources /\ "idle_fd" \in Resources /\ fd # "idle_fd"
      /\ fd \in Fresh /\ "idle_fd" \in Fresh /\ fd \in Sockets /\ "idle_fd" \in Sockets
      /\ N \cap {fd, "idle_fd"} = {} /\ N \subseteq Resources
      /\ M \cap {fd, "idle_fd"} = {} /\ M \subseteq Resources
      /\ fd # "new_fd" /\ fd # "new_sock" /\ fd # "sock"
  <2>1. fd \in Sockets /\ "idle_fd" \in Sockets /\ fd # "idle_fd"
    BY DEF Sockets
  <2>2. N \cap {fd, "idle_fd"} = {}
    BY DEF Locals
  <2> QED
    BY <2>1, <2>2, NamesDiffer, NamesOfOne
<1>2. f \in Assignments /\ DOMAIN f = {"idle_fd", fd} /\ f[fd] = "idle_fd" /\ f["idle_fd"] = "null"
  <2> HIDE DEF f
  <2>1. f = Shift("null", "idle_fd", fd)
    BY DEF f
  <2> QED
    BY <1>1, <2>1, NullMoves
<1> HIDE DEF f
<1>3. ASSUME NEW o \in A
      PROVE  Sound(L, M, <<"assign", f>>, o) /\ Assigned(f, o) \in Between(M, N)
  <2> DEFINE p == Assigned(f, o)
  <2>1. /\ o \in [Resources -> States] /\ Held(o) /\ (\A r \in Fresh : o[r] # "stale")
        /\ (\A r \in N : o[r] = "null") /\ (\A r \in M : o[r] # "stale") /\ o[fd] # "live"
    BY <1>1 DEF Box, Owners
  <2>2. /\ p[fd] = o["idle_fd"] /\ p["idle_fd"] = "null"
        /\ \A r \in Resources \ {fd, "idle_fd"} : p[r] = o[r]
    BY <1>1, <1>2, NamesDiffer DEF Assigned
  <2>3. p \in [Resources -> States]
    <3>1. \A r \in Resources : p[r] \in States
      BY <1>1, <2>1, <2>2 DEF States
    <3> QED
      BY <3>1 DEF Assigned
  <2> HIDE DEF p
  <2>4. Held(p)
    BY <1>1, <2>1, <2>2, NamesDiffer DEF Held
  <2>5. \A r \in Fresh : p[r] # "stale"
    BY <1>1, <2>1, <2>2, NamesDiffer
  <2>6. p \in Between(M, N)
    <3>1. \A r \in N : p[r] = "null"
      BY <1>1, <2>1, <2>2
    <3>2. \A r \in M : p[r] # "stale"
      BY <1>1, <2>1, <2>2
    <3> QED
      BY <2>3, <2>4, <2>5, <3>1, <3>2 DEF Between, Box, Owners
  <2>7. Sound(L, M, <<"assign", f>>, o)
    BY <1>2, <2>1 DEF Sound
  <2> QED
    BY <2>6, <2>7 DEF p
<1>4. A \in SUBSET Owners /\ Between(M, N) \in SUBSET Owners
  BY DEF Between, Box
<1> HIDE DEF A
<1>5. Leads(L, M, A, Assign(f), Between(M, N))
  BY <1>2, <1>3, <1>4, AssignLeads
<1> QED
  BY <1>5 DEF f, A

LEMMA StoreConnectionLeads ==
    ASSUME NEW L, NEW M, M \subseteq Pointers,
           NEW C, "sock" \in C, C \subseteq {"marked_arrays", "sock"} \cup Locals,
           NEW script \in connections
    PROVE  Leads(L, M, Between(M, C), socket_store \o script,
                 Between(M, (C \ {"sock"}) \cup {"new_sock"}))
<1> DEFINE N == (C \ {"sock"}) \cup {"new_sock"}
           D == {"client_fd", "server_fd"}
           A == Box(N, D, M)
<1>1. N \subseteq {"marked_arrays"} \cup Locals /\ A \in SUBSET Owners
  BY DEF Locals, Box
<1>2. Leads(L, M, Between(M, C), socket_store, A)
  BY SocketStoreLeads
<1> HIDE DEF N
<1>3. Leads(L, M, A, Assign(Shift("null", "idle_fd", "client_fd")), Between(M, N))
      /\ Leads(L, M, A, Assign(Shift("null", "idle_fd", "server_fd")), Between(M, N))
  BY <1>1, SocketMovesLeads
<1>4. Leads(L, M, A, Alloc(<<"accepted_fd">>), A)
  <2> DEFINE S == {"accepted_fd"}
  <2>1. /\ Lists(<<"accepted_fd">>, S) /\ S \subseteq Resources /\ S \cap Sockets = {}
        /\ "new_fd" \notin S /\ S \cap N = {} /\ S \cap D = {} /\ S \subseteq Files
    BY <1>1, OneName, NamesDiffer DEF Files, Sockets, Locals
  <2>2. /\ S \subseteq D \cup N \cup Files \cup L /\ N \subseteq N \ S /\ D \subseteq (D \cup N) \ S
        /\ M \subseteq M \cup N \cup S
    BY <2>1
  <2> HIDE DEF S, D
  <2> QED
    BY <2>1, <2>2, AllocLeads
<1>5. Leads(L, M, A, <<>>, Between(M, N))
  <2>1. Leads(L, M, A, <<>>, A)
    BY <1>1, LeadsNowhere
  <2>2. A \subseteq Between(M, N) /\ A \subseteq A
    BY BoxIn DEF Between
  <2> HIDE DEF A
  <2> QED
    BY <2>1, <2>2, LeadsFromTo
<1> HIDE DEF A, D
<1>6. Leads(L, M, A, script, Between(M, N))
  <2>1. CASE script = <<>>
    BY <1>5, <2>1
  <2>2. CASE script = Assign(Shift("null", "idle_fd", "client_fd"))
    BY <1>3, <2>2
  <2>3. CASE script = Alloc(<<"accepted_fd">>) \o Assign(Shift("null", "idle_fd", "server_fd"))
    BY <1>3, <1>4, <2>3, LeadsOn
  <2> QED
    BY <2>1, <2>2, <2>3 DEF connections
<1> QED
  BY <1>2, <1>6, LeadsOn DEF N
(* main begins with nothing.                                               *)
Nothing == Box(Resources, {}, {})

LEMMA MainLeads ==
    ASSUME NEW L, NEW C, C \subseteq {"marked_arrays"} \cup Locals
    PROVE  /\ Leads(L, Pointers, Nothing, init_ijvm, Between(Pointers, C))
           /\ \A files \in {<<>>, <<"in_file">>, <<"in_file", "out_file">>} :
                 Leads(L, Pointers, Nothing, init_ijvm \o Alloc(files), Between(Pointers, C))
           /\ \A script \in init_ijvm_failures \cup init_ijvm_exits :
                 Leads(L, Pointers, Nothing, script, Gone)
<1>1. CpuPointers \subseteq Resources /\ C \cap CpuPointers = {} /\ C \subseteq Resources
  <2>1. CpuPointers \subseteq Pointers /\ Pointers \subseteq Resources
        /\ "marked_arrays" \in Resources
    BY NamesOfOne, NamesDiffer
  <2>2. Locals \cap CpuPointers = {} /\ Locals \subseteq Resources
        /\ "marked_arrays" \notin CpuPointers
    BY <2>1, NamesOfOne
  <2> QED
    BY <2>1, <2>2
<1>2. Leads(L, Pointers, Nothing, init_ijvm, Between(Pointers, C))
  <2>1. /\ CpuPointers \subseteq {} \cup Resources /\ C \subseteq Resources \ CpuPointers
        /\ {} \subseteq ({} \cup Resources) \ CpuPointers
        /\ Pointers \subseteq {} \cup Resources \cup CpuPointers
    BY <1>1, NamesDiffer
  <2> QED
    BY <2>1, InitLeads DEF Nothing, Between
<1>3. ASSUME NEW files \in {<<>>, <<"in_file">>, <<"in_file", "out_file">>}
      PROVE  Leads(L, Pointers, Between(Pointers, C), Alloc(files), Between(Pointers, C))
  <2>1. PICK S \in SUBSET {"in_file", "out_file"} : Lists(files, S)
    <3>1. Lists(<<>>, {}) /\ Lists(<<"in_file">>, {"in_file"})
          /\ Lists(<<"in_file", "out_file">>, {"in_file", "out_file"})
      BY NoNames, OneName, TwoNames
    <3> QED
      BY <3>1
  <2>2. S \cap C = {}
    BY DEF Locals
  <2> QED
    BY <2>1, <2>2, FilesLead
<1>4. ASSUME NEW script \in init_ijvm_failures \cup init_ijvm_exits
      PROVE  Leads(L, Pointers, Nothing, script, Gone)
  <2>1. /\ CpuPointers \subseteq {} \cup Resources
        /\ Pointers \cap MachinePointers \subseteq {} \cup Resources
        /\ MachinePointers \subseteq Reset \cup Left
    BY NamesOfOne, NamesDiffer
  <2> QED
    BY <2>1, InitFailureLeads DEF Nothing, Gone
<1> QED
  BY <1>2, <1>3, <1>4, LeadsOn

(* destroy_ijvm leaves nothing, whatever it was that the process was at.   *)
LEMMA EndLeads ==
    ASSUME NEW L, NEW M, NEW C
    PROVE  Leads(L, M, Between(M, C), destroy_ijvm, Gone)
<1>1. /\ M \cap MachinePointers \subseteq M \cup C
      /\ MachinePointers \subseteq {} \cup C \cup Reset \cup Left
  BY NamesOfOne
<1> QED
  BY <1>1, DestroyLeads DEF Between, Gone

LEMMA QuitLeads ==
    ASSUME NEW L, NEW M, NEW C
    PROVE  Leads(L, M, Between(M, C), destroy_ijvm \o destroy_debug_data \o destroy_debugger, Gone)
<1> DEFINE D0 == MachinePointers
           W0 == M \cap DebuggerPointers
           W1 == W0 \ Labels
<1>1. Leads(L, M, Between(M, C), destroy_ijvm, Box({}, D0, W0))
  <2>1. /\ M \cap MachinePointers \subseteq M \cup C
        /\ D0 \subseteq {} \cup C \cup Reset \cup Left
        /\ W0 \subseteq (M \ Left) \cup C \cup Reset
    BY NamesOfOne
  <2> HIDE DEF D0, W0
  <2> QED
    BY <2>1, DestroyLeads DEF Between
<1>2. Leads(L, M, Box({}, D0, W0), destroy_debug_data, Box({}, D0, W1))
  <2>1. M \cap Labels \subseteq W0 \cup {} /\ D0 \subseteq D0 \cup {} \cup Labels
        /\ W1 \subseteq (W0 \ Labels) \cup {}
    BY NamesOfOne
  <2> HIDE DEF D0, W0, W1
  <2> QED
    BY <2>1, DestroyDataLeads
<1>3. Leads(L, M, Box({}, D0, W1), destroy_debugger, Gone)
  <2>1. Own \cap M \subseteq W1 \cup {} /\ Own \subseteq Pointers /\ "sock" \notin Own
    <3>1. Own \cap Labels = {}
      BY DEF Own, Labels
    <3> QED
      BY <3>1, NamesOfOne
  <2>2. Lists(<<"call_history", "last_prog", "brkpts">>, Own)
    BY LabelLists
  <2> HIDE DEF W1
  <2> QED
    BY <2>1, <2>2, FreeLeads DEF destroy_debugger, Gone
<1> HIDE DEF D0, W0, W1
<1> QED
  BY <1>1, <1>2, <1>3, LeadsOn

-----------------------------------------------------------------------------
(* The invariant                                                           *)

(* The operations that free before they reset.                             *)
Frees == {"arr_gc", "octuple_stack_size", "net_close", "destroy_ijvm", "init_ijvm"}

(* The pointers that cannot be freed twice, *)
Safe ==
    IF process = "ijdb"
    THEN IF load_failed \/ collected THEN DebuggerPointers ELSE Pointers
    ELSE IF struck \in Frees THEN {} ELSE Pointers

(* what else may get lost, *)
Losable == IF refused THEN Refusable ELSE {}

(* what is null between two operations: the locals, but for what is yet to *)
(* be stored, and what was never used,                                     *)
Kept(state) ==
    IF state \in {"arr_store", "arr_full", "arr_again"} THEN Locals \ {"new_array"}
    ELSE IF state \in {"socket_store", "socket_full", "socket_again"}
    THEN (Locals \ {"new_sock"}) \cup {"sock"}
    ELSE Locals

Unused == IF collected THEN {} ELSE {"marked_arrays"}
Now(state) == Unused \cup Kept(state)

(* and what the operation in progress leads to. *)
After(state) == IF state = "exited" THEN Gone ELSE Between(Safe, Now(state))

(* Most operations of ijvm free no pointer: no harm if a signal strikes.   *)
Harmless == {call \in Calls : call[1] # "free"}

NoneStale == \A r \in Resources : owner[r] # "stale"

SInv ==
    /\ owner \in Owners
    /\ Leads(Losable, Safe, {owner}, todo, After(next_state))
    /\ lost \subseteq Files \cup Losable
    /\ twice # "none" => twice \in Pointers \ Safe
    /\ load_failed \in BOOLEAN /\ collected \in BOOLEAN /\ refused \in BOOLEAN
    /\ operation # "none"
    /\ prog_state = "exited" => next_state = "exited" /\ todo = <<>>
    /\ process # "ijdb" =>
          /\ struck = "none" => operation \in Frees \/ (NoneStale /\ todo \in Seq(Harmless))
          /\ next_state = "EMPTY" => owner \in Nothing /\ todo = <<>>

LEMMA HarmlessEach ==
    ASSUME NEW verb \in {"alloc", "clear", "release"}, NEW names, Each(verb, names) \in Seq(Calls)
    PROVE  Each(verb, names) \in Seq(Harmless)
<1> DEFINE n == Len(names)
           s == Each(verb, names)
<1>1. s = [k \in 1 .. n |-> <<verb, names[k]>>]
  BY DEF Each
<1> HIDE DEF s, n
<1>2. s \in [1 .. Len(s) -> Calls] /\ Len(s) \in Nat /\ DOMAIN s = 1 .. Len(s)
  BY LenProperties DEF s
<1>3. \A k \in 1 .. Len(s) : s[k][1] = verb
  BY <1>1, <1>2
<1>4. \A k \in 1 .. Len(s) : s[k] \in Harmless
  BY <1>2, <1>3 DEF Harmless
<1>5. s \in [1 .. Len(s) -> Harmless]
  BY <1>2, <1>4
<1>6. s \in Seq(Harmless)
  BY <1>2, <1>5
<1> QED
  BY <1>6 DEF s

LEMMA HarmlessAssign ==
    ASSUME NEW f, Assign(f) \in Seq(Calls)
    PROVE  Assign(f) \in Seq(Harmless)
<1> DEFINE call == <<"assign", f>>
<1>1. Assign(f) = <<call>> /\ call[1] = "assign"
  BY DEF Assign
<1> HIDE DEF call
<1>2. call \in Calls
  <2>1. <<call>> \in Seq(Calls) /\ Len(<<call>>) = 1 /\ <<call>>[1] = call
    BY <1>1
  <2>2. <<call>>[1] \in Calls
    BY <2>1, ElementOfSeq
  <2> QED
    BY <2>1, <2>2
<1>3. call \in Harmless
  BY <1>1, <1>2 DEF Harmless
<1> QED
  BY <1>1, <1>3

LEMMA HarmlessOn ==
    ASSUME NEW s \in Seq(Harmless), NEW t \in Seq(Harmless)
    PROVE  s \o t \in Seq(Harmless)
BY ConcatProperties

(* The growth of a table is harmless.                                      *)
LEMMA HarmlessRoom ==
    ASSUME NEW t \in {arr_mem, net_conn}
    PROVE  /\ marr_resize(t) \in Seq(Harmless)
           /\ \A script \in marr_resize_refusals(t) : script \in Seq(Harmless)
<1> DEFINE C == Olds \cup {"sock"}
           M == Pointers
<1>1. Growing(M, C, t)
  BY OldNames DEF Growing
<1> HIDE DEF C, M
<1>2. \A new \in {"live", "null"} :
         Assign(new_map(t, new)) \in Seq(Calls) /\ Assign(new_values(t, new)) \in Seq(Calls)
  BY <1>1, NewMapLeads, NewValuesLeads DEF Leads
<1>3. Assign(copied(t)) \in Seq(Calls)
  BY <1>1, CopiedLeads DEF Leads
<1>4. Assign(put_back(t)) \in Seq(Calls)
  BY <1>1, PutBackLeads DEF Leads
<1>5. Release(<<"old_map", "old_values">>) \in Seq(Calls)
  <2> DEFINE S == {"old_map", "old_values"}
  <2>1. /\ Lists(<<"old_map", "old_values">>, S) /\ S \subseteq Resources
        /\ "new_sock" \notin S /\ "sock" \notin S
    BY OldNames, TwoNames DEF Olds
  <2>2. S \subseteq {} \cup {} \cup S
    OBVIOUS
  <2> HIDE DEF S
  <2>3. Leads({}, {}, Box({}, {}, {}), Release(<<"old_map", "old_values">>), Box({}, {}, {}))
    BY <2>1, <2>2, ClearLeads DEF Release
  <2> QED
    BY <2>3 DEF Leads
<1>6. /\ \A new \in {"live", "null"} : /\ Assign(new_map(t, new)) \in Seq(Harmless)
                                       /\ Assign(new_values(t, new)) \in Seq(Harmless)
      /\ Assign(copied(t)) \in Seq(Harmless) /\ Assign(put_back(t)) \in Seq(Harmless)
      /\ Release(<<"old_map", "old_values">>) \in Seq(Harmless)
  BY <1>2, <1>3, <1>4, <1>5, HarmlessAssign, HarmlessEach DEF Release
<1>7. marr_resize(t) \in Seq(Harmless)
  BY <1>6, HarmlessOn DEF marr_resize
<1>8. ASSUME NEW script \in marr_resize_refusals(t)
      PROVE  script \in Seq(Harmless)
  <2>1. PICK new \in {<<"null", "live">>, <<"live", "null">>, <<"null", "null">>} :
           script = Assign(new_map(t, new[1])) \o Assign(new_values(t, new[2]))
                       \o Assign(put_back(t))
    BY DEF marr_resize_refusals
  <2>2. new[1] \in {"live", "null"} /\ new[2] \in {"live", "null"}
    BY <2>1
  <2> QED
    BY <1>6, <2>1, <2>2, HarmlessOn
<1> QED
  BY <1>7, <1>8

(* What is kept, state by state.                                           *)
LEMMA KeptFacts ==
    /\ Unused \subseteq {"marked_arrays"}
    /\ \A state : Kept(state) \subseteq {"sock"} \cup Locals
    /\ \A state \in {"EMPTY", "LOADED", "STARTED", "given_up", "stack_full", "stack_again"} :
          Kept(state) = Locals
    /\ \A state \in {"arr_store", "arr_full", "arr_again"} : Kept(state) = Locals \ {"new_array"}
    /\ \A state \in {"socket_store", "socket_full", "socket_again"} :
          Kept(state) = (Locals \ {"new_sock"}) \cup {"sock"}
BY DEF Kept, Unused

LEMMA NowLocals ==
    ASSUME NEW state \in {"EMPTY", "LOADED", "STARTED", "given_up", "stack_full", "stack_again"}
    PROVE  /\ Now(state) = Unused \cup Locals
           /\ Now(state) \subseteq {"marked_arrays"} \cup Locals
           /\ After(state) = Between(Safe, Unused \cup Locals)
BY KeptFacts DEF Now, After

LEMMA SafeFacts ==
    ASSUME SInv
    PROVE  /\ Safe \subseteq Pointers /\ Unused \subseteq {"marked_arrays"}
           /\ TablePointers \subseteq Safe \/ TablePointers \cap Safe = {}
           /\ process = "ijdb" => /\ Debugs(Safe, Unused \cup Locals)
                                  /\ Debugs(DebuggerPointers, Unused \cup Locals)
           /\ process # "ijdb" /\ struck = "none" => Safe = Pointers
<1>1. "none" \notin Frees
  BY DEF Frees
<1>2. /\ TablePointers \subseteq Pointers /\ TablePointers \cap DebuggerPointers = {}
      /\ "marked_arrays" \notin DebuggerPointers
  BY OldNames DEF TablePointers, DebuggerPointers
<1>3. Safe \in {Pointers, DebuggerPointers, {}}
  BY DEF Safe
<1> QED
  BY <1>1, <1>2, <1>3, NamesOfOne DEF Safe, Unused, Debugs

(* One call of the script.                                                 *)
LEMMA CallKeeps ==
    ASSUME SInv, todo # <<>>, todo' = Tail(todo), owner' = Done(Head(todo), owner),
           UNCHANGED <<process, operation, next_state, prog_state, struck, load_failed,
                       collected, refused>>,
           lost' \subseteq Files \cup Losable, twice' # "none" => twice' \in Pointers \ Safe
    PROVE  SInv'
<1>1. Leads(Losable, Safe, {owner}, todo, After(next_state))
  BY DEF SInv
<1>2. /\ Head(todo) \in Calls /\ Leads(Losable, Safe, {owner'}, todo', After(next_state))
  BY <1>1, LeadsStep
<1>3. Safe' = Safe /\ After(next_state)' = After(next_state) /\ Losable' = Losable
  BY DEF Safe, After, Unused, Losable, Now, Kept
<1>4. owner' \in Owners
  BY <1>2 DEF Leads, Owners
<1>5. ASSUME NoneStale, todo \in Seq(Harmless)
      PROVE  NoneStale' /\ todo' \in Seq(Harmless)
  <2>1. todo' \in Seq(Harmless) /\ Head(todo) \in Harmless
    BY <1>5, HeadTailProperties
  <2>2. owner \in [Resources -> States] /\ \A r \in Resources : owner[r] # "stale"
    BY <1>5 DEF SInv, Owners, NoneStale
  <2>3. Head(todo)[1] # "free"
    BY <2>1 DEF Harmless
  <2>4. CASE Head(todo)[1] = "assign"
    <3> DEFINE f == Head(todo)[2]
    <3>1. f \in Assignments /\ owner' = Assigned(f, owner)
      BY <1>2, <2>4 DEF Calls, Done
    <3> HIDE DEF f
    <3>2. \A r \in DOMAIN f : f[r] \in Resources \cup {"live", "null"}
      BY <3>1, AssignTypes
    <3> QED
      BY <2>1, <2>2, <3>1, <3>2 DEF Assigned, NoneStale
  <2>5. CASE Head(todo)[1] # "assign"
    <3> DEFINE state == Ends(Head(todo)[1], owner[Head(todo)[2]])
    <3>1. owner' = [owner EXCEPT ![Head(todo)[2]] = state]
      BY <2>5 DEF Done
    <3>2. state # "stale"
      BY <2>3 DEF Ends
    <3> HIDE DEF state
    <3> QED
      BY <2>1, <2>2, <3>1, <3>2 DEF NoneStale
  <2> QED
    BY <2>4, <2>5
<1> QED
  BY <1>2, <1>3, <1>4, <1>5 DEF SInv

LEMMA AtRest ==
    ASSUME SInv, Idle, prog_state # "exited"
    PROVE  owner \in Between(Safe, Now(prog_state))
<1>1. Leads(Losable, Safe, {owner}, <<>>, After(next_state)) /\ next_state # "exited"
  BY DEF SInv, Idle
<1>2. owner \in After(next_state)
  BY <1>1, LeadsThere
<1> QED
  BY <1>1, <1>2 DEF After, Idle

LEMMA RestNone ==
    ASSUME SInv, Idle, prog_state # "exited", process # "ijdb", struck = "none"
    PROVE  NoneStale
<1>1. owner \in Between(Pointers, Now(prog_state))
  BY AtRest, SafeFacts
<1>2. (\A r \in Pointers : owner[r] # "stale") /\ (\A r \in Fresh : owner[r] # "stale")
  BY <1>1, NamesDiffer DEF Between, Box, Owners
<1>3. \A r \in Olds \cup {"old_stack"} : owner[r] # "stale"
  <2>1. Olds \cup {"old_stack"} \subseteq Now(prog_state)
    BY DEF Olds, Now, Kept, Locals
  <2>2. Olds \cup {"old_stack"} \subseteq Resources
    BY NamesOfOne DEF Olds, Locals
  <2> QED
    BY <1>1, <2>1, <2>2 DEF Between, Box
<1>4. Resources = Pointers \cup Fresh \cup Olds \cup {"old_stack"}
  BY DEF Resources, Pointers, Fresh, Olds, Locals
<1> QED
  BY <1>2, <1>3, <1>4 DEF NoneStale

(* An operation begins.                                                    *)
LEMMA BeginKeeps ==
    ASSUME SInv, Idle, prog_state # "exited",
           NEW name, NEW script, NEW state, Begin(name, script, state), name # "none",
           load_failed' \in BOOLEAN, collected' \in BOOLEAN, refused' \in BOOLEAN,
           NEW A, owner \in A, Leads(Losable', Safe', A, script, After(state)'),
           process # "ijdb" => state # "EMPTY" /\ (name \in Frees \/ script \in Seq(Harmless))
    PROVE  SInv'
<1>1. /\ operation' = name /\ todo' = script /\ next_state' = state /\ lost' = {}
      /\ UNCHANGED <<process, owner, prog_state, twice, struck>>
  BY DEF Begin
<1>2. Leads(Losable', Safe', {owner'}, todo', After(next_state)')
  <2>1. After(next_state)' = After(state)'
    BY <1>1 DEF After, Now, Kept
  <2>2. {owner} \subseteq A /\ After(state)' \subseteq After(state)'
    OBVIOUS
  <2>3. Leads(Losable', Safe', {owner}, script, After(state)')
    BY <2>2, LeadsFromTo
  <2> QED
    BY <1>1, <2>1, <2>3
<1>3. NoneStale' <=> NoneStale
  BY <1>1 DEF NoneStale
<1>4. twice' = "none"
  BY <1>1 DEF Idle
<1>5. process # "ijdb" /\ struck = "none" => NoneStale
  BY RestNone
<1>6. owner' \in Owners /\ operation' # "none" /\ prog_state' # "exited"
      /\ lost' \subseteq Files \cup Losable'
  BY <1>1 DEF SInv
<1> QED
  BY <1>1, <1>2, <1>3, <1>4, <1>5, <1>6 DEF SInv

(* Less is promised of a machine from the load that fails on.              *)
LEMMA StillBetween ==
    ASSUME NEW M, NEW C, NEW M2, M2 \subseteq M, NEW C2, C2 \subseteq C
    PROVE  Between(M, C) \subseteq Between(M2, C2)
BY BoxIn DEF Between

LEMMA SameSafe ==
    ASSUME Works, UNCHANGED <<process, struck>>
    PROVE  Safe' = Safe /\ Unused' = Unused /\ Losable' = Losable
           /\ \A state : After(state)' = After(state)
BY DEF Works, Safe, Unused, Losable, After, Now, Kept

(* The machine at work.                                                    *)

LEMMA WorkKeeps ==
    ASSUME SInv, Idle, prog_state # "exited", Works,
           NEW name, name # "none", NEW script, NEW state, Begin(name, script, state),
           NEW A, owner \in A, Leads(Losable, Safe, A, script, After(state)),
           process # "ijdb" => state # "EMPTY" /\ (name \in Frees \/ script \in Seq(Harmless))
    PROVE  SInv'
<1>1. Safe' = Safe /\ Losable' = Losable /\ After(state)' = After(state)
  BY SameSafe DEF Begin
<1>2. load_failed' \in BOOLEAN /\ collected' \in BOOLEAN /\ refused' \in BOOLEAN
  BY DEF SInv, Works
<1> QED
  BY <1>1, <1>2, BeginKeeps

(* In a state that keeps all locals. *)
LEMMA PlainRest ==
    ASSUME SInv, Idle,
           prog_state \in {"EMPTY", "LOADED", "STARTED", "given_up", "stack_full", "stack_again"}
    PROVE  owner \in Between(Safe, Unused \cup Locals)
BY AtRest, NowLocals

LEMMA CreateKeeps ==
    ASSUME SInv, create_array
    PROVE  SInv'
<1>1. /\ Idle /\ prog_state = "STARTED" /\ Works
      /\ Begin("arr_create", Alloc(<<"new_array">>), "arr_store")
  BY DEF create_array, At
<1> DEFINE C == Unused \cup Locals
<1>2. owner \in Between(Safe, C)
  BY <1>1, PlainRest
<1>3. "new_array" \in C /\ Now("arr_store") = C \ {"new_array"}
  BY KeptFacts DEF Locals, Now
<1> HIDE DEF C
<1>4. Leads(Losable, Safe, Between(Safe, C), Alloc(<<"new_array">>), After("arr_store"))
  BY <1>3, CreateLeads DEF After
<1>5. Alloc(<<"new_array">>) \in Seq(Harmless)
  BY <1>4, HarmlessEach DEF Alloc, Leads
<1>6. /\ prog_state # "exited" /\ "arr_create" # "none"
      /\ process # "ijdb" =>
            "arr_store" # "EMPTY" /\ ("arr_create" \in Frees \/ Alloc(<<"new_array">>) \in Seq(Harmless))
  BY <1>1, <1>5
<1> QED
  BY <1>1, <1>2, <1>4, <1>6, WorkKeeps

LEMMA OpenKeeps ==
    ASSUME SInv, open_connection
    PROVE  SInv'
<1>1. /\ Idle /\ prog_state = "STARTED" /\ Works /\ owner["sock"] = "null"
      /\ Begin("socket_create", Alloc(<<"new_sock", "new_fd">>), "socket_store")
  BY DEF open_connection, At
<1> DEFINE C == Unused \cup Locals \cup {"sock"}
<1>2. owner \in Between(Safe, C)
  BY <1>1, PlainRest DEF Between, Box
<1>3. /\ "new_sock" \in C /\ Now("socket_store") = C \ {"new_sock"}
      /\ C \subseteq {"marked_arrays", "sock"} \cup Locals
  BY KeptFacts DEF Locals, Now
<1> HIDE DEF C
<1>4. Leads(Losable, Safe, Between(Safe, C), Alloc(<<"new_sock", "new_fd">>), After("socket_store"))
  BY <1>3, OpenLeads DEF After
<1>5. Alloc(<<"new_sock", "new_fd">>) \in Seq(Harmless)
  BY <1>4, HarmlessEach DEF Alloc, Leads
<1>6. /\ prog_state # "exited" /\ "socket_create" # "none"
      /\ process # "ijdb" =>
            "socket_store" # "EMPTY" /\ ("socket_create" \in Frees \/ Alloc(<<"new_sock", "new_fd">>) \in Seq(Harmless))
  BY <1>1, <1>5
<1> QED
  BY <1>1, <1>2, <1>4, <1>6, WorkKeeps

(* A table grows, or cannot.                                               *)
LEMMA RoomKeeps ==
    ASSUME SInv, make_room
    PROVE  SInv'
<1>1. PICK t \in {arr_mem, net_conn} :
          /\ At(t.store) \/ At(t.again)
          /\ \/ Begin("marr_resize", marr_resize(t), t.store) /\ Works
             \/ \E script \in marr_resize_refusals(t) :
                   Begin("marr_resize", script, t.full) /\ Refuses
  BY DEF make_room
<1> DEFINE C == Now(prog_state)
<1>2. /\ Idle /\ prog_state # "exited"
      /\ Kept(t.store) = Kept(prog_state) /\ Kept(t.full) = Kept(prog_state)
      /\ t.store \notin {"exited", "EMPTY"} /\ t.full \notin {"exited", "EMPTY"}
      /\ Olds \subseteq Kept(prog_state)
      /\ Kept(prog_state) \subseteq {"sock"} \cup Locals
      /\ t = net_conn => "sock" \in Kept(prog_state)
  BY <1>1, KeptFacts DEF At, arr_mem, net_conn, Kept, Olds, Locals
<1>3. Growing(Safe, C, t)
  BY <1>2, SafeFacts DEF Growing, Now
<1>4. owner \in Between(Safe, C)
  BY <1>2, AtRest
<1>5. marr_resize(t) \in Seq(Harmless) /\ \A script \in marr_resize_refusals(t) : script \in Seq(Harmless)
  BY HarmlessRoom
<1>6. After(t.store) = Between(Safe, C) /\ After(t.full) = Between(Safe, C)
  BY <1>2 DEF After, Now
<1> HIDE DEF C
<1>7. CASE Begin("marr_resize", marr_resize(t), t.store) /\ Works
  <2>1. Leads(Losable, Safe, Between(Safe, C), marr_resize(t), After(t.store))
    BY <1>3, <1>6, RoomLeads
  <2> QED
    BY <1>2, <1>4, <1>5, <1>7, <2>1, WorkKeeps
<1>8. ASSUME NEW script \in marr_resize_refusals(t), Begin("marr_resize", script, t.full), Refuses
      PROVE  SInv'
  <2>1. /\ Safe' = Safe /\ After(t.full)' = After(t.full) /\ Losable' = Refusable
        /\ load_failed' \in BOOLEAN /\ collected' \in BOOLEAN /\ refused' \in BOOLEAN
    BY <1>8 DEF Refuses, Begin, Safe, After, Unused, Now, Kept, Losable, SInv
  <2>2. Leads(Refusable, Safe, Between(Safe, C), script, After(t.full))
    BY <1>3, <1>6, <1>8, NoRoomLeads
  <2>3. Leads(Losable', Safe', Between(Safe, C), script, After(t.full)')
    BY <2>1, <2>2
  <2>4. script \in Seq(Harmless)
    BY <1>5, <1>8
  <2> QED
    BY <1>2, <1>4, <1>8, <2>1, <2>3, <2>4, BeginKeeps
<1> QED
  BY <1>1, <1>7, <1>8

LEMMA StoreArrayKeeps ==
    ASSUME SInv, store_array
    PROVE  SInv'
<1> DEFINE script == Assign(Shift("null", "new_array", "array"))
           C == Now("arr_store")
<1>1. Idle /\ prog_state = "arr_store" /\ Works /\ Begin("arr_store", script, "STARTED")
  BY DEF store_array, At
<1>2. C \subseteq {"marked_arrays"} \cup Locals /\ C \cup {"new_array"} = Unused \cup Locals
  BY KeptFacts DEF Now, Locals
<1>3. owner \in Between(Safe, C) /\ Safe \subseteq Pointers
  BY <1>1, AtRest, SafeFacts
<1> HIDE DEF C
<1>4. Leads(Losable, Safe, Between(Safe, C), script, After("STARTED"))
  BY <1>2, <1>3, StoreArrayLeads, NowLocals
<1>5. script \in Seq(Harmless)
  BY <1>4, HarmlessAssign DEF Leads
<1> HIDE DEF script
<1>6. /\ prog_state # "exited" /\ "arr_store" # "none"
      /\ process # "ijdb" =>
            "STARTED" # "EMPTY" /\ ("arr_store" \in Frees \/ script \in Seq(Harmless))
  BY <1>1, <1>5
<1> QED
  BY <1>1, <1>3, <1>4, <1>6, WorkKeeps

LEMMA HarmlessConnections ==
    ASSUME NEW script \in connections
    PROVE  socket_store \o script \in Seq(Harmless)
<1> DEFINE C == {"sock"}
           client == Assign(Shift("null", "idle_fd", "client_fd"))
           server == Assign(Shift("null", "idle_fd", "server_fd"))
<1>1. socket_store \in Seq(Calls)
  BY SocketStoreLeads DEF Leads
<1>2. client \in Seq(Calls) /\ server \in Seq(Calls)
  BY SocketMovesLeads DEF Leads
<1>3. Alloc(<<"accepted_fd">>) \in Seq(Calls)
  <2> DEFINE S == {"accepted_fd"}
  <2>1. /\ Lists(<<"accepted_fd">>, S) /\ S \subseteq Resources /\ S \cap Sockets = {}
        /\ "new_fd" \notin S /\ S \subseteq {} \cup {} \cup Files \cup {}
    BY OneName, NamesDiffer DEF Files, Sockets
  <2> HIDE DEF S
  <2>2. Leads({}, {}, Box({}, {}, {}), Alloc(<<"accepted_fd">>), Box({}, {}, {}))
    BY <2>1, AllocLeads
  <2> QED
    BY <2>2 DEF Leads
<1>4. /\ socket_store \in Seq(Harmless) /\ client \in Seq(Harmless) /\ server \in Seq(Harmless)
      /\ Alloc(<<"accepted_fd">>) \in Seq(Harmless)
  BY <1>1, <1>2, <1>3, HarmlessAssign, HarmlessEach DEF Alloc, socket_store
<1> HIDE DEF client, server
<1>5. script \in Seq(Harmless)
  <2>1. script \in {<<>>, client, Alloc(<<"accepted_fd">>) \o server}
    BY DEF connections, client, server
  <2>2. <<>> \in Seq(Harmless)
    OBVIOUS
  <2> QED
    BY <1>4, <2>1, <2>2, HarmlessOn
<1> QED
  BY <1>4, <1>5, HarmlessOn

LEMMA StoreConnectionKeeps ==
    ASSUME SInv, store_connection
    PROVE  SInv'
<1> DEFINE C == Now("socket_store")
<1>1. PICK script \in connections : Begin("socket_store", socket_store \o script, "STARTED")
  BY DEF store_connection
<1>2. Idle /\ prog_state = "socket_store" /\ Works
  BY DEF store_connection, At
<1>3. /\ C \subseteq {"marked_arrays", "sock"} \cup Locals /\ "sock" \in C
      /\ (C \ {"sock"}) \cup {"new_sock"} = Unused \cup Locals
  BY KeptFacts DEF Now, Locals
<1>4. owner \in Between(Safe, C) /\ Safe \subseteq Pointers
  BY <1>2, AtRest, SafeFacts
<1> HIDE DEF C
<1>5. Leads(Losable, Safe, Between(Safe, C), socket_store \o script, After("STARTED"))
  BY <1>3, <1>4, StoreConnectionLeads, NowLocals
<1>6. socket_store \o script \in Seq(Harmless)
  BY HarmlessConnections
<1>7. /\ prog_state # "exited" /\ "socket_store" # "none"
      /\ process # "ijdb" =>
            "STARTED" # "EMPTY" /\ ("socket_store" \in Frees \/ (socket_store \o script) \in Seq(Harmless))
  BY <1>1, <1>2, <1>6
<1> QED
  BY <1>1, <1>2, <1>4, <1>5, <1>7, WorkKeeps

(* The collector runs; from then on nothing is promised of the marks.      *)
LEMMA GcKeeps ==
    ASSUME SInv, Idle, prog_state # "exited", Collects,
           NEW sweeps \in BOOLEAN, NEW state, state # "exited", Begin("arr_gc", arr_gc(sweeps), state),
           Kept(state) = Kept(prog_state), process # "ijdb" => state # "EMPTY"
    PROVE  SInv'
<1> DEFINE C == Kept(prog_state)
<1>1. owner \in Between(Safe, Unused \cup C)
  BY AtRest DEF Now
<1>2. /\ Safe' \subseteq Safe /\ Unused' = {} /\ Losable' = Losable
      /\ load_failed' \in BOOLEAN /\ collected' \in BOOLEAN /\ refused' \in BOOLEAN
  BY NamesOfOne DEF Safe, Unused, Begin, Collects, Losable, SInv
<1>3. owner \in Between(Safe', C)
  <2>1. C \subseteq Unused \cup C
    OBVIOUS
  <2> HIDE DEF C
  <2> QED
    BY <1>1, <1>2, <2>1, StillBetween
<1>4. "marked_arrays" \notin C
  BY KeptFacts DEF Locals
<1>5. After(state)' = Between(Safe', C)
  BY <1>2 DEF After, Now, Kept
<1> HIDE DEF C
<1>6. Leads(Losable', Safe', Between(Safe', C), arr_gc(sweeps), After(state)')
  BY <1>4, <1>5, CollectLeads
<1>7. "arr_gc" \in Frees /\ "arr_gc" # "none"
  BY DEF Frees
<1> QED
  BY <1>2, <1>3, <1>6, <1>7, BeginKeeps

LEMMA CollectKeeps ==
    ASSUME SInv, collect
    PROVE  SInv'
<1>1. PICK sweeps \in BOOLEAN : Begin("arr_gc", arr_gc(sweeps), Collecting[prog_state])
  BY DEF collect
<1>2. Idle /\ prog_state \in DOMAIN Collecting /\ Collects
  BY DEF collect
<1>3. /\ prog_state # "exited" /\ Collecting[prog_state] \notin {"exited", "EMPTY"}
      /\ Kept(Collecting[prog_state]) = Kept(prog_state)
  BY <1>2 DEF Collecting, Kept
<1> QED
  BY <1>1, <1>2, <1>3, GcKeeps

(* The stack grows, or cannot.                                             *)
LEMMA GrowKeeps ==
    ASSUME SInv, grow_stack
    PROVE  SInv'
<1> DEFINE C == Unused \cup Locals
<1>1. /\ Idle /\ prog_state \in {"STARTED", "stack_again"} /\ Works
      /\ \/ Begin("octuple_stack_size", octuple_stack_size, "STARTED")
         \/ Begin("octuple_stack_size", octuple_stack_size_refused, "stack_full")
  BY DEF grow_stack, At
<1>2. owner \in Between(Safe, C) /\ Safe \subseteq Pointers
  BY <1>1, PlainRest, SafeFacts
<1>3. /\ "stack" \in Pointers /\ "stack" # "sock" /\ "stack" \notin C /\ "old_stack" \in C
      /\ C \subseteq {"marked_arrays"} \cup Locals
      /\ After("STARTED") = Between(Safe, C) /\ After("stack_full") = Between(Safe, C)
  BY KeptFacts, NowLocals DEF Pointers, MachinePointers, CpuPointers, Locals
<1> HIDE DEF C
<1>4. /\ Leads(Losable, Safe, Between(Safe, C), octuple_stack_size, After("STARTED"))
      /\ Leads(Losable, Safe, Between(Safe, C), octuple_stack_size_refused, After("stack_full"))
  BY <1>2, <1>3, ReplaceLeads, NoStackLeads DEF octuple_stack_size
<1>5. "octuple_stack_size" \in Frees
  BY DEF Frees
<1> QED
  BY <1>1, <1>2, <1>4, <1>5, WorkKeeps

LEMMA CloseKeeps ==
    ASSUME SInv, close_connection
    PROVE  SInv'
<1>1. Idle /\ prog_state = "STARTED" /\ Works /\ Begin("net_close", net_close, "STARTED")
  BY DEF close_connection, At
<1>2. Leads(Losable, Safe, Between(Safe, Unused \cup Locals), net_close, After("STARTED"))
      /\ "net_close" \in Frees
  BY CloseLeads, NowLocals DEF Frees
<1>3. owner \in Between(Safe, Unused \cup Locals)
  BY <1>1, PlainRest
<1> QED
  BY <1>1, <1>2, <1>3, WorkKeeps

LEMMA DestroyNowKeeps ==
    ASSUME SInv, destroy_ijvm_now
    PROVE  SInv'
<1>1. /\ Idle /\ prog_state # "exited" /\ Works
      /\ Begin("destroy_ijvm", destroy_ijvm, "exited")
  BY DEF destroy_ijvm_now
<1>2. owner \in Between(Safe, Now(prog_state))
  BY <1>1, AtRest
<1>3. Leads(Losable, Safe, Between(Safe, Now(prog_state)), destroy_ijvm, After("exited"))
      /\ "destroy_ijvm" \in Frees
  BY EndLeads DEF After, Frees
<1> QED
  BY <1>1, <1>2, <1>3, WorkKeeps

(* main and its handler.                                                   *)

LEMMA MainLoadsKeeps ==
    ASSUME SInv, main_loads \/ main_gives_up
    PROVE  SInv'
<1>1. /\ process = "ijvm" /\ process # "ijdb" /\ Idle /\ prog_state = "EMPTY"
      /\ load_failed' \in BOOLEAN /\ collected' = collected /\ refused' = refused
      /\ "init_ijvm" \in Frees
  BY DEF main_loads, main_gives_up, In, At, Works, Fails, Frees, SInv
<1>2. owner \in Nothing
  BY <1>1 DEF SInv, Idle
<1> DEFINE C == Unused \cup Locals
           End(state) == IF state = "exited" THEN Gone ELSE Between(Pointers, C)
<1>3. ASSUME NEW script, NEW state, state \in {"STARTED", "given_up", "exited"},
             Begin("init_ijvm", script, state),
             Leads(Losable, Pointers, Nothing, script, End(state))
      PROVE  SInv'
  <2>1. /\ Unused' = Unused /\ Safe' = Safe /\ Losable' = Losable /\ After(state)' = After(state)
        /\ Safe = IF struck \in Frees THEN {} ELSE Pointers
    BY <1>1, <1>3 DEF Unused, Safe, Losable, After, Now, Kept, Begin
  <2>2. After(state) = IF state = "exited" THEN Gone ELSE Between(Safe, C)
    BY <1>3, NowLocals DEF After
  <2>3. Leads(Losable, Safe, Nothing, script, After(state))
    <3>1. CASE struck \notin Frees
      BY <1>3, <2>1, <2>2, <3>1
    <3>2. CASE struck \in Frees
      <4>1. Leads(Losable, {}, Nothing, script, End(state))
        <5>1. {} \subseteq Pointers /\ Losable \subseteq Losable
          OBVIOUS
        <5> HIDE DEF C, End
        <5> QED
          BY <1>3, <5>1, LessLeads
      <4>2. End(state) \subseteq After(state)
        <5>1. {} \subseteq Pointers /\ C \subseteq C
          OBVIOUS
        <5> HIDE DEF C
        <5>2. Between(Pointers, C) \subseteq Between({}, C)
          BY <5>1, StillBetween
        <5> QED
          BY <2>1, <2>2, <3>2, <5>2 DEF End
      <4>3. Nothing \subseteq Nothing
        OBVIOUS
      <4> HIDE DEF End
      <4> QED
        BY <2>1, <3>2, <4>1, <4>2, <4>3, LeadsFromTo
    <3> QED
      BY <3>1, <3>2
  <2>4. /\ load_failed' \in BOOLEAN /\ collected' \in BOOLEAN /\ refused' \in BOOLEAN
        /\ prog_state # "exited" /\ "init_ijvm" # "none" /\ state # "EMPTY"
    BY <1>1, <1>3 DEF SInv
  <2>5. Leads(Losable', Safe', Nothing, script, After(state)')
    BY <2>1, <2>3
  <2> HIDE DEF End
  <2> QED
    BY <1>1, <1>2, <1>3, <2>4, <2>5, BeginKeeps
<1>4. /\ C \subseteq {"marked_arrays"} \cup Locals
      /\ End("STARTED") = Between(Pointers, C) /\ End("given_up") = Between(Pointers, C)
      /\ End("exited") = Gone
  BY DEF Unused
<1> HIDE DEF C, End
<1>5. CASE main_loads
  <2>1. ASSUME NEW files \in {<<>>, <<"in_file">>, <<"in_file", "out_file">>},
               Begin("init_ijvm", init_ijvm \o Alloc(files), "STARTED")
        PROVE  SInv'
    <3>1. Leads(Losable, Pointers, Nothing, init_ijvm \o Alloc(files), End("STARTED"))
      BY <1>4, MainLeads
    <3> QED
      BY <1>3, <2>1, <3>1
  <2>2. ASSUME NEW script \in init_ijvm_failures \cup init_ijvm_exits,
               Begin("init_ijvm", script, "exited")
        PROVE  SInv'
    <3>1. Leads(Losable, Pointers, Nothing, script, End("exited"))
      BY <1>4, MainLeads
    <3> QED
      BY <1>3, <2>2, <3>1
  <2> QED
    BY <1>5, <2>1, <2>2 DEF main_loads
<1>6. CASE main_gives_up
  <2>1. Begin("init_ijvm", init_ijvm, "given_up")
    BY <1>6 DEF main_gives_up
  <2>2. Leads(Losable, Pointers, Nothing, init_ijvm, End("given_up"))
    BY <1>4, MainLeads
  <2> QED
    BY <1>3, <2>1, <2>2
<1> QED
  BY <1>5, <1>6

LEMMA InterruptKeeps ==
    ASSUME SInv, interrupt_handler
    PROVE  SInv'
<1>1. /\ process = "ijvm" /\ struck = "none" /\ twice = "none" /\ prog_state # "exited"
      /\ struck' = operation /\ operation' = "interrupt_handler"
      /\ todo' = destroy_ijvm /\ next_state' = "exited" /\ lost' = {}
      /\ UNCHANGED <<process, owner, prog_state, twice, load_failed, collected, refused>>
  BY DEF interrupt_handler, In
<1>2. Safe' = (IF operation \in Frees THEN {} ELSE Pointers) /\ Losable' = Losable
  BY <1>1 DEF Safe, Losable
<1>3. owner \in Between(Safe', {})
  BY <1>1, <1>2, NamesDiffer DEF SInv, NoneStale, Between, Box
<1>4. Leads(Losable', Safe', {owner'}, todo', After(next_state)')
  <2>1. Leads(Losable', Safe', Between(Safe', {}), destroy_ijvm, Gone)
    BY EndLeads
  <2>2. {owner} \subseteq Between(Safe', {}) /\ Gone \subseteq Gone
    BY <1>3
  <2>3. Leads(Losable', Safe', {owner}, destroy_ijvm, Gone)
    BY <2>1, <2>2, LeadsFromTo
  <2>4. After(next_state)' = Gone
    BY <1>1 DEF After
  <2> QED
    BY <1>1, <2>3, <2>4
<1>5. struck' # "none"
  BY <1>1 DEF SInv
<1>6. /\ owner' \in Owners /\ lost' \subseteq Files \cup Losable' /\ twice' = "none"
      /\ load_failed' \in BOOLEAN /\ collected' \in BOOLEAN /\ refused' \in BOOLEAN
      /\ operation' # "none" /\ prog_state' # "exited" /\ next_state' # "EMPTY"
  BY <1>1 DEF SInv
<1> QED
  BY <1>4, <1>5, <1>6 DEF SInv

(* The debugger.                                                           *)

LEMMA LoadingKeeps ==
    ASSUME SInv, Idle, prog_state \in {"EMPTY", "LOADED", "STARTED"}, process = "ijdb",
           NEW name, name # "none", NEW before, NEW after, NEW state \in {"LOADED", "STARTED"},
           NEW C, C = Unused \cup Locals,
           Leads(Losable, Safe, Between(Safe, C), before, Clean(C)),
           Leads(Losable, DebuggerPointers, Between(DebuggerPointers, C), before, Clean(C)),
           Leads(Losable, Safe, Between(Safe, C), after, Between(Safe, C)),
           Loading(name, before, after, Renewal, state)
    PROVE  SInv'
<1> DEFINE Failing == init_ijvm_failures \cup {init_ijvm \o f : f \in load_debug_data_failures}
<1>1. /\ owner \in Between(Safe, C)
      /\ Debugs(Safe, C) /\ Debugs(DebuggerPointers, C)
      /\ prog_state # "exited"
  BY PlainRest, SafeFacts
<1>2. owner \in Between(DebuggerPointers, C)
  <2>1. DebuggerPointers \subseteq Safe /\ C \subseteq C
    BY <1>1 DEF Debugs
  <2> QED
    BY <1>1, <2>1, StillBetween
<1>3. ASSUME NEW symbols \in load_debug_data,
             Begin(name, before \o init_ijvm \o symbols \o after, state), Works
      PROVE  SInv'
  <2>1. Leads(Losable, Safe, Between(Safe, C), before \o init_ijvm \o symbols \o after, After(state))
    BY <1>1, LoadingLeads, NowLocals
  <2> QED
    BY <1>1, <1>3, <2>1, WorkKeeps
<1>4. ASSUME Fails, UNCHANGED process
      PROVE  /\ Safe' = DebuggerPointers /\ Losable' = Losable
             /\ After("EMPTY")' = Between(DebuggerPointers, C) /\ After("exited")' = Gone
             /\ load_failed' \in BOOLEAN /\ collected' \in BOOLEAN /\ refused' \in BOOLEAN
  BY <1>4 DEF Fails, Safe, Losable, Unused, After, Now, Kept, SInv
<1>5. ASSUME NEW failure \in Failing, Begin(name, before \o failure \o Renewal, "EMPTY"), Fails
      PROVE  SInv'
  <2>1. Leads(Losable, DebuggerPointers, Between(DebuggerPointers, C), before \o failure \o Renewal,
              Between(DebuggerPointers, C))
    BY <1>1, <1>5, FailingLeads
  <2>2. UNCHANGED process
    BY <1>5 DEF Begin
  <2> QED
    BY <1>1, <1>2, <1>4, <1>5, <2>1, <2>2, BeginKeeps
<1>6. ASSUME NEW script \in init_ijvm_exits, Begin(name, before \o script, "exited"), Fails
      PROVE  SInv'
  <2>1. Leads(Losable, DebuggerPointers, Between(DebuggerPointers, C), before \o script, Gone)
    BY <1>1, <1>6, ExitingLeads
  <2>2. UNCHANGED process
    BY <1>6 DEF Begin
  <2> QED
    BY <1>1, <1>2, <1>4, <1>6, <2>1, <2>2, BeginKeeps
<1> QED
  BY <1>3, <1>5, <1>6 DEF Loading

LEMMA PromptFacts ==
    ASSUME SInv, Prompts
    PROVE  /\ process = "ijdb" /\ Idle /\ prog_state \in {"EMPTY", "LOADED", "STARTED"}
           /\ prog_state # "exited"
           /\ owner \in Between(Safe, Unused \cup Locals)
           /\ After(prog_state) = Between(Safe, Unused \cup Locals)
<1>1. /\ process = "ijdb" /\ Idle /\ prog_state \in {"EMPTY", "LOADED", "STARTED"}
      /\ prog_state # "exited"
  BY DEF Prompts, In
<1> QED
  BY <1>1, PlainRest, NowLocals

LEMMA PathStays ==
    ASSUME NEW r \in {"last_prog", "brkpts", "call_history"}
    PROVE  /\ r \in Pointers /\ r \in Resources /\ r # "sock" /\ r # "new_sock"
           /\ r \notin Unused \cup Locals
           /\ Unused \cup Locals \subseteq {"marked_arrays"} \cup Locals
           /\ "path_copy" \in Locals /\ "name" \in Locals
BY NamesOfOne, NamesDiffer DEF Own, Unused, Locals

LEMMA FileKeeps ==
    ASSUME SInv, exec_file
    PROVE  SInv'
<1> DEFINE C == Unused \cup Locals
<1>1. Prompts
  BY DEF exec_file
<1>2. /\ process = "ijdb" /\ Idle /\ prog_state \in {"EMPTY", "LOADED", "STARTED"}
      /\ prog_state # "exited" /\ owner \in Between(Safe, C)
  BY <1>1, PromptFacts
<1>3. CASE Loading("exec_file", Renewal, save_last_prog, Renewal, "LOADED")
  <2>1. /\ Leads(Losable, Safe, Between(Safe, C), Renewal, Clean(C))
        /\ Leads(Losable, DebuggerPointers, Between(DebuggerPointers, C), Renewal, Clean(C))
    <3>1. Debugs(Safe, C) /\ Debugs(DebuggerPointers, C)
      BY <1>2, SafeFacts
    <3> HIDE DEF C
    <3> QED
      BY <3>1, RenewalLeads
  <2>2. Leads(Losable, Safe, Between(Safe, C), save_last_prog, Between(Safe, C))
    BY PathStays, SaveLeads
  <2> HIDE DEF C
  <2>3. C = Unused \cup Locals
    BY DEF C
  <2> QED
    BY <1>2, <1>3, <2>1, <2>2, <2>3, LoadingKeeps
<1>4. ASSUME NEW symbols \in load_debug_data,
             Begin("exec_file", Renewal \o init_ijvm \o symbols \o save_last_prog_refused,
                   "LOADED"),
             collected' = TRUE, refused' = TRUE, UNCHANGED load_failed
      PROVE  SInv'
  <2> DEFINE script == Renewal \o init_ijvm \o symbols \o save_last_prog_refused
             M == DebuggerPointers
  <2>1. /\ Safe' = M /\ Losable' = Refusable /\ After("LOADED")' = Between(M, Locals)
        /\ load_failed' \in BOOLEAN /\ collected' \in BOOLEAN /\ refused' \in BOOLEAN
    <3>1. Locals = {} \cup Locals
      OBVIOUS
    <3> QED
      BY <1>2, <1>4, <3>1 DEF Safe, Losable, Unused, After, Now, Kept, Begin, SInv
  <2>2. Debugs(M, Locals)
    BY <1>2, SafeFacts DEF Debugs, DebuggerPointers
  <2>3. owner \in Between(M, Locals)
    <3>1. M \subseteq Safe /\ Locals \subseteq C
      BY <1>2, SafeFacts DEF Debugs
    <3> HIDE DEF M, C
    <3> QED
      BY <1>2, <3>1, StillBetween
  <2> HIDE DEF M
  <2>4. Leads(Refusable, M, Between(M, Locals), Renewal, Clean(Locals))
    BY <2>2, RenewalLeads
  <2>5. Leads(Refusable, M, Between(M, Locals), save_last_prog_refused, Between(M, Locals))
    <3>1. "path_copy" \in Locals /\ Refusable \subseteq Refusable /\ Locals \subseteq Locals
      BY DEF Locals
    <3> QED
      BY <3>1, NoSaveLeads
  <2>6. Leads(Refusable, M, Between(M, Locals), script, Between(M, Locals))
    BY <1>4, <2>2, <2>4, <2>5, LoadingLeads
  <2> HIDE DEF script
  <2>7. Leads(Losable', Safe', Between(M, Locals), script, After("LOADED")')
    BY <2>1, <2>6
  <2> QED
    BY <1>2, <1>4, <2>1, <2>3, <2>7, BeginKeeps DEF script
<1> QED
  BY <1>3, <1>4 DEF exec_file

LEMMA StartKeeps ==
    ASSUME SInv, exec_start
    PROVE  SInv'
<1> DEFINE C == Unused \cup Locals
<1>1. Leads(Losable, Safe, Between(Safe, C), Alloc(<<"out_file">>), Between(Safe, C))
  BY PathStays, OneFileLeads
<1>2. process = "ijdb"
  BY DEF exec_start, In
<1>3. CASE At("LOADED") /\ Begin("exec_start", Alloc(<<"out_file">>), "STARTED") /\ Works
  <2>1. Leads(Losable, Safe, Between(Safe, C), Alloc(<<"out_file">>), After("STARTED"))
    BY <1>1, NowLocals
  <2>2. Idle /\ prog_state = "LOADED" /\ owner \in Between(Safe, C)
    BY <1>3, PlainRest DEF At
  <2> QED
    BY <1>2, <1>3, <2>1, <2>2, WorkKeeps
<1>4. CASE At("STARTED") /\ Loading("exec_start", destroy_ijvm \o renew_debug_data,
                                    Alloc(<<"out_file">>), Renewal, "STARTED")
  <2>1. Debugs(Safe, C) /\ Debugs(DebuggerPointers, C) /\ C = Unused \cup Locals
    BY <1>2, SafeFacts
  <2> HIDE DEF C
  <2>2. /\ Leads(Losable, Safe, Between(Safe, C), destroy_ijvm \o renew_debug_data, Clean(C))
        /\ Leads(Losable, DebuggerPointers, Between(DebuggerPointers, C),
                 destroy_ijvm \o renew_debug_data, Clean(C))
    BY <2>1, RestartLeads
  <2> QED
    BY <1>1, <1>2, <1>4, <2>1, <2>2, LoadingKeeps DEF At
<1> QED
  BY <1>3, <1>4 DEF exec_start

LEMMA InputKeeps ==
    ASSUME SInv, exec_input
    PROVE  SInv'
<1>1. Prompts /\ Works /\ Begin("exec_input", Alloc(<<"in_file">>), prog_state)
  BY DEF exec_input
<1>2. Leads(Losable, Safe, Between(Safe, Unused \cup Locals), Alloc(<<"in_file">>), After(prog_state))
  BY <1>1, PromptFacts, PathStays, OneFileLeads
<1> QED
  BY <1>1, <1>2, PromptFacts, WorkKeeps

LEMMA ReallocateKeeps ==
    ASSUME SInv, reallocate
    PROVE  SInv'
<1> DEFINE C == Unused \cup Locals
<1>1. /\ Prompts /\ process = "ijdb" /\ Idle /\ prog_state # "exited"
      /\ owner \in Between(Safe, C) /\ After(prog_state) = Between(Safe, C)
      /\ After("given_up") = Between(Safe, C)
      /\ "brkpts" \notin C /\ "call_history" \notin C
  BY PromptFacts, PathStays, NowLocals DEF reallocate
<1> HIDE DEF C
<1>2. /\ Leads(Losable, Safe, Between(Safe, C), Free(<<"brkpts">>) \o Alloc(<<"brkpts">>),
               After(prog_state))
      /\ Leads(Losable, Safe, Between(Safe, C),
               Free(<<"call_history">>) \o Alloc(<<"call_history">>), After(prog_state))
  BY <1>1, PathStays, ReplaceLeads
<1>3. Leads(Losable, Safe, Between(Safe, C), <<>>, After("given_up"))
  <2>1. Between(Safe, C) \in SUBSET Owners
    BY DEF Between, Box
  <2> QED
    BY <1>1, <2>1, LeadsNowhere
<1>4. ASSUME Begin("exec_break", Clear(<<"brkpts">>), "given_up"), Refuses
      PROVE  SInv'
  <2>1. /\ Safe' = Safe /\ After("given_up")' = After("given_up") /\ Losable' = Refusable
        /\ load_failed' \in BOOLEAN /\ collected' \in BOOLEAN /\ refused' \in BOOLEAN
    BY <1>4 DEF Refuses, Begin, Safe, After, Unused, Now, Kept, Losable, SInv
  <2>2. "brkpts" \in C \cup Files \cup Refusable
    BY DEF Refusable
  <2>3. Leads(Refusable, Safe, Between(Safe, C), Clear(<<"brkpts">>), Between(Safe, C \cup {"brkpts"}))
    BY <2>2, PathStays, DropLeads
  <2>4. /\ Between(Safe, C \cup {"brkpts"}) \subseteq Between(Safe, C)
        /\ Between(Safe, C) \subseteq Between(Safe, C)
    <3>1. C \subseteq C \cup {"brkpts"} /\ Safe \subseteq Safe
      OBVIOUS
    <3> QED
      BY <3>1, StillBetween
  <2>5. Leads(Refusable, Safe, Between(Safe, C), Clear(<<"brkpts">>), Between(Safe, C))
    BY <2>3, <2>4, LeadsFromTo
  <2>6. Leads(Losable', Safe', Between(Safe, C), Clear(<<"brkpts">>), After("given_up")')
    BY <1>1, <2>1, <2>5
  <2> QED
    BY <1>1, <1>4, <2>1, <2>6, BeginKeeps
<1>5. CASE /\ Begin("exec_break", Free(<<"brkpts">>) \o Alloc(<<"brkpts">>), prog_state)
           /\ Works
  BY <1>1, <1>2, <1>5, WorkKeeps
<1>6. CASE /\ Begin("store_func_call", Free(<<"call_history">>) \o Alloc(<<"call_history">>),
                    prog_state)
           /\ Works
  BY <1>1, <1>2, <1>6, WorkKeeps
<1>7. CASE Begin("store_func_call", <<>>, "given_up") /\ Works
  BY <1>1, <1>3, <1>7, WorkKeeps
<1> QED
  BY <1>4, <1>5, <1>6, <1>7 DEF reallocate

LEMMA NameKeeps ==
    ASSUME SInv, str_dup
    PROVE  SInv'
<1> DEFINE script == Alloc(<<"name">>) \o Clear(<<"name">>)
<1>1. Prompts
  BY DEF str_dup
<1>2. CASE Begin("get_func_name", script, prog_state) /\ Works
  <2>1. Leads(Losable, Safe, Between(Safe, Unused \cup Locals), script, After(prog_state))
    <3>1. "name" \in Unused \cup Locals
      BY DEF Locals
    <3> QED
      BY <1>1, <3>1, PromptFacts, NameLeads
  <2> HIDE DEF script
  <2> QED
    BY <1>1, <1>2, <2>1, PromptFacts, WorkKeeps
<1>3. ASSUME NEW sweeps \in BOOLEAN, Begin("arr_gc", arr_gc(sweeps), prog_state), Collects
      PROVE  SInv'
  BY <1>1, <1>3, PromptFacts, GcKeeps
<1> QED
  BY <1>2, <1>3 DEF str_dup

LEMMA QuitKeeps ==
    ASSUME SInv, exec_quit
    PROVE  SInv'
<1>1. /\ Prompts /\ Works
      /\ Begin("exec_quit", destroy_ijvm \o destroy_debug_data \o destroy_debugger, "exited")
  BY DEF exec_quit
<1>2. Leads(Losable, Safe, Between(Safe, Unused \cup Locals),
            destroy_ijvm \o destroy_debug_data \o destroy_debugger, After("exited"))
  BY QuitLeads DEF After
<1> QED
  BY <1>1, <1>2, PromptFacts, WorkKeeps

(* The calls.                                                              *)

LEMMA CallsKeep ==
    ASSUME SInv, DoAlloc \/ DoFree \/ DoClear \/ DoRelease \/ DoAssign
    PROVE  SInv'
<1> DEFINE call == Head(todo)
<1>1. /\ twice = "none" /\ todo # <<>>
      /\ todo' = Tail(todo) /\ Subject = call[2]
      /\ UNCHANGED <<process, operation, next_state, prog_state, struck, load_failed,
                     collected, refused>>
  BY DEF DoAlloc, DoFree, DoClear, DoRelease, DoAssign, Do, Become, Goes, Subject
<1>2. call \in Calls /\ Sound(Losable, Safe, call, owner)
  <2>1. Leads(Losable, Safe, {owner}, todo, After(next_state))
    BY DEF SInv
  <2> QED
    BY <1>1, <2>1, LeadsStep
<1>3. CASE DoAssign
  <2>1. call[1] = "assign" /\ twice' = "none"
    BY <1>1, <1>3 DEF DoAssign, Do
  <2>2. owner' = Done(call, owner)
    BY <1>1, <1>3, <2>1 DEF DoAssign, Done, Assigned
  <2>3. lost' \subseteq Files \cup Losable
    BY <1>1, <1>2, <1>3, <2>1 DEF DoAssign, Sound
  <2> HIDE DEF call
  <2> QED
    BY <1>1, <2>1, <2>2, <2>3, CallKeeps DEF call
<1>4. CASE DoAlloc \/ DoFree \/ DoClear \/ DoRelease
  <2>1. owner' = Done(call, owner)
    BY <1>1, <1>4 DEF DoAlloc, DoFree, DoClear, DoRelease, Do, Become, Done, Ends
  <2>2. lost' \subseteq Files \cup Losable
    BY <1>1, <1>2, <1>4 DEF DoAlloc, DoFree, DoClear, DoRelease, Do, LostIfLive, Sound
  <2>3. twice' # "none" => twice' \in Pointers \ Safe
    BY <1>1, <1>2, <1>4 DEF DoAlloc, DoFree, DoClear, DoRelease, Do, Sound
  <2> HIDE DEF call
  <2> QED
    BY <1>1, <2>1, <2>2, <2>3, CallKeeps DEF call
<1> QED
  BY <1>3, <1>4

LEMMA ArriveKeeps ==
    ASSUME SInv, Arrive \/ UNCHANGED svars
    PROVE  SInv'
<1>1. /\ UNCHANGED <<process, owner, operation, todo, next_state, twice, struck,
                     load_failed, collected, refused>>
      /\ lost' = lost \/ lost' = {}
      /\ prog_state' = prog_state \/ (todo = <<>> /\ prog_state' = next_state)
  BY DEF Arrive, svars
<1>2. /\ Safe' = Safe /\ After(next_state)' = After(next_state) /\ (NoneStale' <=> NoneStale)
      /\ Losable' = Losable
  BY <1>1 DEF Safe, After, Unused, NoneStale, Losable, Now, Kept
<1> QED
  BY <1>1, <1>2 DEF SInv

(* The start: of the debugger, which clears its pointers, and of ijvm.     *)
LEMMA SInvInitially == SInit => SInv
<1> SUFFICES ASSUME SInit
             PROVE  SInv
  OBVIOUS
<1> DEFINE C == Unused \cup Locals
<1>1. owner \in Owners /\ owner \in Nothing /\ NoneStale
  <2>1. owner = [r \in Resources |-> "null"]
    BY DEF SInit
  <2>2. owner \in [Resources -> States] /\ (\A r \in Resources : owner[r] = "null")
    BY <2>1 DEF States
  <2>3. Held(owner)
    BY <2>2, NamesDiffer DEF Held, Sockets
  <2> QED
    BY <2>2, <2>3, NamesDiffer DEF Owners, Nothing, Box, NoneStale
<1>2. /\ Safe = Pointers /\ Losable = {} /\ next_state = "EMPTY"
      /\ C \subseteq Resources /\ C \cap Own = {}
      /\ After(next_state) = Between(Safe, C)
  <2>1. "none" \notin Frees
    BY DEF Frees
  <2>2. C \subseteq Resources
    BY DEF Unused, Resources, MachinePointers
  <2>3. C \cap Own = {}
    BY DEF Own, Unused, Locals
  <2> QED
    BY <2>1, <2>2, <2>3, NowLocals DEF SInit, Safe, Losable
<1> HIDE DEF C
<1>3. Nothing \subseteq Between(Safe, C)
  <2>1. /\ C \subseteq Resources /\ {} \subseteq {} \cup Resources
        /\ Safe \subseteq {} \cup Resources
    BY <1>2, NamesDiffer
  <2> QED
    BY <2>1, BoxIn DEF Nothing, Between
<1>4. Leads(Losable, Safe, {owner}, todo, After(next_state))
  <2>1. CASE process = "ijdb"
    <3> DEFINE N0 == Resources \ {"call_history"}
    <3>1. todo = init_debug_data \o init_debugger
      BY <2>1 DEF SInit
    <3>2. Leads(Losable, Safe, Nothing, init_debug_data, Nothing)
      BY NamesDiffer, NamesOfOne, InitDataLeads DEF Nothing
    <3>3. Leads(Losable, Safe, Nothing, Alloc(<<"call_history">>), Box(N0, {}, Pointers))
      <4> DEFINE S == {"call_history"}
      <4>1. /\ Lists(<<"call_history">>, S) /\ S \subseteq Resources /\ S \cap Sockets = {}
            /\ "new_fd" \notin S
        BY OneName, NamesOfOne, NamesDiffer DEF Own
      <4>2. S \subseteq {} \cup Resources \cup Files \cup Losable /\ N0 \subseteq Resources \ S
            /\ {} \subseteq ({} \cup Resources) \ S
            /\ Pointers \subseteq {} \cup Resources \cup S
        BY <4>1, NamesDiffer
      <4> HIDE DEF S, N0
      <4> QED
        BY <4>1, <4>2, AllocLeads DEF Nothing
    <3>4. Leads(Losable, Safe, Box(N0, {}, Pointers), Clear(<<"last_prog", "brkpts">>),
                Between(Safe, C))
      <4> DEFINE S == {"last_prog", "brkpts"}
      <4>1. /\ Lists(<<"last_prog", "brkpts">>, S) /\ S \subseteq Resources /\ "sock" \notin S
            /\ "new_sock" \notin S /\ S \subseteq N0 /\ C \subseteq N0
        <5>1. "call_history" \notin C
          BY <1>2 DEF Own
        <5> QED
          BY <1>2, <5>1, LabelLists, NamesOfOne, NamesDiffer DEF Own
      <4>2. S \subseteq {} \cup N0 \cup Files \cup Losable /\ C \subseteq N0 \cup S
            /\ {} \subseteq {} \cup N0 \cup S /\ Safe \subseteq Pointers \cup N0 \cup S
        BY <1>2, <4>1
      <4> HIDE DEF S, N0
      <4> QED
        BY <4>1, <4>2, ClearLeads DEF Clear, Between
    <3> HIDE DEF N0
    <3>5. Leads(Losable, Safe, Nothing, init_debugger, Between(Safe, C))
      BY <3>3, <3>4, LeadsOn DEF init_debugger
    <3>6. Leads(Losable, Safe, Nothing, todo, Between(Safe, C))
      BY <3>1, <3>2, <3>5, LeadsOn
    <3>7. {owner} \subseteq Nothing /\ Between(Safe, C) \subseteq After(next_state)
      BY <1>1, <1>2
    <3> QED
      BY <3>6, <3>7, LeadsFromTo
  <2>2. CASE process # "ijdb"
    <3>1. todo = <<>> /\ {owner} \subseteq After(next_state) /\ {owner} \in SUBSET Owners
      BY <1>1, <1>2, <1>3, <2>2 DEF SInit
    <3>2. Leads(Losable, Safe, {owner}, <<>>, {owner}) /\ {owner} \subseteq {owner}
      BY <3>1, LeadsNowhere
    <3> QED
      BY <3>1, <3>2, LeadsFromTo
  <2> QED
    BY <2>1, <2>2
<1>5. process # "ijdb" => todo \in Seq(Harmless) /\ todo = <<>>
  <2>1. <<>> \in Seq(Harmless)
    OBVIOUS
  <2> QED
    BY <2>1 DEF SInit
<1>6. /\ lost \subseteq Files \cup Losable /\ twice = "none"
      /\ load_failed \in BOOLEAN /\ collected \in BOOLEAN /\ refused \in BOOLEAN
      /\ operation # "none" /\ prog_state # "exited"
  BY DEF SInit
<1> QED
  BY <1>1, <1>4, <1>5, <1>6 DEF SInv

LEMMA SInvStep == SInv /\ [SNext]_svars => SInv'
<1> SUFFICES ASSUME SInv, [SNext]_svars
             PROVE  SInv'
  OBVIOUS
<1>1. CASE DoAlloc \/ DoFree \/ DoClear \/ DoRelease \/ DoAssign
  BY <1>1, CallsKeep
<1>2. CASE Arrive \/ UNCHANGED svars \/ Ended
  BY <1>2, ArriveKeeps DEF Ended
<1>3. CASE create_array \/ open_connection \/ make_room
  BY <1>3, CreateKeeps, OpenKeeps, RoomKeeps
<1>4. CASE store_array \/ store_connection
  BY <1>4, StoreArrayKeeps, StoreConnectionKeeps
<1>5. CASE collect \/ grow_stack
  BY <1>5, CollectKeeps, GrowKeeps
<1>6. CASE close_connection \/ destroy_ijvm_now
  BY <1>6, CloseKeeps, DestroyNowKeeps
<1>7. CASE main_loads \/ main_gives_up \/ interrupt_handler
  BY <1>7, MainLoadsKeeps, InterruptKeeps
<1>8. CASE exec_file \/ exec_start \/ exec_input
  BY <1>8, FileKeeps, StartKeeps, InputKeeps
<1>9. CASE reallocate \/ str_dup \/ exec_quit
  BY <1>9, ReallocateKeeps, NameKeeps, QuitKeeps
<1> QED
  BY <1>1, <1>2, <1>3, <1>4, <1>5, <1>6, <1>7, <1>8, <1>9 DEF SNext

LEMMA SInvAlways == SSpec => []SInv
BY SInvInitially, SInvStep, PTL DEF SSpec

-----------------------------------------------------------------------------
(* Theorems                                                                *)

(* ijvm frees nothing twice, wherever a load fails, whatever memory is     *)
(* refused and however long the program runs, unless SIGINT strikes inside *)
(* an operation that frees before it resets (main.c:23-27).                *)
THEOREM IjvmIsSafe == SSpec => []IjvmFreesOnce
<1>1. SInv => IjvmFreesOnce
  BY DEF SInv, IjvmFreesOnce, In, Safe, Frees
<1> QED
  BY <1>1, SInvAlways, PTL

(* However often the debugger loads and restarts, it frees its own memory  *)
(* once, and that of a machine as well until a load has failed or the      *)
(* collector has run (ijdb.c:593-622, 768-795).                            *)
THEOREM DebuggerIsSafe == SSpec => []DebuggerFreesOnce
<1>1. SInv => DebuggerFreesOnce
  BY DEF SInv, DebuggerFreesOnce, In, Safe, Pointers
<1> QED
  BY <1>1, SInvAlways, PTL

(* While no memory is refused, what gets lost is the files and sockets the *)
(* code does not close, and the names of symbols (net.c:216-240,           *)
(* debug_data_loader.c:154-159, ijdb.c:149-224); once some was refused, a  *)
(* new table, the breakpoints and the copy of a path as well               *)
(* (marr.c:70-75, ijdb.c:531-537, 334-342), and nothing else ever.         *)
THEOREM LittleIsLost == SSpec => []OnlyFilesAreLost
<1>1. SInv => OnlyFilesAreLost
  BY DEF SInv, OnlyFilesAreLost, Files, Losable, Refusable
<1> QED
  BY <1>1, SInvAlways, PTL

(* A process that destroys its machine, when it was told to in the middle  *)
(* of an operation too, frees all that the machine's own pointers lead to  *)
(* (terminate.c:4-18); and at a prompt of the debugger, and between two    *)
(* instructions, nothing is left that only a local led to.                 *)
THEOREM ExitFreesWhatIsStored == SSpec => []ExitFreesAll
<1>1. ASSUME SInv, prog_state = "exited"
      PROVE  \A p \in MachinePointers : owner[p] # "live"
  <2>1. Leads(Losable, Safe, {owner}, <<>>, Gone)
    BY <1>1 DEF SInv, After
  <2>2. owner \in Gone
    BY <2>1, LeadsThere
  <2> QED
    BY <2>2, NamesDiffer, NamesOfOne DEF Gone, Box
<1>2. ASSUME SInv, Idle, prog_state \in {"EMPTY", "LOADED", "STARTED"}
      PROVE  \A l \in Locals : owner[l] # "live"
  <2>1. owner \in Between(Safe, Unused \cup Locals)
    BY <1>2, PlainRest
  <2>2. Locals \subseteq Resources
    BY NamesOfOne
  <2> QED
    BY <2>1, <2>2 DEF Between, Box
<1>3. SInv => ExitFreesAll
  BY <1>1, <1>2 DEF ExitFreesAll
<1> QED
  BY <1>3, SInvAlways, PTL
=============================================================================
