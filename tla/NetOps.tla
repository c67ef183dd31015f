------------------------------- MODULE NetOps --------------------------------
(***************************************************************************)
(* The table of connections (src/net.c): a second mapped array, that       *)
(* shares the counter of get_free_index, and so the collector, with the    *)
(* arrays.                                                                 *)
(*                                                                         *)
(* A table is a record [size, socks].  socks[i] is "free" where the map    *)
(* says the slot is unclaimed, and otherwise tells which flag of the       *)
(* socket is set: "idle" for none, "client" or "server".  A result (see    *)
(* ArrayOps) carries the table in its field net.                           *)
(***************************************************************************)
EXTENDS ArrayOps

CONSTANTS
    NET_CONN_MIN_NUM,   \* slots of the first table
    NET_CONN_STEP,      \* 16: slots added to a full table (net.c:86)
    NET_REF_BASE,       \* k_index_to_ref as a word
    NET_REFS            \* indexes a reference can encode (2^20 in the program)

ASSUME NetAssumption ==
    /\ NET_CONN_MIN_NUM \in Nat \ {0}
    /\ NET_CONN_STEP \in Nat \ {0}
    /\ NET_REFS \in Nat \ {0}
    /\ NET_REF_BASE \in Word
    /\ NET_REF_BASE + 16 * (NET_REFS - 1) \in Word

(* The bits of an index that the or with the pattern 0xCC hides. *)
NetHiddenBits == {4 * a + 8 * b + 64 * c + 128 * d : a, b, c, d \in {0, 1}}

(* Wrong: the mask leaves out the lowest bit of the pattern. *)
NetEncodesUnderShortMask(i) ==
    LET bits == (i \div NET_REFS) % 256 IN bits - (bits % 2) \in NetHiddenBits

(* net_check_ref on the reference of an index. *)
NetEncodes(i) == (i \div NET_REFS) % 256 \in NetHiddenBits

(* The reference of an index that passes this test.                        *)
net_index_to_ref(i) == NET_REF_BASE + 16 * (i % NET_REFS)

net_ref_to_index(w) == (w - NET_REF_BASE) \div 16

SockStates == {"free", "idle", "client", "server"}

NoConns == [size |-> 0, socks |-> [i \in {} |-> "free"]]

NetSlots(net) == 0 .. net.size - 1

IsNetConn(net) ==
    /\ net \in [size : Nat, socks : {net.socks}]
    /\ net.socks \in [NetSlots(net) -> SockStates]

Open(net) == {i \in NetSlots(net) : net.socks[i] # "free"}

FreeSock(net) ==
    CHOOSE i \in NetSlots(net) \ Open(net) :
        \A j \in NetSlots(net) \ Open(net) : i <= j

(* marr_resize on the table of connections. *)
NetResized(r, n, refusals, words) ==
    LET a == Allocate(r, refusals, words)
    IN  [a EXCEPT !.net =
            [size  |-> n,
             socks |-> [i \in 0 .. n - 1 |->
                          IF i \in NetSlots(r.net) THEN r.net.socks[i] ELSE "free"]]]

(* socket_store up to the choice of the slot. *)
MakeNetRoom(r, refusals, words) ==
    LET init  == IF r.net.size = 0
                 THEN NetResized(r, NET_CONN_MIN_NUM, refusals, words)
                 ELSE r
        first == CountCreation(init, words)
    IN  IF Open(first.net) = NetSlots(first.net)
        THEN CountCreation(
                NetResized(first, first.net.size + NET_CONN_STEP, refusals, words),
                words)
        ELSE first

(* socket_create: a claimed socket without a connection, and its index.    *)
(* The slot is claimed before net_check_ref tests whether a reference can  *)
(* encode the index.                                                       *)
socket_create(r, refusals, words) ==
    LET room == MakeNetRoom(r, refusals, words)
        i    == FreeSock(room.net)
    IN  [sock |-> i,
         r    |-> IF room.ok
                  THEN [room EXCEPT !.ok = NetEncodes(i), !.net.socks[i] = "idle"]
                  ELSE room]

(* net_destroy closes the connections by their references. *)
CanDestroy(net) == \A i \in Open(net) : NetEncodes(i)

(* What it has closed when it comes to one without a reference. *)
ClosedBelow(net) ==
    [net EXCEPT !.socks =
        [i \in NetSlots(net) |->
            IF \A j \in Open(net) : j <= i => NetEncodes(j) THEN "free" ELSE net.socks[i]]]

(* A reference to a claimed socket: net_check_ref and marr_get_element.    *)
IsConn(net, ref) ==
    /\ ref \in {net_index_to_ref(i) : i \in 0 .. NET_REFS - 1}
    /\ net_ref_to_index(ref) \in Open(net)

(* net_recv and net_send find out which of the sockets to use. *)
IsConnected(net, ref) ==
    /\ IsConn(net, ref)
    /\ net.socks[net_ref_to_index(ref)] \in {"client", "server"}
=============================================================================
