------------------------------- MODULE Routing -------------------------------
(***************************************************************************)
(* How a message finds its node (core/message_center/common.go,            *)
(* message_id.go) over tables that change under it (core/auth.go,          *)
(* core/manager.go, core/nodeStore/nodeManager.go).                        *)
(*                                                                         *)
(* A message is addressed to an id: of a node, or a key that no node has.  *)
(* A super node sends it to the nearest node it knows, a node that is not  *)
(* super to its SuperPeerId.  One message and the reply to it are under    *)
(* way; messages do not touch the tables, so one stands for all of them.   *)
(*                                                                         *)
(* A handshake is one step here, although it runs on two machines.         *)
(* Which slots of the table a new id takes (Ids.AddId) is left open.       *)
(***************************************************************************)
EXTENDS Naturals

CONSTANTS Ids, Keys,
          Dist(_, _),  \* the xor metric of kademlia.go
          Short,       \* ids whose digest begins with a zero byte
          None, Mangled,
          MaxChanges   \* bound: handshakes and closed connections

Addresses == Ids \cup Keys

ASSUME RoutingAssumption ==
    /\ \A x, y \in Addresses : Dist(x, y) \in Nat
    /\ \A x \in Addresses : Dist(x, x) = 0
    /\ \A x, y, k \in Addresses : Dist(x, k) = Dist(y, k) => x = y
    /\ None \notin Addresses /\ Mangled \notin Addresses /\ None # Mangled
    /\ Short \subseteq Ids

VARIABLES
    isSuper,    \* node -> NodeSelf.IsSuper
    nodes,      \* node -> Nodes, the super nodes it knows
    proxys,     \* node -> Proxys
    superPeer,  \* node -> SuperPeerId
    sessions,   \* node -> names of its sessions
    changes,    \* handshakes and closed connections so far
    phase,      \* "idle", "moving", "handled" or "dropped"
    head,       \* MessageHead, and whether the message is a reply
    at, form,   \* the node that has the message, and the one it came from
    visited,    \* super nodes that passed the message on (history)
    strayed     \* it left the super nodes: a proxy got it or passed it on (history)

topology == <<isSuper, nodes, proxys, superPeer, sessions, changes>>
message == <<phase, head, at, form, visited, strayed>>
vars == <<topology, message>>

NoHead == [recv |-> None, recvSuper |-> None, sender |-> None, senderSuper |-> None,
           accurate |-> FALSE, reply |-> FALSE]

Init ==
    /\ isSuper \in [Ids -> BOOLEAN]
    /\ nodes = [n \in Ids |-> {}]
    /\ proxys = [n \in Ids |-> {}]
    /\ superPeer = [n \in Ids |-> None]
    /\ sessions = [n \in Ids |-> {}]
    /\ changes = 0
    /\ phase = "idle" /\ head = NoHead /\ at = None /\ form = None
    /\ visited = {} /\ strayed = FALSE
-----------------------------------------------------------------------------
(* Where a node sends a message.                                           *)

\* big.Int.Bytes drops leading zero bytes: the id that is encoded again is another.
Encoded(t) == IF t \in Short THEN Mangled ELSE t

\* Mutant: the node itself is never a candidate.
Candidates_NoSelf(n, out, includeSelf) == nodes[n] \ {out}
Candidates(n, out, includeSelf) == (nodes[n] \ {out}) \cup (IF includeSelf THEN {n} ELSE {})

\* The first of the list that kademlia.go sorts.
Nearest(S, key) == {Encoded(t) : t \in {u \in S : \A v \in S : Dist(u, key) <= Dist(v, key)}}

\* Mutant: the list is not sorted.
FindNearInSuper_Any(n, key, out, includeSelf) == Candidates(n, out, includeSelf)
FindNearInSuper(n, key, out, includeSelf) == Nearest(Candidates(n, out, includeSelf), key)

\* Mutant: an accurate message is handled by the nearest node.
Own_Any(n, h) == n
\* The nearest node itself has the message: its own unless it was meant for one node.
Own(n, h) == IF h.accurate THEN None ELSE n

\* IsSendToOtherSuperToo: n for "handle it here", None for "drop it".
NextHops(n, h, out) ==
    IF ~isSuper[n] THEN
        {IF n = h.recv THEN n ELSE IF h.accurate THEN None ELSE superPeer[n]}
    ELSE IF h.recv = h.recvSuper THEN
        IF n = h.recv THEN {n}
        ELSE {IF t # n THEN t ELSE IF h.recv \in proxys[n] THEN h.recv ELSE Own(n, h) :
                 t \in FindNearInSuper(n, h.recvSuper, out, TRUE)}
    ELSE IF n = h.recvSuper THEN {IF h.recv \in proxys[n] THEN h.recv ELSE None}
    ELSE {IF t # n THEN t ELSE Own(n, h) : t \in FindNearInSuper(n, h.recvSuper, out, TRUE)}

\* Message.Send: as above for a message that starts here.
FirstHops(n, h) ==
    IF ~isSuper[n] THEN {superPeer[n]}
    ELSE IF n = h.recv THEN {n}
    ELSE IF h.recv \in proxys[n] THEN {h.recv}
    ELSE IF Candidates(n, None, ~h.accurate) = {} THEN {None}
    ELSE FindNearInSuper(n, h.recvSuper, None, ~h.accurate)

\* GetSession and session.Send: the message arrives if both ends are open.
Reaches(n, t) == t \in sessions[n] /\ n \in sessions[t]

Transmit(n, t) ==
    /\ t # n
    /\ \/ /\ t \in Ids /\ Reaches(n, t)
          /\ phase' = "moving" /\ at' = t /\ form' = n
       \/ /\ ~(t \in Ids /\ Reaches(n, t))
          /\ phase' = "dropped" /\ at' = n /\ form' = None
\* The message goes to a proxy, or from a node that is not super and did not make it.
Leaves(n, recv, onTheWay) ==
    phase' = "moving" /\ IF isSuper[n] THEN at' = recv /\ recv \in proxys[n] ELSE onTheWay
-----------------------------------------------------------------------------
(* The message.                                                            *)

\* NewMessageHead(a, a, accurate) and Send.
Send(n, a, accurate) ==
    /\ phase = "idle"
    /\ head' = [recv |-> a, recvSuper |-> a, sender |-> n,
                senderSuper |-> IF isSuper[n] THEN n ELSE superPeer[n],
                accurate |-> accurate, reply |-> FALSE]
    /\ \E t \in FirstHops(n, head') :
          \/ Transmit(n, t)
          \/ t = n /\ phase' = "handled" /\ at' = n /\ form' = None
    /\ visited' = IF isSuper[n] /\ ~accurate THEN {n} ELSE {}
    /\ strayed' = Leaves(n, a, FALSE)
    /\ UNCHANGED topology

\* A handler asks IsSendOther first, with the session the message came from.
IsSendOther ==
    /\ phase = "moving"
    /\ \E t \in NextHops(at, head, form) :
          \/ Transmit(at, t)
          \/ t = at /\ phase' = "handled" /\ UNCHANGED <<at, form>>
    /\ visited' = IF isSuper[at] THEN visited \cup {at} ELSE visited
    /\ strayed' = (strayed \/ Leaves(at, head.recv, TRUE))
    /\ UNCHANGED <<topology, head>>

ReplyHead(n) ==
    [recv |-> head.sender, recvSuper |-> head.senderSuper, sender |-> n,
     senderSuper |-> IF isSuper[n] THEN n ELSE superPeer[n], accurate |-> TRUE, reply |-> TRUE]

\* The handler's Reply; its result is ignored, so a reply to oneself goes nowhere.
Reply ==
    /\ phase = "handled" /\ ~head.reply
    /\ head' = ReplyHead(at)
    /\ \E t \in IF isSuper[at] THEN NextHops(at, head', None) ELSE {superPeer[at]} :
          \/ Transmit(at, t)
          \/ t = at /\ phase' = "dropped" /\ at' = at /\ form' = None
    /\ visited' = IF isSuper[at] THEN {at} ELSE {}
    /\ strayed' = Leaves(at, head.sender, FALSE)
    /\ UNCHANGED topology
-----------------------------------------------------------------------------
(* The tables.                                                             *)

\* AddNode: m takes some slots and the ids left without a slot go, or it takes none.
Tables(n, m) == {(nodes[n] \ gone) \cup {m} : gone \in SUBSET nodes[n]} \cup
                (IF nodes[n] = {} THEN {} ELSE {nodes[n]})

\* SuperPeerId = GetIndex(0) when m was added.
Peers(n, m, table) == IF m \in table THEN table ELSE {superPeer[n]}

\* What the node that has dialled does next: connectNet sets SuperPeerId to m, the search
\* for neighbours sets it to the nearest node unless the node is super itself.
Dialled(n, m, table, judged) ==
    {m} \cup (IF judged THEN Peers(n, m, table) ELSE Nearest(table, n))

\* SendKey of a, RecvKey of b: b is super for a; TryConn tells b what a is, and
\* a takes b's word for its own role.
Handshake(a, b, judged) ==
    /\ changes < MaxChanges /\ a # b /\ b \notin sessions[a]
    /\ changes' = changes + 1
    /\ \E ta \in Tables(a, b), tb \in IF judged THEN Tables(b, a) ELSE {nodes[b]} :
          /\ nodes' = [nodes EXCEPT ![a] = ta, ![b] = tb]
          /\ \E pa \in Dialled(a, b, ta, judged), pb \in IF judged THEN Peers(b, a, tb) ELSE {superPeer[b]} :
                superPeer' = [superPeer EXCEPT ![a] = pa, ![b] = pb]
    /\ proxys' = IF judged THEN proxys ELSE [proxys EXCEPT ![b] = @ \cup {a}]
    /\ isSuper' = [isSuper EXCEPT ![a] = judged]
    /\ sessions' = [sessions EXCEPT ![a] = @ \cup {b}, ![b] = @ \cup {a}]
    /\ UNCHANGED message

\* closeConnCallback at one end, with DelNode.
CloseConn(n, m) ==
    /\ changes < MaxChanges /\ m \in sessions[n]
    /\ changes' = changes + 1
    /\ nodes' = [nodes EXCEPT ![n] = @ \ {m}]
    /\ proxys' = [proxys EXCEPT ![n] = @ \ {m}]
    /\ sessions' = [sessions EXCEPT ![n] = @ \ {m}]
    /\ \/ /\ superPeer[n] # m \/ nodes[n] \subseteq {m}
          /\ UNCHANGED superPeer
       \/ /\ superPeer[n] = m
          /\ \E t \in FindNearInSuper(n, n, m, FALSE) : superPeer' = [superPeer EXCEPT ![n] = t]
    /\ UNCHANGED <<isSuper, message>>
-----------------------------------------------------------------------------
Change == \E n, m \in Ids : CloseConn(n, m) \/ \E judged \in BOOLEAN : Handshake(n, m, judged)
Next == \/ \E n \in Ids, a \in Addresses, accurate \in BOOLEAN : Send(n, a, accurate)
        \/ IsSendOther \/ Reply \/ Change
Spec == Init /\ [][Next]_vars

\* The receive goroutine of a session hands every packet to its handler.
FairSpec == Spec /\ WF_vars(IsSendOther)
-----------------------------------------------------------------------------
TypeOK ==
    /\ isSuper \in [Ids -> BOOLEAN]
    /\ nodes \in [Ids -> SUBSET Ids]
    /\ proxys \in [Ids -> SUBSET Ids]
    /\ superPeer \in [Ids -> Ids \cup {None, Mangled}]
    /\ sessions \in [Ids -> SUBSET Ids]
    /\ changes \in Nat
    /\ phase \in {"idle", "moving", "handled", "dropped"}
    /\ head \in [recv : Addresses \cup {None}, recvSuper : Addresses \cup {None, Mangled},
                 sender : Ids \cup {None}, senderSuper : Ids \cup {None, Mangled},
                 accurate : BOOLEAN, reply : BOOLEAN]
    /\ at \in Ids \cup {None}
    /\ form \in Ids \cup {None}
    /\ visited \subseteq Ids
    /\ strayed \in BOOLEAN

\* A message meant for one node is handled by that node only.
AccurateOwn == phase = "handled" /\ head.accurate => at = head.recv

\* As long as only super nodes pass it on, a message gets nearer with every hop,
\* so that no node gets it twice, whatever happens to the tables meanwhile.
Nearer ==
    phase = "moving" /\ ~strayed =>
        \A v \in visited : Dist(at, head.recvSuper) < Dist(v, head.recvSuper)

\* The node that handles a message is nearer to its key than every node that it knows
\* then, the one included that the message came from and FindNearInSuper leaves out;
\* but for the sender, which may know itself not to be super.
NearestHandles ==
    [][IsSendOther /\ phase' = "handled" /\ ~head.accurate /\ ~strayed =>
        \A v \in nodes[at] \ {head.sender} : Dist(at, head.recvSuper) < Dist(v, head.recvSuper)]_vars

\* A message that got as far as a second node can be answered: its sender has a
\* super node, and what a reply is routed by is the address of a node.
Answerable ==
    phase \in {"moving", "handled"} =>
        /\ at \in Ids /\ head.recvSuper \in Addresses
        /\ ~head.reply => head.sender \in Ids /\ head.senderSuper \in Ids
        /\ ~head.accurate => head.recv = head.recvSuper

\* Among super nodes a message comes from its sender or from one that passed it on.
CameFrom == phase = "moving" /\ ~strayed => form \in visited \cup {head.sender}

\* A node is not in its own table and is not its own super node.
NotSelf == \A n \in Ids : n \notin nodes[n] /\ superPeer[n] # n

\* The inductive invariant.
RoutingInv == TypeOK /\ NotSelf /\ Answerable /\ AccurateOwn /\ Nearer /\ CameFrom

\* A message does not go round for ever among super nodes.
SettlesAmongSupers == phase = "moving" ~> (phase # "moving" \/ strayed)
=============================================================================
