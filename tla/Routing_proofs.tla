---------------------------- MODULE Routing_proofs ----------------------------
(***************************************************************************)
(* Proofs about routing, for any number of nodes, any metric that tells    *)
(* ids apart and any change of the tables while the message is under way.  *)
(* RoutingInv is inductive: the tables are free, so all that an action has *)
(* to keep is a fact about the message and where it has been.              *)
(***************************************************************************)
EXTENDS Routing, TLAPS

\* FindNearInSuper with the node itself among the candidates: another node that
\* it returns is strictly nearer than the node.
LEMMA NearIsNearer ==
    ASSUME TypeOK, NEW n \in Ids, NEW key \in Addresses, NEW out,
           NEW t \in FindNearInSuper(n, key, out, TRUE), t # n, t \in Ids
    PROVE  Dist(t, key) < Dist(n, key)
<1>1. t \in Candidates(n, out, TRUE) /\ n \in Candidates(n, out, TRUE)
  BY RoutingAssumption DEF FindNearInSuper, Nearest, Encoded, Candidates, Addresses
<1>2. Dist(t, key) <= Dist(n, key)
  BY <1>1, RoutingAssumption DEF FindNearInSuper, Nearest, Encoded, Addresses
<1>3. Dist(t, key) # Dist(n, key) /\ Dist(t, key) \in Nat /\ Dist(n, key) \in Nat
  BY RoutingAssumption DEF Addresses
<1>q. QED BY <1>2, <1>3

\* What IsSendToOtherSuperToo returns: an id, or a name that has no session.
LEMMA HopType ==
    ASSUME TypeOK, NEW n \in Ids, NEW h, NEW out,
           h.recv \in Addresses \cup {None}, NEW t \in NextHops(n, h, out)
    PROVE  t \in Ids \/ t \in Keys \cup {None, Mangled}
BY RoutingAssumption DEF NextHops, FindNearInSuper, Nearest, Candidates, Encoded, Own, TypeOK, Addresses

\* A hop of a super node that is neither to itself nor to a proxy is nearer.
LEMMA HopIsNearer ==
    ASSUME TypeOK, NEW n \in Ids, NEW h, NEW out, isSuper[n], h.recvSuper \in Addresses,
           NEW t \in NextHops(n, h, out), t # n, t \in Ids, ~(t = h.recv /\ h.recv \in proxys[n])
    PROVE  Dist(t, h.recvSuper) < Dist(n, h.recvSuper)
<1>0. None \notin Ids BY RoutingAssumption DEF Addresses
<1>1. t \in FindNearInSuper(n, h.recvSuper, out, TRUE) BY <1>0 DEF NextHops, Own
<1>q. QED BY <1>1, NearIsNearer

\* A message that a node keeps is its own, or was not meant for one node.
LEMMA KeptIsOwn ==
    ASSUME TypeOK, NEW n \in Ids, NEW h, NEW out, n \in NextHops(n, h, out), h.accurate
    PROVE  n = h.recv
BY RoutingAssumption DEF NextHops, Own, Addresses

\* Transmit leaves the message at a node, moving or dropped.
LEMMA TransmitType ==
    ASSUME NEW n \in Ids, NEW t, Transmit(n, t)
    PROVE  /\ phase' \in {"moving", "dropped"} /\ at' \in Ids /\ form' \in Ids \cup {None}
           /\ phase' = "moving" => t \in Ids /\ at' = t /\ t # n
BY DEF Transmit

\* The type of the message after each of its steps.
LEMMA MessageType ==
    ASSUME TypeOK, Answerable,
           \/ \E n \in Ids, a \in Addresses, accurate \in BOOLEAN : Send(n, a, accurate)
           \/ IsSendOther
           \/ Reply
    PROVE  TypeOK'
<1>1. ASSUME NEW n \in Ids, NEW a \in Addresses, NEW accurate \in BOOLEAN, Send(n, a, accurate)
      PROVE  TypeOK'
  <2>1. head' \in [recv : Addresses \cup {None}, recvSuper : Addresses \cup {None, Mangled},
                   sender : Ids \cup {None}, senderSuper : Ids \cup {None, Mangled},
                   accurate : BOOLEAN, reply : BOOLEAN]
    <3>1. superPeer[n] \in Ids \cup {None, Mangled} BY DEF TypeOK
    <3>q. QED BY <1>1, <3>1 DEF Send
  <2>2. phase' \in {"moving", "dropped", "handled"} /\ at' \in Ids /\ form' \in Ids \cup {None}
    BY <1>1, TransmitType DEF Send
  <2>3. visited' \subseteq Ids /\ strayed' \in BOOLEAN BY <1>1 DEF Send, Leaves
  <2>4. UNCHANGED topology BY <1>1 DEF Send
  <2>q. QED BY <2>1, <2>2, <2>3, <2>4 DEF TypeOK, topology
<1>2. CASE IsSendOther
  <2>1. at \in Ids BY <1>2 DEF IsSendOther, Answerable
  <2>2. phase' \in {"moving", "dropped", "handled"} /\ at' \in Ids /\ form' \in Ids \cup {None}
    BY <1>2, <2>1, TransmitType DEF IsSendOther, TypeOK
  <2>3. visited' \subseteq Ids /\ strayed' \in BOOLEAN BY <1>2, <2>1 DEF IsSendOther, Leaves, TypeOK
  <2>4. UNCHANGED <<topology, head>> BY <1>2 DEF IsSendOther
  <2>q. QED BY <2>2, <2>3, <2>4 DEF TypeOK, topology
<1>3. CASE Reply
  <2>1. at \in Ids /\ head.sender \in Ids /\ head.senderSuper \in Ids BY <1>3 DEF Reply, Answerable
  <2>2. head' \in [recv : Addresses \cup {None}, recvSuper : Addresses \cup {None, Mangled},
                   sender : Ids \cup {None}, senderSuper : Ids \cup {None, Mangled},
                   accurate : BOOLEAN, reply : BOOLEAN]
    <3>1. superPeer[at] \in Ids \cup {None, Mangled} BY <2>1 DEF TypeOK
    <3>q. QED BY <1>3, <2>1, <3>1 DEF Reply, ReplyHead, Addresses
  <2>3. phase' \in {"moving", "dropped", "handled"} /\ at' \in Ids /\ form' \in Ids \cup {None}
    BY <1>3, <2>1, TransmitType DEF Reply
  <2>4. visited' \subseteq Ids /\ strayed' \in BOOLEAN BY <1>3, <2>1 DEF Reply, Leaves
  <2>5. UNCHANGED topology BY <1>3 DEF Reply
  <2>q. QED BY <2>2, <2>3, <2>4, <2>5 DEF TypeOK, topology
<1>q. QED BY <1>1, <1>2, <1>3

\* The tables keep their type.
LEMMA ChangeType == ASSUME TypeOK, NotSelf, Change PROVE TypeOK' /\ NotSelf' /\ UNCHANGED message
<1>1. ASSUME NEW n \in Ids, NEW m \in Ids, CloseConn(n, m) PROVE TypeOK' /\ NotSelf' /\ UNCHANGED message
  <2>1. superPeer' \in [Ids -> Ids \cup {None, Mangled}]
    <3>1. \A t \in FindNearInSuper(n, n, m, FALSE) : t \in Ids \cup {Mangled}
      BY DEF FindNearInSuper, Nearest, Candidates, Encoded, TypeOK
    <3>q. QED BY <1>1, <3>1 DEF CloseConn, TypeOK
  <2>2. nodes' \in [Ids -> SUBSET Ids] /\ proxys' \in [Ids -> SUBSET Ids] /\ sessions' \in [Ids -> SUBSET Ids]
    BY <1>1 DEF CloseConn, TypeOK
  <2>3. changes' \in Nat /\ isSuper' = isSuper /\ UNCHANGED message BY <1>1 DEF CloseConn, TypeOK
  <2>4. NotSelf'
    <3>1. \A t \in FindNearInSuper(n, n, m, FALSE) : t # n
      BY RoutingAssumption DEF FindNearInSuper, Nearest, Candidates, Encoded, NotSelf, Addresses
    <3>2. \A x \in Ids : superPeer'[x] # x
      <4>1. CASE UNCHANGED superPeer BY <4>1 DEF NotSelf
      <4>2. ASSUME NEW t \in FindNearInSuper(n, n, m, FALSE), superPeer' = [superPeer EXCEPT ![n] = t]
            PROVE  \A x \in Ids : superPeer'[x] # x
        BY <4>2, <3>1 DEF TypeOK, NotSelf
      <4>q. QED BY <1>1, <4>1, <4>2 DEF CloseConn
    <3>3. \A x \in Ids : nodes'[x] \subseteq nodes[x] BY <1>1 DEF CloseConn, TypeOK
    <3>q. QED BY <3>2, <3>3 DEF NotSelf
  <2>q. QED BY <2>1, <2>2, <2>3, <2>4 DEF TypeOK, message
<1>2. ASSUME NEW a \in Ids, NEW b \in Ids, NEW judged \in BOOLEAN, Handshake(a, b, judged)
      PROVE  TypeOK' /\ NotSelf' /\ UNCHANGED message
  <2>1. \A x, y \in Ids : \A tab \in Tables(x, y) : tab \subseteq Ids BY DEF Tables, TypeOK
  <2>2. \A x, y \in Ids : \A tab \in SUBSET Ids : Peers(x, y, tab) \subseteq Ids \cup {None, Mangled}
    BY DEF Peers, TypeOK
  <2>15. \A x, y \in Ids : \A tab \in SUBSET Ids :
           Dialled(x, y, tab, judged) \subseteq {y} \cup Peers(x, y, tab) \cup tab \cup {Mangled}
    BY DEF Dialled, Nearest, Encoded
  <2>3. PICK ta \in Tables(a, b), tb \in IF judged THEN Tables(b, a) ELSE {nodes[b]} :
          /\ nodes' = [nodes EXCEPT ![a] = ta, ![b] = tb]
          /\ \E pa \in Dialled(a, b, ta, judged), pb \in IF judged THEN Peers(b, a, tb) ELSE {superPeer[b]} :
                superPeer' = [superPeer EXCEPT ![a] = pa, ![b] = pb]
    BY <1>2 DEF Handshake
  <2>4. ta \subseteq Ids /\ tb \subseteq Ids BY <2>1, <2>3 DEF TypeOK
  <2>5. PICK pa \in Dialled(a, b, ta, judged), pb \in IF judged THEN Peers(b, a, tb) ELSE {superPeer[b]} :
          superPeer' = [superPeer EXCEPT ![a] = pa, ![b] = pb]
    BY <2>3
  <2>6. pa \in Ids \cup {None, Mangled} /\ pb \in Ids \cup {None, Mangled} BY <2>2, <2>4, <2>5, <2>15 DEF TypeOK
  <2>7. superPeer' \in [Ids -> Ids \cup {None, Mangled}] BY <2>5, <2>6 DEF TypeOK
  <2>8. nodes' \in [Ids -> SUBSET Ids] BY <2>3, <2>4 DEF TypeOK
  <2>9. proxys' \in [Ids -> SUBSET Ids] /\ sessions' \in [Ids -> SUBSET Ids] BY <1>2 DEF Handshake, TypeOK
  <2>10. changes' \in Nat /\ isSuper' \in [Ids -> BOOLEAN] /\ UNCHANGED message BY <1>2 DEF Handshake, TypeOK
  <2>11. a # b BY <1>2 DEF Handshake
  <2>12. a \notin ta /\ b \notin tb BY <2>3, <2>11 DEF Tables, NotSelf
  <2>13. pa # a /\ pb # b
    <3>1. pa \in {b} \cup Peers(a, b, ta) \cup ta \cup {Mangled} BY <2>4, <2>5, <2>15
    <3>2. a # Mangled BY RoutingAssumption DEF Addresses
    <3>q. QED BY <2>5, <2>11, <2>12, <3>1, <3>2 DEF Peers, NotSelf
  <2>14. NotSelf'
    <3>1. \A x \in Ids : x \notin nodes'[x] BY <2>3, <2>12 DEF TypeOK, NotSelf
    <3>2. \A x \in Ids : superPeer'[x] # x BY <2>5, <2>13 DEF TypeOK, NotSelf
    <3>q. QED BY <3>1, <3>2 DEF NotSelf
  <2>q. QED BY <2>7, <2>8, <2>9, <2>10, <2>14 DEF TypeOK, message
<1>q. QED BY <1>1, <1>2 DEF Change

\* Message.Send starts a message that satisfies the invariant.
LEMMA SendStep ==
    ASSUME RoutingInv, TypeOK', NEW n \in Ids, NEW a \in Addresses, NEW accurate \in BOOLEAN, Send(n, a, accurate)
    PROVE  RoutingInv'
<1> USE DEF RoutingInv
<1>1. /\ head'.recv = a /\ head'.recvSuper = a /\ head'.accurate = accurate /\ head'.reply = FALSE
      /\ head'.sender = n /\ head'.senderSuper = IF isSuper[n] THEN n ELSE superPeer[n]
  BY DEF Send
<1>2. PICK t \in FirstHops(n, head') :
        Transmit(n, t) \/ (t = n /\ phase' = "handled" /\ at' = n /\ form' = None)
  BY DEF Send
<1>3. ~isSuper[n] => t = superPeer[n] BY <1>2 DEF FirstHops
<1>4. phase' \in {"moving", "handled"} => t \in Ids /\ at' = t BY <1>2, TransmitType
<1>5. Answerable' BY <1>1, <1>3, <1>4 DEF Answerable
<1>6. ASSUME accurate, t = n PROVE n = a
  <2>1. isSuper[n] BY <1>3, <1>6 DEF NotSelf
  <2>2. n \notin FindNearInSuper(n, a, None, FALSE)
    BY RoutingAssumption DEF FindNearInSuper, Nearest, Candidates, Encoded, NotSelf, Addresses
  <2>q. QED BY <1>1, <1>2, <1>6, <2>1, <2>2, RoutingAssumption DEF FirstHops, Addresses
<1>7. AccurateOwn' BY <1>1, <1>2, <1>6, TransmitType DEF AccurateOwn
<1>8. visited' = IF isSuper[n] /\ ~accurate THEN {n} ELSE {} BY DEF Send
<1>9. ASSUME phase' = "moving", ~strayed', isSuper[n], ~accurate PROVE Dist(at', a) < Dist(n, a)
  <2>1. t \in Ids /\ at' = t /\ t # n BY <1>2, <1>9, TransmitType
  <2>2. ~(t = a /\ a \in proxys[n]) BY <1>9, <2>1 DEF Send, Leaves
  <2>3. n # a BY <1>1, <1>2, <2>1, <1>9 DEF FirstHops
  <2>4. a \notin proxys[n] BY <1>1, <1>2, <2>2, <2>3, <1>9 DEF FirstHops
  <2>5. t \in FindNearInSuper(n, a, None, TRUE)
    BY <1>1, <1>2, <1>9, <2>1, <2>3, <2>4, RoutingAssumption DEF FirstHops, Addresses
  <2>q. QED BY <2>1, <2>5, NearIsNearer
<1>10. Nearer' BY <1>1, <1>8, <1>9 DEF Nearer
<1>11. phase' = "handled" => at' = n BY <1>2, TransmitType
<1>12. CameFrom'
  <2>1. phase' = "moving" => form' = n BY <1>2 DEF Transmit
  <2>q. QED BY <1>1, <2>1 DEF CameFrom
<1>13. NotSelf' BY DEF Send, topology, NotSelf
<1>q. QED BY <1>5, <1>7, <1>10, <1>12, <1>13

\* IsSendOther keeps the invariant: a super node passes a message to a nearer node.
LEMMA ForwardStep == ASSUME RoutingInv, TypeOK', IsSendOther PROVE RoutingInv'
<1> USE DEF RoutingInv
<1>1. /\ at \in Ids /\ head.recvSuper \in Addresses /\ head' = head /\ phase = "moving"
      /\ visited' = IF isSuper[at] THEN visited \cup {at} ELSE visited
      /\ strayed' = (strayed \/ Leaves(at, head.recv, TRUE))
  BY DEF IsSendOther, Answerable
<1>2. PICK t \in NextHops(at, head, form) :
        Transmit(at, t) \/ (t = at /\ phase' = "handled" /\ UNCHANGED <<at, form>>)
  BY DEF IsSendOther
<1>3. Answerable'
  <2>1. phase' = "moving" \/ phase' = "handled" => at' \in Ids BY <1>1, <1>2, TransmitType
  <2>q. QED BY <1>1, <2>1 DEF Answerable
<1>4. AccurateOwn' BY <1>1, <1>2, KeptIsOwn, TransmitType DEF AccurateOwn
<1>5. ASSUME phase' = "moving", ~strayed' PROVE Dist(at', head.recvSuper) < Dist(at, head.recvSuper) /\ isSuper[at] /\ at' \in Ids
  <2>1. t \in Ids /\ at' = t /\ t # at BY <1>1, <1>2, <1>5, TransmitType
  <2>2. isSuper[at] /\ ~(t = head.recv /\ head.recv \in proxys[at]) BY <1>1, <1>5, <2>1 DEF Leaves
  <2>q. QED BY <1>1, <1>2, <2>1, <2>2, HopIsNearer
<1>6. Nearer'
  <2> SUFFICES ASSUME phase' = "moving", ~strayed', NEW v \in visited'
               PROVE Dist(at', head.recvSuper) < Dist(v, head.recvSuper)
    BY <1>1 DEF Nearer
  <2>1. v \in Ids /\ ~strayed BY <1>1 DEF TypeOK
  <2>2. CASE v = at BY <1>5, <2>2
  <2>3. CASE v \in visited
    <3>1. Dist(at, head.recvSuper) < Dist(v, head.recvSuper) BY <1>1, <2>1, <2>3 DEF Nearer
    <3>2. /\ Dist(at, head.recvSuper) \in Nat /\ Dist(v, head.recvSuper) \in Nat
          /\ Dist(at', head.recvSuper) \in Nat
      BY <1>1, <1>5, <2>1, RoutingAssumption DEF Addresses
    <3>q. QED BY <1>5, <3>1, <3>2
  <2>q. QED BY <1>1, <2>2, <2>3
<1>7. CameFrom'
  <2>1. phase' = "moving" => form' = at BY <1>1, <1>2 DEF Transmit
  <2>q. QED BY <1>1, <1>5, <2>1 DEF CameFrom
<1>8. NotSelf' BY DEF IsSendOther, topology, NotSelf
<1>q. QED BY <1>3, <1>4, <1>6, <1>7, <1>8

\* Reply starts a message to the sender that satisfies the invariant.
LEMMA ReplyStep == ASSUME RoutingInv, TypeOK', Reply PROVE RoutingInv'
<1> USE DEF RoutingInv
<1>1. /\ at \in Ids /\ head'.recv = head.sender /\ head'.recvSuper = head.senderSuper /\ head'.reply = TRUE
      /\ head'.accurate = TRUE
      /\ head.senderSuper \in Ids /\ head'.recvSuper \in Addresses
      /\ visited' = (IF isSuper[at] THEN {at} ELSE {}) /\ strayed' = Leaves(at, head.sender, FALSE)
  BY DEF Reply, ReplyHead, Answerable, Addresses
<1>2. PICK t \in (IF isSuper[at] THEN NextHops(at, head', None) ELSE {superPeer[at]}) :
        Transmit(at, t) \/ (t = at /\ phase' = "dropped" /\ at' = at /\ form' = None)
  BY DEF Reply
<1>3. phase' # "handled" BY <1>1, <1>2, TransmitType
<1>4. Answerable' BY <1>1, <1>2, TransmitType DEF Answerable
<1>5. ASSUME phase' = "moving", ~strayed', isSuper[at]
      PROVE  Dist(at', head'.recvSuper) < Dist(at, head'.recvSuper)
  <2>1. t \in Ids /\ at' = t /\ t # at BY <1>1, <1>2, <1>5, TransmitType
  <2>2. ~(t = head'.recv /\ head'.recv \in proxys[at]) BY <1>1, <1>5, <2>1 DEF Leaves
  <2>3. t \in NextHops(at, head', None) BY <1>2, <1>5
  <2>q. QED BY <1>1, <1>5, <2>1, <2>2, <2>3, HopIsNearer
<1>6. Nearer' BY <1>1, <1>5 DEF Nearer
<1>7. AccurateOwn' BY <1>3 DEF AccurateOwn
<1>9. CameFrom'
  <2>1. phase' = "moving" => form' = at BY <1>1, <1>2 DEF Transmit
  <2>2. head'.sender = at BY DEF Reply, ReplyHead
  <2>q. QED BY <2>1, <2>2 DEF CameFrom
<1>8. NotSelf' BY DEF Reply, topology, NotSelf
<1>q. QED BY <1>4, <1>6, <1>7, <1>8, <1>9

\* Whatever handshakes and closed connections do to the tables while a message is under
\* way, it comes nearer with every hop of a super node, its reply has somewhere to go, and
\* an accurate message is handled by its own node only.
THEOREM RoutingAlways == Spec => []RoutingInv
<1>1. Init => RoutingInv
  <2> SUFFICES ASSUME Init PROVE RoutingInv OBVIOUS
  <2>1. TypeOK BY RoutingAssumption DEF Init, TypeOK, NoHead
  <2>2. NotSelf BY RoutingAssumption DEF Init, NotSelf, Addresses
  <2>3. Answerable /\ AccurateOwn /\ Nearer /\ CameFrom
    BY DEF Init, Answerable, AccurateOwn, Nearer, CameFrom
  <2>q. QED BY <2>1, <2>2, <2>3 DEF RoutingInv
<1>2. RoutingInv /\ [Next]_vars => RoutingInv'
  <2> SUFFICES ASSUME RoutingInv, [Next]_vars PROVE RoutingInv' OBVIOUS
  <2>1. ASSUME NEW n \in Ids, NEW a \in Addresses, NEW accurate \in BOOLEAN, Send(n, a, accurate)
        PROVE  RoutingInv'
    BY <2>1, MessageType, SendStep DEF RoutingInv
  <2>2. CASE IsSendOther BY <2>2, MessageType, ForwardStep DEF RoutingInv
  <2>3. CASE Reply BY <2>3, MessageType, ReplyStep DEF RoutingInv
  <2>4. CASE Change
    <3>1. TypeOK' /\ NotSelf' /\ UNCHANGED message BY <2>4, ChangeType DEF RoutingInv
    <3>q. QED BY <3>1 DEF RoutingInv, Answerable, AccurateOwn, Nearer, CameFrom, message
  <2>5. CASE UNCHANGED vars
    BY <2>5 DEF RoutingInv, TypeOK, NotSelf, Answerable, AccurateOwn, Nearer, CameFrom, vars, topology, message
  <2>q. QED BY <2>1, <2>2, <2>3, <2>4, <2>5 DEF Next
<1>q. QED BY <1>1, <1>2, PTL DEF Spec

\* IsSendToOtherSuperToo: as long as super nodes pass it on, a message comes nearer
\* with every hop, so it never comes back, whatever happens to the tables.
THEOREM AlwaysNearer == Spec => []Nearer
<1>1. RoutingInv => Nearer BY DEF RoutingInv
<1>q. QED BY <1>1, RoutingAlways, PTL

\* Send and IsSendToOtherSuperToo: a message meant for one node is handled there only.
THEOREM AlwaysOwn == Spec => []AccurateOwn
<1>1. RoutingInv => AccurateOwn BY DEF RoutingInv
<1>q. QED BY <1>1, RoutingAlways, PTL

\* IsSendToOtherSuperToo: the node that handles a message among super nodes is nearer to
\* its key than all it knows then, although the one it came from was no candidate.
THEOREM AlwaysNearest == Spec => NearestHandles
<1>1. ASSUME RoutingInv, IsSendOther, phase' = "handled", ~head.accurate, ~strayed,
             NEW v \in nodes[at] \ {head.sender}
      PROVE  Dist(at, head.recvSuper) < Dist(v, head.recvSuper)
  <2>1. at \in Ids /\ head.recvSuper \in Addresses /\ head.recv = head.recvSuper /\ phase = "moving"
    BY <1>1 DEF RoutingInv, Answerable, IsSendOther
  <2>2. at \in NextHops(at, head, form) BY <1>1, <2>1, TransmitType DEF IsSendOther
  <2>3. v \in Ids /\ v # at BY <1>1, <2>1 DEF RoutingInv, TypeOK, NotSelf
  <2>4. /\ Dist(at, head.recvSuper) \in Nat /\ Dist(v, head.recvSuper) \in Nat
        /\ Dist(at, head.recvSuper) # Dist(v, head.recvSuper)
    BY <2>1, <2>3, RoutingAssumption DEF Addresses
  <2>5. CASE at = head.recv
    <3>1. Dist(at, head.recvSuper) = 0 BY <2>1, <2>5, RoutingAssumption DEF Addresses
    <3>q. QED BY <2>4, <3>1
  <2>6. CASE at # head.recv
    <3>1. superPeer[at] # at BY <2>1, <1>1 DEF RoutingInv, NotSelf
    <3>2. isSuper[at] BY <1>1, <2>1, <2>2, <2>6, <3>1 DEF NextHops
    <3>3. at \in FindNearInSuper(at, head.recvSuper, form, TRUE) \/ (at = None)
      BY <1>1, <2>1, <2>2, <2>6, <3>2 DEF NextHops, Own
    <3>4. at # None /\ at # Mangled BY <2>1, RoutingAssumption DEF Addresses
    <3>5. \A u \in Candidates(at, form, TRUE) : Dist(at, head.recvSuper) <= Dist(u, head.recvSuper)
      BY <3>3, <3>4 DEF FindNearInSuper, Nearest, Encoded
    <3>6. CASE v \in Candidates(at, form, TRUE)
      <4>1. Dist(at, head.recvSuper) <= Dist(v, head.recvSuper) BY <3>5, <3>6
      <4>q. QED BY <2>4, <4>1
    <3>7. CASE v \notin Candidates(at, form, TRUE)
      <4>1. v = form BY <1>1, <3>7 DEF Candidates
      <4>2. v \in visited BY <1>1, <2>1, <4>1 DEF RoutingInv, CameFrom
      <4>q. QED BY <1>1, <2>1, <4>2 DEF RoutingInv, Nearer
    <3>q. QED BY <3>6, <3>7
  <2>q. QED BY <2>5, <2>6
<1>2. RoutingInv /\ [Next]_vars =>
        [IsSendOther /\ phase' = "handled" /\ ~head.accurate /\ ~strayed =>
            \A v \in nodes[at] \ {head.sender} : Dist(at, head.recvSuper) < Dist(v, head.recvSuper)]_vars
  BY <1>1
<1>q. QED BY <1>2, RoutingAlways, PTL DEF Spec, NearestHandles
=============================================================================
