--------------------------- MODULE Sessions_proofs ---------------------------
(***************************************************************************)
(* Proofs about the sessions of a node, for any connections and names.     *)
(* Close works on a name, so what it removes is its own session only when  *)
(* no other connection with that name is under way: Alone says so, and     *)
(* the history variable shared says when it is not so.                     *)
(***************************************************************************)
EXTENDS Sessions, TLAPS

Begun == {"add", "evict", "report", "role", "name", "store", "done"}
Received == {"name", "store", "done"}
Closing == {"callback", "ask callback", "remove", "ask remove"}

Typed ==
    /\ peer \in [Conns -> Names \cup {None}] /\ client \in [Conns -> BOOLEAN]
    /\ heard \subseteq Conns /\ leaving \in [Conns -> SUBSET Names]
    /\ pc \in [Conns -> {"none", "check", "failed"} \cup Begun]
    /\ recv \in [Conns -> {"off", "run", "stuck", "ended"} \cup Closing]
    /\ open \in [Conns -> BOOLEAN] /\ label \in [Conns -> Names \cup {Self}]
    /\ nameStore \in [Names -> Conns \cup {None}]
    /\ nodes \subseteq Names /\ hasty \subseteq Conns
    /\ \A c \in Conns : pc[c] # "none" => peer[c] \in Names
    /\ \A c \in hasty : pc[c] # "none"

\* The receive goroutine runs from the end of the handshake on, with the name of the
\* peer once the session is about to be stored.
Named ==
    \A c \in Conns :
        /\ recv[c] # "off" <=> pc[c] \in Received
        /\ pc[c] \in {"store", "done"} => label[c] = peer[c]
        /\ pc[c] \notin {"store", "done"} => label[c] = Self

\* A connection that was closed before its session was stored is remembered.
Hasted == \A c \in Conns : recv[c] \notin {"off", "run", "stuck"} /\ pc[c] # "done" => c \in hasty

Under(c) == pc[c] \in Begun /\ recv[c] # "ended"
Alone ==
    \A c, d \in Conns : c # d /\ Under(c) /\ Under(d) /\ peer[c] = peer[d] => peer[c] \in shared

\* What the store holds under an undisturbed name: a session whose removal is to come.
Fresh(c) == At(c, "done") /\ recv[c] \in {"run", "stuck", "callback", "ask callback"}
Stored ==
    \A n \in Names, c \in Conns : ~Disturbed(n) /\ nameStore[n] = c => peer[c] = n /\ Fresh(c)
LiveStored ==
    \A n \in Names, c \in Conns : ~Disturbed(n) /\ Lives(c) /\ peer[c] = n => nameStore[n] = c

\* The connection that keeps a node in the tables.
Keeps(c, n) ==
    /\ peer[c] = n
    /\ \/ At(c, "failed")
       \/ /\ pc[c] \in Begun /\ recv[c] \in {"off", "run", "stuck", "callback", "ask callback"}
          /\ At(c, "done") => nameStore[n] = c
NodesKept == \A n \in nodes : ~Disturbed(n) => \E c \in Conns : Keeps(c, n)

SessionInv == Typed /\ Named /\ Hasted /\ Alone /\ Stored /\ LiveStored /\ NodesKept

\* A node starts with no connection.
LEMMA SessionInit == Init => SessionInv
BY SessionsAssumption DEF Init, SessionInv, Typed, Named, Hasted, Alone, Under, Stored, LiveStored, Lives,
   NodesKept,
   Begun, Received, At

\* One step of the node.
Step(c) ==
    \/ \E n \in Names, dialled \in BOOLEAN : Connect(c, n, dialled)
    \/ Making(c) \/ Receiving(c) \/ Break(c) \/ Hear(c) \/ Stick(c)

\* Peers never change once known, and what was disturbed stays so.
LEMMA Grows == ASSUME Typed, NEW c \in Conns, Step(c) PROVE 
    /\ shared \subseteq shared' /\ hasty \subseteq hasty'
    /\ \A d \in Conns : pc[d] # "none" => peer'[d] = peer[d]
<1>1. CASE \E m \in Names, dialled \in BOOLEAN : Connect(c, m, dialled)
  BY <1>1 DEF Connect, Goto, At, made, store, Typed
<1>2. CASE CheckName(c)
  BY <1>2 DEF CheckName, Goto, At, made, store, Fail, Typed
<1>3. CASE AddNode(c)
  BY <1>3 DEF AddNode, Goto, At, made, store, Typed
<1>4. CASE Report(c)
  BY <1>4 DEF Report, Goto, At, made, store, Typed
<1>5. CASE StartRecv(c)
  BY <1>5 DEF StartRecv, Goto, At, made, store, Fail, Typed
<1>6. CASE SetName(c)
  BY <1>6 DEF SetName, Goto, At, made, store, Typed
<1>7. CASE addSession(c)
  BY <1>7 DEF addSession, Goto, At, made, store, Typed
<1>8. CASE Break(c)
  BY <1>8 DEF Break, Goto, At, made, store, Typed
<1>9. CASE StartClose(c)
  BY <1>9 DEF StartClose, Goto, At, made, store, Typed
<1>10. CASE CloseCallback(c)
  BY <1>10 DEF CloseCallback, Goto, At, made, store, Forgotten, DelNode, Typed
<1>11. CASE CloseConn(c)
  BY <1>11 DEF CloseConn, Goto, At, made, store, Forgotten, AfterClose, Typed
<1>12. CASE Hear(c)
  BY <1>12 DEF Hear, Goto, At, made, store, Typed
<1>13. CASE Stick(c)
  BY <1>13 DEF Stick, Goto, At, made, store, Typed
<1>14. CASE Evict(c)
  BY <1>14 DEF Evict, Goto, At, made, store, Typed
<1>q. QED BY <1>1, <1>2, <1>3, <1>4, <1>5, <1>6, <1>7, <1>8, <1>9, <1>10, <1>11, <1>12,
   <1>13, <1>14 DEF Step, Making, Receiving

\* A name that is undisturbed after a step was so before.
LEMMA StillDisturbed ==
    ASSUME Typed, NEW c \in Conns, Step(c), NEW n, ~Disturbed(n)' PROVE ~Disturbed(n)
BY Grows DEF Disturbed, Typed

\* Every step keeps the types.
LEMMA TypedStep == ASSUME SessionInv, NEW c \in Conns, Step(c) PROVE Typed'
<1>1. CASE \E m \in Names, dialled \in BOOLEAN : Connect(c, m, dialled)
  <2>1. PICK m \in Names, dialled \in BOOLEAN : Connect(c, m, dialled) BY <1>1
  <2>2. /\ pc[c] = "none" /\ peer' = [peer EXCEPT ![c] = m] /\ client' = [client EXCEPT ![c] = dialled]
        /\ open' = [open EXCEPT ![c] = TRUE] /\ pc' = [pc EXCEPT ![c] = "check"]
        /\ UNCHANGED <<heard, leaving, recv, label, nameStore, nodes, out, hasty, shared>>
    BY <2>1 DEF Connect, Goto, At, store
  <2>q. QED BY <2>2 DEF Typed, SessionInv, Begun, Closing
<1>2. CASE CheckName(c)
  BY <1>2, SessionsAssumption DEF CheckName, Goto, At, made, store, Fail, Typed, SessionInv, Begun, Closing
<1>3. CASE AddNode(c)
  <2>1. /\ pc[c] = "add" /\ UNCHANGED <<peer, client, heard, recv, open, label, nameStore, hasty>>
        /\ \E p \in {"role", "evict"} : pc' = [pc EXCEPT ![c] = p]
    BY <1>3 DEF AddNode, Goto, At
  <2>2. \/ nodes' = nodes /\ leaving' = leaving
        \/ \E gone \in SUBSET nodes :
              nodes' = nodes \cup {peer[c]} /\ leaving' = [leaving EXCEPT ![c] = gone]
    BY <1>3 DEF AddNode
  <2>3. nodes' \subseteq Names /\ leaving' \in [Conns -> SUBSET Names]
    BY <2>1, <2>2 DEF Typed, SessionInv
  <2>q. QED BY <2>1, <2>3 DEF Typed, SessionInv, Begun, Closing
<1>4. CASE Report(c)
  BY <1>4, SessionsAssumption DEF Report, Goto, At, made, store, Typed, SessionInv, Begun, Closing
<1>5. CASE StartRecv(c)
  <2>1. /\ pc[c] = "role" /\ UNCHANGED <<made, nameStore, nodes, hasty>>
        /\ \E p \in {"failed", "name", "store"} : pc' = [pc EXCEPT ![c] = p]
        /\ recv' = recv \/ recv' = [recv EXCEPT ![c] = "run"]
        /\ open' = open \/ open' = [open EXCEPT ![c] = FALSE]
        /\ label' = label \/ label' = [label EXCEPT ![c] = peer[c]]
    BY <1>5 DEF StartRecv, Fail, Goto, At, store
  <2>q. QED BY <2>1 DEF Typed, SessionInv, Begun, Closing, made
<1>6. CASE SetName(c)
  BY <1>6, SessionsAssumption DEF SetName, Goto, At, made, store, Typed, SessionInv, Begun, Closing
<1>7. CASE addSession(c)
  BY <1>7, SessionsAssumption DEF addSession, Goto, At, made, store, Typed, SessionInv, Begun, Closing
<1>8. CASE Break(c)
  BY <1>8, SessionsAssumption DEF Break, Goto, At, made, store, Typed, SessionInv, Begun, Closing
<1>9. CASE StartClose(c)
  <2>1. /\ recv[c] \in {"run", "stuck"} /\ UNCHANGED <<made, pc, open, label, nameStore, nodes, out, shared>>
        /\ hasty' = IF pc[c] = "done" THEN hasty ELSE hasty \cup {c}
        /\ \E r \in {"callback", "ask callback"} : recv' = [recv EXCEPT ![c] = r]
    BY <1>9 DEF StartClose, At, made, store
  <2>q. QED BY <2>1 DEF Typed, SessionInv, Begun, Closing, Named, Received, made
<1>10. CASE CloseCallback(c)
  BY <1>10, SessionsAssumption DEF CloseCallback, Goto, At, made, store, Forgotten, DelNode, Typed,
     SessionInv, Begun, Closing
<1>11. CASE CloseConn(c)
  BY <1>11, SessionsAssumption DEF CloseConn, Goto, At, made, store, Forgotten, AfterClose, Typed,
     SessionInv, Begun, Closing
<1>12. CASE Hear(c)
  BY <1>12, SessionsAssumption DEF Hear, Goto, At, made, store, Typed, SessionInv, Begun, Closing
<1>13. CASE Stick(c)
  BY <1>13, SessionsAssumption DEF Stick, Goto, At, made, store, Typed, SessionInv, Begun, Closing
<1>14. CASE Evict(c)
  <2>1. /\ pc[c] = "evict" /\ nodes' \subseteq nodes /\ pc' = [pc EXCEPT ![c] = "report"]
        /\ \E one : leaving' = [leaving EXCEPT ![c] = @ \ {one}]
        /\ UNCHANGED <<peer, client, heard, recv, open, label, nameStore, hasty>>
    BY <1>14 DEF Evict, Goto, At
  <2>q. QED BY <2>1 DEF Typed, SessionInv, Begun, Closing
<1>q. QED BY <1>1, <1>2, <1>3, <1>4, <1>5, <1>6, <1>7, <1>8, <1>9, <1>10, <1>11, <1>12,
   <1>13, <1>14 DEF Step, Making, Receiving

\* The positions of the two goroutines of a connection go together.
LEMMA NamedStep == ASSUME SessionInv, NEW c \in Conns, Step(c) PROVE Named' /\ Hasted'
<1>1. CASE \E m \in Names, dialled \in BOOLEAN : Connect(c, m, dialled)
  <2>1. PICK m \in Names, dialled \in BOOLEAN : Connect(c, m, dialled) BY <1>1
  <2>2. /\ pc[c] = "none" /\ peer' = [peer EXCEPT ![c] = m] /\ client' = [client EXCEPT ![c] = dialled]
        /\ open' = [open EXCEPT ![c] = TRUE] /\ pc' = [pc EXCEPT ![c] = "check"]
        /\ UNCHANGED <<recv, label, nameStore, nodes, out, hasty, shared>>
    BY <2>1 DEF Connect, Goto, At, store
  <2>q. QED BY <2>2 DEF Typed, SessionInv, Named, Hasted, Begun, Received, Closing
<1>2. CASE CheckName(c)
  <2>1. /\ pc[c] = "check" /\ UNCHANGED <<peer, recv, label>> /\ hasty' = hasty
        /\ \E p \in {"failed", "add"} : pc' = [pc EXCEPT ![c] = p]
    BY <1>2 DEF CheckName, Goto, At, made, store, Fail
  <2>q. QED BY <2>1 DEF Typed, SessionInv, Named, Hasted, Begun, Received, Closing
<1>3. CASE AddNode(c)
  <2>1. /\ pc[c] = "add" /\ UNCHANGED <<peer, recv, label>> /\ hasty' = hasty
        /\ \E p \in {"role", "evict"} : pc' = [pc EXCEPT ![c] = p]
    BY <1>3 DEF AddNode, Goto, At, made, store
  <2>q. QED BY <2>1 DEF Typed, SessionInv, Named, Hasted, Begun, Received, Closing
<1>4. CASE Report(c)
  <2>1. /\ pc[c] = "report" /\ UNCHANGED <<peer, recv, label>> /\ hasty' = hasty
        /\ \E p \in {"role", "evict"} : pc' = [pc EXCEPT ![c] = p]
    BY <1>4 DEF Report, Goto, At, made, store
  <2>q. QED BY <2>1 DEF Typed, SessionInv, Named, Hasted, Begun, Received, Closing
<1>5. CASE StartRecv(c)
  <2>1. CASE Fail(c) BY <1>5, <2>1, SessionsAssumption DEF StartRecv, Fail, Goto, At, made, store, Typed,
     SessionInv, Named, Hasted, Begun, Received, Closing
  <2>2. CASE /\ recv' = [recv EXCEPT ![c] = "run"]
             /\ UNCHANGED <<peer, client, open, nameStore, nodes, out, hasty, shared>>
             /\ label' = label /\ pc' = [pc EXCEPT ![c] = "name"]
    BY <1>5, <2>2, SessionsAssumption DEF StartRecv, At, Typed, SessionInv, Named, Hasted, Begun, Received,
       Closing
  <2>3. CASE /\ recv' = [recv EXCEPT ![c] = "run"]
             /\ UNCHANGED <<peer, client, open, nameStore, nodes, out, hasty, shared>>
             /\ label' = [label EXCEPT ![c] = peer[c]] /\ pc' = [pc EXCEPT ![c] = "store"]
    BY <1>5, <2>3, SessionsAssumption DEF StartRecv, At, Typed, SessionInv, Named, Hasted, Begun, Received,
       Closing
  <2>q. QED BY <1>5, <2>1, <2>2, <2>3 DEF StartRecv, Goto, made, store
<1>6. CASE SetName(c)
  <2>1. /\ pc[c] = "name" /\ UNCHANGED <<peer, recv, hasty>>
        /\ label' = [label EXCEPT ![c] = peer[c]] /\ pc' = [pc EXCEPT ![c] = "store"]
    BY <1>6 DEF SetName, Goto, At, made
  <2>q. QED BY <2>1 DEF Typed, SessionInv, Named, Hasted, Begun, Received, Closing
<1>7. CASE addSession(c)
  <2>1. /\ pc[c] = "store" /\ nameStore' = [nameStore EXCEPT ![peer[c]] = c] /\ pc' = [pc EXCEPT ![c] = "done"]
        /\ hasty \subseteq hasty' /\ (recv[c] \notin {"run", "stuck"} => c \in hasty')
        /\ recv[c] \in {"run", "stuck"} => hasty' = hasty
        /\ UNCHANGED <<peer, client, recv, open, label, nodes, out, shared>>
    BY <1>7 DEF addSession, Goto, At, made
  <2>2. Named' BY <2>1 DEF Typed, SessionInv, Named, Hasted, Begun, Received, Closing
  <2>3. Hasted' BY <2>1 DEF Typed, SessionInv, Named, Hasted, Begun, Received, Closing
  <2>q. QED BY <2>2, <2>3
<1>8. CASE Break(c)
  BY <1>8, TypedStep, SessionsAssumption DEF Break, Goto, At, made, store, Typed, SessionInv, Named, Hasted,
     Begun, Received, Closing
<1>9. CASE StartClose(c)
  <2>1. /\ recv[c] \in {"run", "stuck"} /\ UNCHANGED <<made, pc, open, label, nameStore, nodes, out, shared>>
        /\ hasty' = IF pc[c] = "done" THEN hasty ELSE hasty \cup {c}
        /\ \E r \in {"callback", "ask callback"} : recv' = [recv EXCEPT ![c] = r]
    BY <1>9 DEF StartClose, At, made, store
  <2>q. QED BY <2>1 DEF Typed, SessionInv, Named, Hasted, Begun, Received, Closing, made
<1>10. CASE CloseCallback(c)
  BY <1>10, TypedStep, SessionsAssumption DEF CloseCallback, Goto, At, made, store, Forgotten, DelNode,
     Typed, SessionInv, Named, Hasted, Begun, Received, Closing
<1>11. CASE CloseConn(c)
  BY <1>11, TypedStep, SessionsAssumption DEF CloseConn, Goto, At, made, store, Forgotten, AfterClose,
     Typed, SessionInv, Named, Hasted, Begun, Received, Closing
<1>12. CASE Hear(c)
  BY <1>12, TypedStep, SessionsAssumption DEF Hear, Goto, At, made, store, Typed, SessionInv, Named,
     Hasted, Begun, Received, Closing
<1>13. CASE Stick(c)
  BY <1>13, TypedStep, SessionsAssumption DEF Stick, Goto, At, made, store, Typed, SessionInv, Named,
     Hasted, Begun, Received, Closing
<1>14. CASE Evict(c)
  <2>1. /\ pc[c] = "evict" /\ UNCHANGED <<peer, recv, label>> /\ hasty' = hasty
        /\ \E p \in {"report"} : pc' = [pc EXCEPT ![c] = p]
    BY <1>14 DEF Evict, Goto, At, made, store
  <2>q. QED BY <2>1 DEF Typed, SessionInv, Named, Hasted, Begun, Received, Closing
<1>q. QED BY <1>1, <1>2, <1>3, <1>4, <1>5, <1>6, <1>7, <1>8, <1>9, <1>10, <1>11, <1>12,
   <1>13, <1>14 DEF Step, Making, Receiving

\* The test of the name sees every connection that is under way.
LEMMA AloneStep == ASSUME SessionInv, NEW c \in Conns, Step(c) PROVE Alone'
<1>1. CASE \E m \in Names, dialled \in BOOLEAN : Connect(c, m, dialled)
  BY <1>1, TypedStep DEF Connect, Goto, At, made, store, Typed, SessionInv, Alone, Under, Begun, Named,
     Received, Rivals
<1>2. CASE CheckName(c)
  BY <1>2, TypedStep DEF CheckName, Goto, At, made, store, Fail, Typed, SessionInv, Alone, Under, Begun,
     Named, Received, Rivals
<1>3. CASE AddNode(c)
  BY <1>3, TypedStep DEF AddNode, Goto, At, made, store, Typed, SessionInv, Alone, Under, Begun, Named,
     Received, Rivals
<1>4. CASE Report(c)
  BY <1>4, TypedStep DEF Report, Goto, At, made, store, Typed, SessionInv, Alone, Under, Begun, Named,
     Received, Rivals
<1>5. CASE StartRecv(c)
  BY <1>5, TypedStep DEF StartRecv, Goto, At, made, store, Fail, Typed, SessionInv, Alone, Under, Begun,
     Named, Received, Rivals
<1>6. CASE SetName(c)
  BY <1>6, TypedStep DEF SetName, Goto, At, made, store, Typed, SessionInv, Alone, Under, Begun, Named,
     Received, Rivals
<1>7. CASE addSession(c)
  BY <1>7, TypedStep DEF addSession, Goto, At, made, store, Typed, SessionInv, Alone, Under, Begun, Named,
     Received, Rivals
<1>8. CASE Break(c)
  BY <1>8, TypedStep DEF Break, Goto, At, made, store, Typed, SessionInv, Alone, Under, Begun, Named,
     Received, Rivals
<1>9. CASE StartClose(c)
  <2>1. /\ recv[c] \in {"run", "stuck"} /\ UNCHANGED <<made, pc, open, label, nameStore, nodes, out, shared>>
        /\ hasty' = IF pc[c] = "done" THEN hasty ELSE hasty \cup {c}
        /\ \E r \in {"callback", "ask callback"} : recv' = [recv EXCEPT ![c] = r]
    BY <1>9 DEF StartClose, At, made, store
  <2>2. \A d \in Conns : Under(d)' => Under(d) BY <2>1 DEF Typed, SessionInv, Under
  <2>3. peer' = peer /\ shared' = shared BY <2>1 DEF made
  <2>q. QED BY <2>2, <2>3 DEF SessionInv, Alone
<1>10. CASE CloseCallback(c)
  BY <1>10, TypedStep DEF CloseCallback, Goto, At, made, store, Forgotten, DelNode, Typed, SessionInv,
     Alone, Under, Begun, Named, Received, Rivals
<1>11. CASE CloseConn(c)
  BY <1>11, TypedStep DEF CloseConn, Goto, At, made, store, Forgotten, AfterClose, Typed, SessionInv, Alone,
     Under, Begun, Named, Received, Rivals
<1>12. CASE Hear(c)
  BY <1>12, TypedStep DEF Hear, Goto, At, made, store, Typed, SessionInv, Alone, Under, Begun, Named,
     Received, Rivals
<1>13. CASE Stick(c)
  BY <1>13, TypedStep DEF Stick, Goto, At, made, store, Typed, SessionInv, Alone, Under, Begun, Named,
     Received, Rivals
<1>14. CASE Evict(c)
  BY <1>14, TypedStep DEF Evict, Goto, At, made, store, Typed, SessionInv, Alone, Under, Begun, Named,
     Received, Rivals
<1>q. QED BY <1>1, <1>2, <1>3, <1>4, <1>5, <1>6, <1>7, <1>8, <1>9, <1>10, <1>11, <1>12,
   <1>13, <1>14 DEF Step, Making, Receiving

\* Of an undisturbed name, one connection at most is under way.
LEMMA Sole ==
    ASSUME SessionInv, NEW n, NEW c \in Conns, NEW d \in Conns, ~Disturbed(n),
           Under(c), Under(d), peer[c] = n, peer[d] = n
    PROVE c = d
BY DEF SessionInv, Alone, Disturbed

\* Whatever Close removes under an undisturbed name is its own session.
LEMMA StoredStep == ASSUME SessionInv, NEW c \in Conns, Step(c) PROVE Stored'
<1>. SUFFICES ASSUME NEW n \in Names, NEW d \in Conns, ~Disturbed(n)', nameStore'[n] = d
              PROVE peer'[d] = n /\ Fresh(d)'
  BY DEF Stored
<1>a. ~Disturbed(n) BY StillDisturbed DEF SessionInv
<1>b. nameStore[n] = d => peer[d] = n /\ Fresh(d) BY <1>a DEF SessionInv, Stored
<1>c. c \in hasty' => peer'[c] # n BY DEF Disturbed
<1>d. pc[d] # "none" => peer'[d] = peer[d] BY Grows DEF SessionInv
<1>1. CASE \E m \in Names, dialled \in BOOLEAN : Connect(c, m, dialled)
  BY <1>1, <1>b, <1>c, <1>d, SessionsAssumption DEF Connect, Goto, At, made, store, Typed, SessionInv,
     Fresh, Under, Begun, Named, Received, Closing
<1>2. CASE CheckName(c)
  BY <1>2, <1>b, <1>c, <1>d, SessionsAssumption DEF CheckName, Goto, At, made, store, Fail, Typed,
     SessionInv, Fresh, Under, Begun, Named, Received, Closing
<1>3. CASE AddNode(c)
  BY <1>3, <1>b, <1>c, <1>d, SessionsAssumption DEF AddNode, Goto, At, made, store, Typed, SessionInv,
     Fresh, Under, Begun, Named, Received, Closing
<1>4. CASE Report(c)
  BY <1>4, <1>b, <1>c, <1>d, SessionsAssumption DEF Report, Goto, At, made, store, Typed, SessionInv, Fresh,
     Under, Begun, Named, Received, Closing
<1>5. CASE StartRecv(c)
  <2>1. /\ pc[c] = "role" /\ UNCHANGED <<peer, nameStore>>
        /\ \E p : pc' = [pc EXCEPT ![c] = p]
        /\ recv' = recv \/ recv' = [recv EXCEPT ![c] = "run"]
    BY <1>5 DEF StartRecv, Fail, Goto, At, made, store
  <2>2. peer[d] = n /\ Fresh(d) BY <2>1, <1>b
  <2>3. c # d BY <2>1, <2>2 DEF Fresh, At
  <2>q. QED BY <2>1, <2>2, <2>3 DEF Typed, SessionInv, Fresh, At
<1>6. CASE SetName(c)
  BY <1>6, <1>b, <1>c, <1>d, SessionsAssumption DEF SetName, Goto, At, made, store, Typed, SessionInv,
     Fresh, Under, Begun, Named, Received, Closing
<1>7. CASE addSession(c)
  BY <1>7, <1>b, <1>c, <1>d, SessionsAssumption DEF addSession, Goto, At, made, store, Typed, SessionInv,
     Fresh, Under, Begun, Named, Received, Closing
<1>8. CASE Break(c)
  BY <1>8, <1>b, <1>c, <1>d, SessionsAssumption DEF Break, Goto, At, made, store, Typed, SessionInv, Fresh,
     Under, Begun, Named, Received, Closing
<1>9. CASE StartClose(c)
  <2>1. /\ recv[c] \in {"run", "stuck"} /\ UNCHANGED <<made, pc, open, label, nameStore, nodes, out, shared>>
        /\ hasty' = IF pc[c] = "done" THEN hasty ELSE hasty \cup {c}
        /\ \E r \in {"callback", "ask callback"} : recv' = [recv EXCEPT ![c] = r]
    BY <1>9 DEF StartClose, At, made, store
  <2>q. QED BY <2>1, <1>b, <1>c, <1>d, SessionsAssumption DEF Typed, SessionInv, Fresh, Under, Begun, Named,
     Received, Closing, At
<1>10. CASE CloseCallback(c)
  BY <1>10, <1>b, <1>c, <1>d, SessionsAssumption DEF CloseCallback, Goto, At, made, store, Forgotten,
     DelNode, Typed, SessionInv, Fresh, Under, Begun, Named, Received, Closing
<1>11. CASE CloseConn(c)
  BY <1>11, <1>b, <1>c, <1>d, SessionsAssumption DEF CloseConn, Goto, At, made, store, Forgotten,
     AfterClose, Typed, SessionInv, Fresh, Under, Begun, Named, Received, Closing
<1>12. CASE Hear(c)
  BY <1>12, <1>b, <1>c, <1>d, SessionsAssumption DEF Hear, Goto, At, made, store, Typed, SessionInv, Fresh,
     Under, Begun, Named, Received, Closing
<1>13. CASE Stick(c)
  BY <1>13, <1>b, <1>c, <1>d, SessionsAssumption DEF Stick, Goto, At, made, store, Typed, SessionInv, Fresh,
     Under, Begun, Named, Received, Closing
<1>14. CASE Evict(c)
  BY <1>14, <1>b, <1>c, <1>d, SessionsAssumption DEF Evict, Goto, At, made, store, Typed, SessionInv, Fresh,
     Under, Begun, Named, Received, Closing
<1>q. QED BY <1>1, <1>2, <1>3, <1>4, <1>5, <1>6, <1>7, <1>8, <1>9, <1>10, <1>11, <1>12,
   <1>13, <1>14 DEF Step, Making, Receiving

\* A session that works is not removed by another connection.
LEMMA LiveStep == ASSUME SessionInv, NEW c \in Conns, Step(c) PROVE LiveStored'
<1>. SUFFICES ASSUME NEW n \in Names, NEW d \in Conns, ~Disturbed(n)', Lives(d)', peer'[d] = n
              PROVE nameStore'[n] = d
  BY DEF LiveStored
<1>a. ~Disturbed(n) BY StillDisturbed DEF SessionInv
<1>b. peer[d] = n /\ Lives(d) => nameStore[n] = d BY <1>a DEF SessionInv, LiveStored
<1>c. Under(c) /\ Under(d) /\ peer[c] = n /\ peer[d] = n => c = d BY <1>a, Sole
<1>d. pc[d] # "none" => peer'[d] = peer[d] BY Grows DEF SessionInv
<1>e. c \in hasty' => peer'[c] # n BY DEF Disturbed
<1>1. CASE \E m \in Names, dialled \in BOOLEAN : Connect(c, m, dialled)
  BY <1>1, <1>b, <1>c, <1>d, SessionsAssumption DEF Connect, Goto, At, made, store, Typed, SessionInv,
     Lives, Under, Begun, Named, Received, Closing
<1>2. CASE CheckName(c)
  BY <1>2, <1>b, <1>c, <1>d, SessionsAssumption DEF CheckName, Goto, At, made, store, Fail, Typed,
     SessionInv, Lives, Under, Begun, Named, Received, Closing
<1>3. CASE AddNode(c)
  BY <1>3, <1>b, <1>c, <1>d, SessionsAssumption DEF AddNode, Goto, At, made, store, Typed, SessionInv,
     Lives, Under, Begun, Named, Received, Closing
<1>4. CASE Report(c)
  BY <1>4, <1>b, <1>c, <1>d, SessionsAssumption DEF Report, Goto, At, made, store, Typed, SessionInv, Lives,
     Under, Begun, Named, Received, Closing
<1>5. CASE StartRecv(c)
  BY <1>5, <1>b, <1>c, <1>d, SessionsAssumption DEF StartRecv, Goto, At, made, store, Fail, Typed,
     SessionInv, Lives, Under, Begun, Named, Received, Closing
<1>6. CASE SetName(c)
  BY <1>6, <1>b, <1>c, <1>d, SessionsAssumption DEF SetName, Goto, At, made, store, Typed, SessionInv,
     Lives, Under, Begun, Named, Received, Closing
<1>7. CASE addSession(c)
  <2>1. /\ pc[c] = "store" /\ nameStore' = [nameStore EXCEPT ![peer[c]] = c] /\ pc' = [pc EXCEPT ![c] = "done"]
        /\ hasty \subseteq hasty' /\ (recv[c] \notin {"run", "stuck"} => c \in hasty')
        /\ recv[c] \in {"run", "stuck"} => hasty' = hasty
        /\ UNCHANGED <<peer, client, recv, open, label, nodes, out, shared>>
    BY <1>7 DEF addSession, Goto, At, made
  <2>2. peer[c] = n => Under(c) BY <2>1, <1>e DEF Under, Begun
  <2>3. peer[c] \in Names BY <2>1 DEF Typed, SessionInv
  <2>q. QED BY <2>1, <2>2, <2>3, <1>b, <1>c, <1>d DEF Typed, SessionInv, Lives, Under, Begun, At
<1>8. CASE Break(c)
  BY <1>8, <1>b, <1>c, <1>d, SessionsAssumption DEF Break, Goto, At, made, store, Typed, SessionInv, Lives,
     Under, Begun, Named, Received, Closing
<1>9. CASE StartClose(c)
  BY <1>9, <1>b, <1>c, <1>d, SessionsAssumption DEF StartClose, Goto, At, made, store, Typed, SessionInv,
     Lives, Under, Begun, Named, Received, Closing
<1>10. CASE CloseCallback(c)
  <2>1. /\ recv[c] \in {"callback", "ask callback"} /\ nodes' = nodes \ {label[c]}
        /\ nameStore' = [k \in Names |-> IF k = label[c] THEN None ELSE nameStore[k]]
        /\ \E r \in {"remove", "ask remove"} : recv' = [recv EXCEPT ![c] = r]
        /\ UNCHANGED <<peer, client, pc, open, label, out, hasty, shared>>
    BY <1>10 DEF CloseCallback, DelNode, Forgotten, made
  <2>2. Under(c) /\ (label[c] = n => peer[c] = n)
    BY <2>1, SessionsAssumption DEF Typed, SessionInv, Named, Received, Under, Begun
  <2>q. QED BY <2>1, <2>2, <1>b, <1>c DEF Typed, SessionInv, Lives, Under, Begun, At
<1>11. CASE CloseConn(c)
  <2>1. /\ recv[c] \in {"remove", "ask remove"} /\ open' = [open EXCEPT ![c] = FALSE]
        /\ nameStore' = [k \in Names |-> IF k = label[c] THEN None ELSE nameStore[k]]
        /\ \E r \in {"ended", "run"} : recv' = [recv EXCEPT ![c] = r]
        /\ UNCHANGED <<peer, pc, label>>
    BY <1>11 DEF CloseConn, AfterClose, Forgotten, made
  <2>2. Under(c) /\ (label[c] = n => peer[c] = n)
    BY <2>1, SessionsAssumption DEF Typed, SessionInv, Named, Received, Under, Begun
  <2>3. c # d BY <2>1 DEF Typed, SessionInv, Lives
  <2>4. Lives(d) BY <2>1, <2>3 DEF Typed, SessionInv, Lives, At
  <2>5. Under(d) BY <2>4 DEF Lives, Under, Begun, At
  <2>q. QED BY <2>1, <2>2, <2>3, <2>4, <2>5, <1>b, <1>c
<1>12. CASE Hear(c)
  BY <1>12, <1>b, <1>c, <1>d, SessionsAssumption DEF Hear, Goto, At, made, store, Typed, SessionInv, Lives,
     Under, Begun, Named, Received, Closing
<1>13. CASE Stick(c)
  BY <1>13, <1>b, <1>c, <1>d, SessionsAssumption DEF Stick, Goto, At, made, store, Typed, SessionInv, Lives,
     Under, Begun, Named, Received, Closing
<1>14. CASE Evict(c)
  BY <1>14, <1>b, <1>c, <1>d, SessionsAssumption DEF Evict, Goto, At, made, store, Typed, SessionInv, Lives,
     Under, Begun, Named, Received, Closing
<1>q. QED BY <1>1, <1>2, <1>3, <1>4, <1>5, <1>6, <1>7, <1>8, <1>9, <1>10, <1>11, <1>12,
   <1>13, <1>14 DEF Step, Making, Receiving

\* The connection that brought a node into the tables keeps it there until it is closed.
LEMMA KeptStep ==
    ASSUME SessionInv, NEW c \in Conns, Step(c), NEW n \in nodes', ~Disturbed(n)',
           NEW d \in Conns, Keeps(d, n)
    PROVE Keeps(d, n)'
<1>a. ~Disturbed(n) /\ n \in Names BY StillDisturbed, TypedStep DEF SessionInv, Typed
<1>b. Under(c) /\ Under(d) /\ peer[c] = n => c = d BY <1>a, Sole DEF Keeps
<1>c. pc[d] # "none" /\ peer[d] = n BY <1>a DEF SessionInv, Typed, Keeps, At, Begun
<1>d. peer'[d] = n BY <1>c, Grows DEF SessionInv
<1>e. c \in hasty' => peer'[c] # n BY DEF Disturbed
<1>1. CASE \E m \in Names, dialled \in BOOLEAN : Connect(c, m, dialled)
  BY <1>1, <1>b, <1>c, <1>d, <1>e DEF Connect, Goto, At, made, store, Typed, SessionInv, Keeps, Under,
     Begun, Named, Received, Closing
<1>2. CASE CheckName(c)
  BY <1>2, <1>b, <1>c, <1>d, <1>e DEF CheckName, Goto, At, made, store, Fail, Typed, SessionInv, Keeps,
     Under, Begun, Named, Received, Closing
<1>3. CASE AddNode(c)
  BY <1>3, <1>b, <1>c, <1>d, <1>e DEF AddNode, Goto, At, made, store, Typed, SessionInv, Keeps, Under,
     Begun, Named, Received, Closing
<1>4. CASE Report(c)
  BY <1>4, <1>b, <1>c, <1>d, <1>e DEF Report, Goto, At, made, store, Typed, SessionInv, Keeps, Under, Begun,
     Named, Received, Closing
<1>5. CASE StartRecv(c)
  <2>1. CASE Fail(c) BY <1>5, <2>1, <1>b, <1>c, <1>d, <1>e DEF StartRecv, Fail, Goto, At, made, store,
     Typed, SessionInv, Keeps, Under, Begun, Named, Received, Closing, At
  <2>2. CASE /\ recv' = [recv EXCEPT ![c] = "run"]
             /\ UNCHANGED <<peer, client, open, nameStore, nodes, out, hasty, shared>>
             /\ label' = label /\ pc' = [pc EXCEPT ![c] = "name"]
    BY <1>5, <2>2, <1>b, <1>c, <1>d, <1>e DEF StartRecv, At, Typed, SessionInv, Keeps, Under, Begun, Named,
       Received, Closing, At
  <2>3. CASE /\ recv' = [recv EXCEPT ![c] = "run"]
             /\ UNCHANGED <<peer, client, open, nameStore, nodes, out, hasty, shared>>
             /\ label' = [label EXCEPT ![c] = peer[c]] /\ pc' = [pc EXCEPT ![c] = "store"]
    BY <1>5, <2>3, <1>b, <1>c, <1>d, <1>e DEF StartRecv, At, Typed, SessionInv, Keeps, Under, Begun, Named,
       Received, Closing, At
  <2>q. QED BY <1>5, <2>1, <2>2, <2>3 DEF StartRecv, Goto, made, store
<1>6. CASE SetName(c)
  BY <1>6, <1>b, <1>c, <1>d, <1>e DEF SetName, Goto, At, made, store, Typed, SessionInv, Keeps, Under,
     Begun, Named, Received, Closing
<1>7. CASE addSession(c)
  BY <1>7, <1>b, <1>c, <1>d, <1>e DEF addSession, Goto, At, made, store, Typed, SessionInv, Keeps, Under,
     Begun, Named, Received, Closing
<1>8. CASE Break(c)
  BY <1>8, <1>b, <1>c, <1>d, <1>e DEF Break, Goto, At, made, store, Typed, SessionInv, Keeps, Under, Begun,
     Named, Received, Closing
<1>9. CASE StartClose(c)
  <2>1. /\ recv[c] \in {"run", "stuck"} /\ UNCHANGED <<made, pc, open, label, nameStore, nodes, out, shared>>
        /\ hasty' = IF pc[c] = "done" THEN hasty ELSE hasty \cup {c}
        /\ \E r \in {"callback", "ask callback"} : recv' = [recv EXCEPT ![c] = r]
    BY <1>9 DEF StartClose, At, made, store
  <2>q. QED BY <2>1, <1>b, <1>c, <1>d, <1>e DEF Typed, SessionInv, Keeps, Under, Begun, Named, Received,
     Closing, At
<1>10. CASE CloseCallback(c)
  <2>1. /\ recv[c] \in {"callback", "ask callback"} /\ nodes' = nodes \ {label[c]}
        /\ nameStore' = [k \in Names |-> IF k = label[c] THEN None ELSE nameStore[k]]
        /\ \E r \in {"remove", "ask remove"} : recv' = [recv EXCEPT ![c] = r]
        /\ UNCHANGED <<peer, client, pc, open, label, out, hasty, shared>>
    BY <1>10 DEF CloseCallback, DelNode, Forgotten, made
  <2>2. Under(c) /\ (label[c] = n => peer[c] = n)
    BY <2>1, <1>a, SessionsAssumption DEF Typed, SessionInv, Named, Received, Under, Begun
  <2>3. peer[c] # n
    <3>1. label[c] # n BY <2>1
    <3>2. peer[c] = n => c \in hasty BY <2>1, <3>1 DEF SessionInv, Named, Hasted
    <3>q. QED BY <2>1, <3>2, <1>e
  <2>q. QED BY <2>1, <2>3, <1>a, <1>c, <1>d DEF Typed, SessionInv, Keeps, At
<1>11. CASE CloseConn(c)
  <2>1. /\ recv[c] \in {"remove", "ask remove"} /\ pc' = pc
        /\ nameStore' = [k \in Names |-> IF k = label[c] THEN None ELSE nameStore[k]]
        /\ \E r \in {"ended", "run"} : recv' = [recv EXCEPT ![c] = r]
    BY <1>11 DEF CloseConn, AfterClose, Forgotten
  <2>2. Under(c) /\ (label[c] = n => peer[c] = n)
    BY <2>1, <1>a, SessionsAssumption DEF Typed, SessionInv, Named, Received, Under, Begun
  <2>3. c # d BY <2>1, <1>c DEF Keeps, SessionInv, Named, Received, At
  <2>4. pc[d] \in Begun => Under(d) BY DEF Keeps, At, Under, Begun
  <2>q. QED BY <2>1, <2>2, <2>3, <2>4, <1>a, <1>b, <1>c, <1>d DEF Typed, SessionInv, Keeps, At
<1>12. CASE Hear(c)
  BY <1>12, <1>b, <1>c, <1>d, <1>e DEF Hear, Goto, At, made, store, Typed, SessionInv, Keeps, Under, Begun,
     Named, Received, Closing
<1>13. CASE Stick(c)
  BY <1>13, <1>b, <1>c, <1>d, <1>e DEF Stick, Goto, At, made, store, Typed, SessionInv, Keeps, Under, Begun,
     Named, Received, Closing
<1>14. CASE Evict(c)
  BY <1>14, <1>b, <1>c, <1>d, <1>e DEF Evict, Goto, At, made, store, Typed, SessionInv, Keeps, Under, Begun,
     Named, Received, Closing
<1>q. QED BY <1>1, <1>2, <1>3, <1>4, <1>5, <1>6, <1>7, <1>8, <1>9, <1>10, <1>11, <1>12,
   <1>13, <1>14 DEF Step, Making, Receiving

\* Only AddNode brings a node.
LEMMA Brought ==
    ASSUME SessionInv, NEW c \in Conns, Step(c), NEW n \in nodes', n \notin nodes
    PROVE n = peer[c] /\ Keeps(c, n)'
<1>1. CASE \E m \in Names, dialled \in BOOLEAN : Connect(c, m, dialled)
  BY <1>1, SessionsAssumption DEF Connect, Goto, At, made, store, Typed, SessionInv, Keeps, Begun, Named,
     Received
<1>2. CASE CheckName(c)
  BY <1>2, SessionsAssumption DEF CheckName, Goto, At, made, store, Fail, Typed, SessionInv, Keeps, Begun,
     Named, Received
<1>3. CASE AddNode(c)
  BY <1>3, SessionsAssumption DEF AddNode, Goto, At, made, store, Typed, SessionInv, Keeps, Begun, Named,
     Received
<1>4. CASE Report(c)
  BY <1>4, SessionsAssumption DEF Report, Goto, At, made, store, Typed, SessionInv, Keeps, Begun, Named,
     Received
<1>5. CASE StartRecv(c)
  BY <1>5, SessionsAssumption DEF StartRecv, Goto, At, made, store, Fail, Typed, SessionInv, Keeps, Begun,
     Named, Received
<1>6. CASE SetName(c)
  BY <1>6, SessionsAssumption DEF SetName, Goto, At, made, store, Typed, SessionInv, Keeps, Begun, Named,
     Received
<1>7. CASE addSession(c)
  BY <1>7, SessionsAssumption DEF addSession, Goto, At, made, store, Typed, SessionInv, Keeps, Begun, Named,
     Received
<1>8. CASE Break(c)
  BY <1>8, SessionsAssumption DEF Break, Goto, At, made, store, Typed, SessionInv, Keeps, Begun, Named,
     Received
<1>9. CASE StartClose(c)
  BY <1>9, SessionsAssumption DEF StartClose, Goto, At, made, store, Typed, SessionInv, Keeps, Begun, Named,
     Received
<1>10. CASE CloseCallback(c)
  BY <1>10, SessionsAssumption DEF CloseCallback, Goto, At, made, store, Forgotten, DelNode, Typed,
     SessionInv, Keeps, Begun, Named, Received
<1>11. CASE CloseConn(c)
  BY <1>11, SessionsAssumption DEF CloseConn, Goto, At, made, store, Forgotten, AfterClose, Typed,
     SessionInv, Keeps, Begun, Named, Received
<1>12. CASE Hear(c)
  BY <1>12, SessionsAssumption DEF Hear, Goto, At, made, store, Typed, SessionInv, Keeps, Begun, Named,
     Received
<1>13. CASE Stick(c)
  BY <1>13, SessionsAssumption DEF Stick, Goto, At, made, store, Typed, SessionInv, Keeps, Begun, Named,
     Received
<1>14. CASE Evict(c)
  BY <1>14, SessionsAssumption DEF Evict, Goto, At, made, store, Typed, SessionInv, Keeps, Begun, Named,
     Received
<1>q. QED BY <1>1, <1>2, <1>3, <1>4, <1>5, <1>6, <1>7, <1>8, <1>9, <1>10, <1>11, <1>12,
   <1>13, <1>14 DEF Step, Making, Receiving

\* Every step keeps the invariant.
LEMMA SessionStep == SessionInv /\ [Next]_vars => SessionInv'
<1>. SUFFICES ASSUME SessionInv, [Next]_vars PROVE SessionInv' OBVIOUS
<1>1. ASSUME NEW c \in Conns, Step(c) PROVE SessionInv'
  <2>1. NodesKept'
    <3>. SUFFICES ASSUME NEW n \in nodes', ~Disturbed(n)' PROVE \E d \in Conns : Keeps(d, n)' BY DEF NodesKept
    <3>1. CASE n \notin nodes BY <1>1, <3>1, Brought
    <3>2. CASE n \in nodes
      <4>1. PICK d \in Conns : Keeps(d, n) BY <1>1, <3>2, StillDisturbed DEF SessionInv, NodesKept
      <4>q. QED BY <1>1, <4>1, KeptStep
    <3>q. QED BY <3>1, <3>2
  <2>q. QED BY <1>1, <2>1, TypedStep, NamedStep, AloneStep, StoredStep, LiveStep DEF SessionInv
<1>2. CASE UNCHANGED vars
  <2>1. Typed' /\ Named' /\ Hasted' /\ Alone' BY <1>2 DEF vars, SessionInv, Typed, Named, Hasted, Alone, Under
  <2>2. Stored' /\ LiveStored'
    BY <1>2 DEF vars, SessionInv, Stored, LiveStored, Disturbed, Fresh, Lives, At
  <2>3. NodesKept' BY <1>2 DEF vars, SessionInv, NodesKept, Disturbed, Keeps, At
  <2>q. QED BY <2>1, <2>2, <2>3 DEF SessionInv
<1>q. QED BY <1>1, <1>2 DEF Next, Step

\* SessionInv is inductive: the receive goroutine and the handshake of a connection are
\* in step, and an undisturbed name belongs to one connection at a time.
THEOREM SessionAlways == Spec => []SessionInv
BY SessionInit, SessionStep, PTL DEF Spec

\* Once the goroutines of a name rest, sessionStore holds under an undisturbed name exactly the
\* connection that lives, for any number of connections and names.
THEOREM AlwaysLive == Spec => []StoreIsLive
<1>1. SessionInv => StoreIsLive
  <2>. SUFFICES ASSUME SessionInv, NEW n \in Names, Quiet(n), ~Disturbed(n), NEW c \in Conns
                PROVE nameStore[n] = c <=> Lives(c) /\ peer[c] = n
    BY DEF StoreIsLive
  <2>1. peer[c] = n => Rests(c) BY DEF Quiet
  <2>2. ASSUME nameStore[n] = c PROVE Lives(c) /\ peer[c] = n
    <3>1. peer[c] = n /\ Fresh(c) BY <2>2 DEF SessionInv, Stored
    <3>q. QED BY <2>1, <3>1 DEF Rests, Fresh
  <2>3. ASSUME Lives(c), peer[c] = n PROVE nameStore[n] = c BY <2>3 DEF SessionInv, LiveStored
  <2>q. QED BY <2>2, <2>3
<1>q. QED BY SessionAlways, <1>1, PTL

\* Once its goroutines rest, a node in the tables has a session, unless a handshake with
\* it failed after AddNode, its name was shared or a connection broke too soon.
THEOREM AlwaysReachableNodes == Spec => []NodesHaveSessions
<1>1. SessionInv => NodesHaveSessions
  <2>. SUFFICES ASSUME SessionInv, NEW n \in nodes, Quiet(n), ~Disturbed(n), NEW d \in Conns, Keeps(d, n), ~At(d, "failed")
                PROVE nameStore[n] # None
    BY DEF NodesHaveSessions, SessionInv, NodesKept, Keeps
  <2>1. At(d, "done") BY DEF Quiet, Rests, Keeps, At, Begun
  <2>q. QED BY <2>1, SessionsAssumption DEF Keeps
<1>q. QED BY SessionAlways, <1>1, PTL
=============================================================================
