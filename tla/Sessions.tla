------------------------------ MODULE Sessions ------------------------------
(***************************************************************************)
(* The sessions of one node (core/engine): connections that are dialled    *)
(* (AddClientConn, Connect, SendKey) and accepted (newConnect, RecvKey),   *)
(* the receive goroutine of each, and Close, which forgets a NAME in the   *)
(* session store and in the node tables, whatever connection holds it by   *)
(* then.  The receive goroutine of a connection is started before the      *)
(* session is stored.                                                      *)
(*                                                                         *)
(* Nodes and Proxys are one set here; Routing tells them apart.  AddNode   *)
(* tells OutCloseConnName of an id it replaced: a buffered channel that    *)
(* nothing reads.                                                          *)
(***************************************************************************)
EXTENDS Naturals, FiniteSets

CONSTANTS Conns,   \* connections, all that are ever made
          Names,   \* ids of the other nodes
          Self,    \* the name of the engine, which a client session has at first
          None,
          OutCap   \* capacity of OutCloseConnName, 1000 in the code

ASSUME SessionsAssumption == Self \notin Names /\ None \notin Conns /\ OutCap \in Nat

VARIABLES
    peer,       \* connection -> id of the node at the other end, None before
    client,     \* connection -> it was dialled
    heard,      \* connections whose handshake has had what it waits for
    leaving,    \* connection -> ids its AddNode has replaced and not deleted yet
    pc,         \* connection -> position of AddClientConn or newConnect
    recv,       \* connection -> position of its receive goroutine
    open,       \* connection -> the socket works
    label,      \* connection -> sessionBase.name
    nameStore,  \* name -> connection, None when there is no session
    nodes,      \* ids in nodeStore
    out,        \* ids in OutCloseConnName
    hasty,      \* history: connections that broke before their session was stored
    shared      \* history: names that two connections had at the same time

vars == <<peer, client, heard, leaving, pc, recv, open, label, nameStore, nodes, out, hasty, shared>>
made == <<peer, client, heard, leaving>>
store == <<nameStore, nodes, out>>

\* "none" -> "check" -> "add" (-> "evict" -> "report") -> "role" -> "name" -> "store" -> "done", or "failed".
At(c, p) == pc[c] = p
Goto(c, p) == pc' = [pc EXCEPT ![c] = p]

\* Connections with the name of c that have been made and are not over.
Rivals(c) ==
    {d \in Conns \ {c} : peer[d] = peer[c] /\ pc[d] # "failed" /\ recv[d] # "ended"}

Init ==
    /\ peer = [c \in Conns |-> None]
    /\ client = [c \in Conns |-> FALSE]
    /\ heard = {} /\ leaving = [c \in Conns |-> {}]
    /\ pc = [c \in Conns |-> "none"]
    /\ recv = [c \in Conns |-> "off"]
    /\ open = [c \in Conns |-> FALSE]
    /\ label = [c \in Conns |-> Self]
    /\ nameStore = [n \in Names |-> None]
    /\ nodes = {} /\ out = 0
    /\ hasty = {} /\ shared = {}
-----------------------------------------------------------------------------
(* Making a connection.                                                    *)

\* Connect dials, or the listener accepts, and the ids have been exchanged.  A handshake
\* that fails before that leaves nothing behind.
Connect(c, n, dialled) ==
    /\ At(c, "none")
    /\ peer' = [peer EXCEPT ![c] = n]
    /\ client' = [client EXCEPT ![c] = dialled]
    /\ open' = [open EXCEPT ![c] = TRUE]
    /\ Goto(c, "check")
    /\ UNCHANGED <<heard, leaving, recv, label, store, hasty, shared>>

\* A client that finds a session of that name gives up.  A server overwrites the error
\* of the same test and goes on.
Refuses(c) == client[c] /\ nameStore[peer[c]] # None

\* conn.Close after an error of SendKey or RecvKey; the node tables are left.
Fail(c) ==
    /\ Goto(c, "failed")
    /\ open' = [open EXCEPT ![c] = FALSE]
    /\ UNCHANGED <<made, recv, label, store, hasty>>

CheckName(c) ==
    /\ At(c, "check")
    /\ \/ /\ Refuses(c)
          /\ Fail(c)
          /\ UNCHANGED shared
       \/ /\ ~Refuses(c)
          /\ Goto(c, "add")
          /\ shared' = IF Rivals(c) = {} THEN shared ELSE shared \cup {peer[c]}
          /\ UNCHANGED <<made, recv, open, label, store, hasty>>

\* A client reads the last bytes of the handshake, a server reads from the node it dials
\* in TryConn: io.ReadFull without a deadline.  The client's wait ends with its socket.
Waits(c) ==
    /\ c \notin heard
    /\ IF client[c] THEN At(c, "role") /\ open[c] ELSE At(c, "add")

\* The other node answers, or that read fails; nothing makes it.
Hear(c) ==
    /\ Waits(c)
    /\ heard' = heard \cup {c}
    /\ UNCHANGED <<peer, client, leaving, pc, recv, open, label, store, hasty, shared>>

\* AddNode may find no place for the id, and may replace others by it; the sessions of
\* those are kept.  AddProxyNode always stores.
AddNode(c) ==
    /\ At(c, "add") /\ ~Waits(c)
    /\ \/ UNCHANGED <<nodes, leaving>> /\ Goto(c, "role")
       \/ \E gone \in SUBSET (nodes \ {peer[c]}) :
             /\ nodes' = nodes \cup {peer[c]}
             /\ leaving' = [leaving EXCEPT ![c] = gone]
             /\ Goto(c, IF gone = {} THEN "role" ELSE "evict")
    /\ UNCHANGED <<peer, client, heard, recv, open, label, nameStore, out, hasty, shared>>

\* The ids that were replaced are deleted and reported one by one.
Evict(c) ==
    /\ At(c, "evict")
    /\ \E one \in leaving[c] :
          /\ nodes' = nodes \ {one}
          /\ leaving' = [leaving EXCEPT ![c] = @ \ {one}]
    /\ Goto(c, "report")
    /\ UNCHANGED <<peer, client, heard, recv, open, label, nameStore, out, hasty, shared>>

\* Mutant: the last place of the channel is not used.
HasRoom_OffByOne == out + 1 < OutCap
HasRoom == out < OutCap

\* The send waits while the channel is full.
Report(c) ==
    /\ At(c, "report")
    /\ HasRoom
    /\ out' = out + 1
    /\ Goto(c, IF leaving[c] = {} THEN "role" ELSE "evict")
    /\ UNCHANGED <<made, recv, open, label, nameStore, nodes, hasty, shared>>

\* The last bytes of the handshake: who is a super node.  A server writes them and has
\* its name at once.  Then the receive goroutine is started.
StartRecv(c) ==
    /\ At(c, "role") /\ ~Waits(c)
    /\ \/ ~open[c] /\ Fail(c) /\ UNCHANGED shared
       \/ /\ open[c]
          /\ recv' = [recv EXCEPT ![c] = "run"]
          /\ label' = IF client[c] THEN label ELSE [label EXCEPT ![c] = peer[c]]
          /\ Goto(c, IF client[c] THEN "name" ELSE "store")
          /\ UNCHANGED <<made, open, store, hasty, shared>>

SetName(c) ==
    /\ At(c, "name")
    /\ label' = [label EXCEPT ![c] = peer[c]]
    /\ Goto(c, "store")
    /\ UNCHANGED <<made, recv, open, store, hasty, shared>>

addSession(c) ==
    /\ At(c, "store")
    /\ nameStore' = [nameStore EXCEPT ![peer[c]] = c]
    /\ Goto(c, "done")
    /\ hasty' = IF recv[c] \in {"run", "stuck"} THEN hasty ELSE hasty \cup {c}
    /\ UNCHANGED <<made, recv, open, label, nodes, out, shared>>
-----------------------------------------------------------------------------
(* The receive goroutine and Close.                                        *)

\* The other end or the network ends a connection.
Break(c) ==
    /\ open[c]
    /\ open' = [open EXCEPT ![c] = FALSE]
    /\ UNCHANGED <<made, pc, recv, label, store, hasty, shared>>

\* The loop of recv does not come back to the socket any more: a panic of RecvPackage,
\* recovered, keeps the bytes it could not read and returns no error, so that the loop
\* spins; or a handler, or the wait for WaitChan, does not return.
Stick(c) ==
    /\ recv[c] = "run"
    /\ recv' = [recv EXCEPT ![c] = "stuck"]
    /\ UNCHANGED <<made, pc, open, label, store, hasty, shared>>

\* RecvPackage returns an error; or AskCloseConn_recv closes a session whose node is not
\* in the tables, and recv closes it again when it comes back from the handler.  A loop
\* that spins handles its last packet again.
StartClose(c) ==
    /\ \/ recv[c] = "run" /\ ~open[c] /\ recv' = [recv EXCEPT ![c] = "callback"]
       \/ /\ (recv[c] = "run" /\ open[c]) \/ recv[c] = "stuck"
          /\ label[c] \notin nodes
          /\ recv' = [recv EXCEPT ![c] = "ask callback"]
    /\ hasty' = IF At(c, "done") THEN hasty ELSE hasty \cup {c}
    /\ UNCHANGED <<made, pc, open, label, store, shared>>

\* Mutant: the session stays in the store.
Forgotten_Never(c) == nameStore
Forgotten(c) == [n \in Names |-> IF n = label[c] THEN None ELSE nameStore[n]]

\* Mutant: the node stays in the tables.
DelNode_Keeps(c) == nodes
DelNode(c) == nodes \ {label[c]}

\* closecallback with GetName: DelNode also removes the session.
CloseCallback(c) ==
    /\ recv[c] \in {"callback", "ask callback"}
    /\ nodes' = DelNode(c)
    /\ nameStore' = Forgotten(c)
    /\ recv' = [recv EXCEPT ![c] = IF @ = "callback" THEN "remove" ELSE "ask remove"]
    /\ UNCHANGED <<made, pc, open, label, out, hasty, shared>>

\* Mutant: recv goes on after its own Close.
AfterClose_Runs(c) == "run"
AfterClose(c) == IF recv[c] = "remove" THEN "ended" ELSE "run"

\* removeSession with GetName, then conn.Close.
CloseConn(c) ==
    /\ recv[c] \in {"remove", "ask remove"}
    /\ nameStore' = Forgotten(c)
    /\ open' = [open EXCEPT ![c] = FALSE]
    /\ recv' = [recv EXCEPT ![c] = AfterClose(c)]
    /\ UNCHANGED <<made, pc, label, nodes, out, hasty, shared>>
-----------------------------------------------------------------------------
Making(c) ==
    \/ CheckName(c) \/ AddNode(c) \/ Evict(c) \/ Report(c)
    \/ StartRecv(c) \/ SetName(c) \/ addSession(c)
Receiving(c) == StartClose(c) \/ CloseCallback(c) \/ CloseConn(c)

Next ==
    \E c \in Conns :
        \/ \E n \in Names, dialled \in BOOLEAN : Connect(c, n, dialled)
        \/ Making(c) \/ Receiving(c) \/ Break(c) \/ Hear(c) \/ Stick(c)

Spec == Init /\ [][Next]_vars

\* Goroutines go on; a loop that reads meets the end of its socket.  Nobody has to
\* answer or to ask, and a loop that is stuck stays so.
FairSpec ==
    /\ Spec
    /\ \A c \in Conns :
        /\ WF_vars(Making(c))
        /\ WF_vars((StartClose(c) /\ recv[c] = "run" /\ ~open[c]) \/ CloseCallback(c) \/ CloseConn(c))
-----------------------------------------------------------------------------
Lives(c) == At(c, "done") /\ recv[c] \in {"run", "stuck"} /\ open[c]
Rests(c) == pc[c] \in {"none", "done", "failed"} /\ (Lives(c) \/ recv[c] \in {"off", "ended"})
Quiet(n) == \A c \in Conns : peer[c] = n => Rests(c)
Disturbed(n) == n \in shared \/ \E c \in hasty : peer[c] = n

\* Once the goroutines of a name rest, it has a session exactly when a connection to that
\* node lives, and it is that connection, unless two connections had the name at once
\* or one broke before it was stored.
StoreIsLive ==
    \A n \in Names : Quiet(n) /\ ~Disturbed(n) =>
        \A c \in Conns : nameStore[n] = c <=> Lives(c) /\ peer[c] = n

\* A node in the tables has a session, once its goroutines rest, unless its handshake
\* failed after AddNode, its name was shared, or it broke too soon.
NodesHaveSessions ==
    \A n \in nodes : Quiet(n) =>
        \/ nameStore[n] # None
        \/ Disturbed(n)
        \/ \E c \in Conns : peer[c] = n /\ At(c, "failed")

\* Every handshake ends, unless OutCloseConnName is full or the other end is silent.
HandshakeEnds ==
    \A c \in Conns :
        pc[c] \notin {"none", "done", "failed"}
            ~> pc[c] \in {"done", "failed"} \/ out = OutCap \/ Waits(c)

\* A connection that broke is closed by its receive goroutine in the end, unless that
\* is stuck.
BrokenIsClosed == \A c \in Conns : recv[c] = "run" /\ ~open[c] ~> recv[c] \in {"ended", "stuck"}
=============================================================================
