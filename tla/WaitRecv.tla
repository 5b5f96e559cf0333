------------------------------ MODULE WaitRecv ------------------------------
(***************************************************************************)
(* Requests that wait for their reply (core/message_center/waitrecv.go).   *)
(* A caller sends a message and then calls WaitRequest(class, tag) with    *)
(* the hash of the message as tag; the handler of the reply calls          *)
(* ResponseWait(class, tag, bs).  Both go through a map of maps without a  *)
(* lock around more than one of its operations.                            *)
(*                                                                         *)
(* A tag is the hash of a fresh message, so it belongs to one request and  *)
(* request, tag, the channel made for the tag and the answer have one      *)
(* name.  A tag map is named after the request that made it.               *)
(***************************************************************************)
EXTENDS Naturals, FiniteSets

CONSTANTS Requests, Classes, ClassOf, None, Nil,
          MaxReplies  \* bound: replies delivered to one request

ASSUME WaitAssumption ==
    /\ ClassOf \in [Requests -> Classes]
    /\ None \notin Requests /\ Nil \notin Requests /\ None # Nil
    /\ MaxReplies \in Nat

VARIABLES
    pc,           \* per request: position of its caller
    waitRequest,  \* class -> tag map
    tagMap,       \* tag map -> tags with a channel in it
    rw,           \* per request: the tag map it works on
    chan,         \* tag -> content of its one-slot channel
    result,       \* request -> what WaitRequest returned
    handler,      \* tag -> the tag map its ResponseWait has loaded
    replies       \* tag -> replies delivered so far

vars == <<pc, waitRequest, tagMap, rw, chan, result, handler, replies>>

Init ==
    /\ pc = [r \in Requests |-> "send"]
    /\ waitRequest = [c \in Classes |-> None]
    /\ tagMap = [m \in Requests |-> {}]
    /\ rw = [r \in Requests |-> None]
    /\ chan = [r \in Requests |-> None]
    /\ result = [r \in Requests |-> None]
    /\ handler = [r \in Requests |-> None]
    /\ replies = [r \in Requests |-> 0]
-----------------------------------------------------------------------------
(* The caller.                                                             *)

\* session.Send before WaitRequest.
SendRequest(r) ==
    /\ pc[r] = "send"
    /\ pc' = [pc EXCEPT ![r] = "load"]
    /\ UNCHANGED <<waitRequest, tagMap, rw, chan, result, handler, replies>>

\* Load(class): a new tag map with the new channel in it, or the map found.
LoadClass(r) ==
    /\ pc[r] = "load"
    /\ \/ /\ waitRequest[ClassOf[r]] = None
          /\ rw' = [rw EXCEPT ![r] = r]
          /\ tagMap' = [tagMap EXCEPT ![r] = {r}]
          /\ pc' = [pc EXCEPT ![r] = "store"]
       \/ /\ waitRequest[ClassOf[r]] # None
          /\ rw' = [rw EXCEPT ![r] = waitRequest[ClassOf[r]]]
          /\ pc' = [pc EXCEPT ![r] = "tag"]
          /\ UNCHANGED tagMap
    /\ UNCHANGED <<waitRequest, chan, result, handler, replies>>

\* waitRequest.Store(class, &hrw), whatever is there by now.
StoreClass(r) ==
    /\ pc[r] = "store"
    /\ waitRequest' = [waitRequest EXCEPT ![ClassOf[r]] = r]
    /\ pc' = [pc EXCEPT ![r] = "wait"]
    /\ UNCHANGED <<tagMap, rw, chan, result, handler, replies>>

\* Mutant: a tag is only registered in a map that is empty.
StoreTag_First(r) ==
    /\ pc[r] = "tag"
    /\ tagMap' = IF tagMap[rw[r]] = {} THEN [tagMap EXCEPT ![rw[r]] = {r}] ELSE tagMap
    /\ pc' = [pc EXCEPT ![r] = "wait"]
    /\ UNCHANGED <<waitRequest, rw, chan, result, handler, replies>>

StoreTag(r) ==
    /\ pc[r] = "tag"
    /\ tagMap' = [tagMap EXCEPT ![rw[r]] = @ \cup {r}]
    /\ pc' = [pc EXCEPT ![r] = "wait"]
    /\ UNCHANGED <<waitRequest, rw, chan, result, handler, replies>>

\* Mutant: the first tag of the map is read instead of the request's own.
Channel_First(r) == CHOOSE t \in tagMap[rw[r]] \cup {r} : TRUE
Channel(r) == r

\* The select: the channel delivers.  The tag stays in its map.
Receive(r) ==
    /\ pc[r] = "wait"
    /\ chan[Channel(r)] # None
    /\ result' = [result EXCEPT ![r] = chan[Channel(r)]]
    /\ chan' = [chan EXCEPT ![Channel(r)] = None]
    /\ pc' = [pc EXCEPT ![r] = "done"]
    /\ UNCHANGED <<waitRequest, tagMap, rw, handler, replies>>

\* Mutant: the tick is consumed and the select entered again.
Timeout_Again(r) == pc[r] = "wait" /\ UNCHANGED vars

\* The select: waitRequstTime has passed.
Timeout(r) ==
    /\ pc[r] = "wait"
    /\ result' = [result EXCEPT ![r] = Nil]
    /\ tagMap' = [tagMap EXCEPT ![rw[r]] = @ \ {r}]
    /\ pc' = [pc EXCEPT ![r] = "done"]
    /\ UNCHANGED <<waitRequest, rw, chan, handler, replies>>
-----------------------------------------------------------------------------
(* The handler of the reply.                                               *)

\* ResponseWait up to Load(class); the reply is dropped when the class is unknown.
ResponseWait(r) ==
    /\ pc[r] # "send" /\ handler[r] = None /\ replies[r] < MaxReplies
    /\ replies' = [replies EXCEPT ![r] = @ + 1]
    /\ handler' = [handler EXCEPT ![r] = waitRequest[ClassOf[r]]]
    /\ UNCHANGED <<pc, waitRequest, tagMap, rw, chan, result>>

Delivered(r) == {r} \cap tagMap[handler[r]]

\* Load(tag), and a send that does not block: a full channel keeps its content.
SendReply(r) ==
    /\ handler[r] # None
    /\ chan' = [t \in Requests |-> IF t \in Delivered(r) /\ chan[t] = None THEN r ELSE chan[t]]
    /\ handler' = [handler EXCEPT ![r] = None]
    /\ UNCHANGED <<pc, waitRequest, tagMap, rw, result, replies>>
-----------------------------------------------------------------------------
Caller(r) == SendRequest(r) \/ LoadClass(r) \/ StoreClass(r) \/ StoreTag(r) \/ Receive(r) \/ Timeout(r)
Handler(r) == ResponseWait(r) \/ SendReply(r)
Next == \E r \in Requests : Caller(r) \/ Handler(r)
Spec == Init /\ [][Next]_vars

\* Callers and handlers are goroutines and the ticker fires; neighbours need not reply.
FairSpec == Spec /\ \A r \in Requests : WF_vars(Caller(r)) /\ WF_vars(SendReply(r))
-----------------------------------------------------------------------------
Pcs == {"send", "load", "store", "tag", "wait", "done"}

TypeOK ==
    /\ pc \in [Requests -> Pcs]
    /\ waitRequest \in [Classes -> Requests \cup {None}]
    /\ tagMap \in [Requests -> SUBSET Requests]
    /\ rw \in [Requests -> Requests \cup {None}]
    /\ chan \in [Requests -> Requests \cup {None}]
    /\ result \in [Requests -> Requests \cup {None, Nil}]
    /\ handler \in [Requests -> Requests \cup {None}]
    /\ replies \in [Requests -> 0..MaxReplies]

Replied == {r \in Requests : replies[r] > 0}

\* What a channel or a return value holds came with a reply that was delivered; that
\* it is an answer to the tag of its own request is how ResponseWait finds the channel.
OwnAnswer ==
    \A r \in Requests :
        /\ chan[r] # None => chan[r] = r /\ r \in Replied
        /\ result[r] \notin {None, Nil} => result[r] = r /\ r \in Replied

\* Where a caller and a handler stand: a caller has a result exactly when it is
\* done, and it never waits without a tag map.
Standing ==
    \A r \in Requests :
        /\ pc[r] # "done" <=> result[r] = None
        /\ handler[r] # None => r \in Replied
        /\ pc[r] \in {"store", "tag", "wait"} => rw[r] # None

\* The inductive invariant.
WaitInv == TypeOK /\ Standing /\ OwnAnswer

\* WaitRequest keeps what RequestReply promises.
Abstract == INSTANCE RequestReply WITH replied <- Replied
Promise == Abstract!Spec

\* Two requests of class c both found no tag map and made one.
Raced(c) ==
    \E r, s \in Requests : r # s /\ ClassOf[r] = c /\ ClassOf[s] = c /\ rw[r] = r /\ rw[s] = s

\* A request that waits can be found by its reply, because its tag is in the map that
\* waitRequest holds for its class, unless two first callers of the class raced.
WaitersReachable ==
    \A r \in Requests : pc[r] = "wait" =>
        r \in tagMap[rw[r]] /\ (waitRequest[ClassOf[r]] = rw[r] \/ Raced(ClassOf[r]))

\* Its inductive strengthening: where each tag map came from and who stored it.
MapsOwned ==
    /\ \A c \in Classes : waitRequest[c] # None =>
          rw[waitRequest[c]] = waitRequest[c] /\ ClassOf[waitRequest[c]] = c
    /\ \A r \in Requests :
        /\ pc[r] \in {"send", "load"} => rw[r] = None
        /\ pc[r] = "store" => rw[r] = r /\ r \in tagMap[r]
        /\ pc[r] \in {"tag", "wait"} =>
              /\ rw[rw[r]] = rw[r] /\ ClassOf[rw[r]] = ClassOf[r]
              /\ waitRequest[ClassOf[r]] = rw[r] \/ Raced(ClassOf[r])

ReachInv == MapsOwned /\ WaitersReachable

\* Every request returns, answered or not.
EveryRequestEnds == \A r \in Requests : pc[r] = "load" ~> pc[r] = "done"
=============================================================================
