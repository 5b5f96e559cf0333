--------------------------- MODULE WaitRecv_proofs ---------------------------
(***************************************************************************)
(* WaitRequest and ResponseWait implement RequestReply for any requests,   *)
(* classes and repeated replies: a reply is never returned to another      *)
(* request, and a request ends once.  A request that waits can be found by *)
(* its reply unless two first callers of its class raced.                  *)
(***************************************************************************)
EXTENDS WaitRecv, TLAPS

\* The initial state satisfies the invariant.
LEMMA WaitInit == Init => WaitInv
  BY WaitAssumption DEF Init, WaitInv, TypeOK, Standing, OwnAnswer, Pcs, Replied

\* Every step of a caller and of a handler preserves it.
LEMMA WaitStep == WaitInv /\ [Next]_vars => WaitInv'
  <1>. SUFFICES ASSUME WaitInv, [Next]_vars PROVE WaitInv'
    OBVIOUS
  <1>. USE WaitAssumption DEF WaitInv
  <1>1. ASSUME NEW r \in Requests, SendRequest(r) PROVE WaitInv'
    BY <1>1 DEF SendRequest, TypeOK, Standing, OwnAnswer, Pcs, Replied
  <1>2. ASSUME NEW r \in Requests, LoadClass(r) PROVE WaitInv'
    <2>1. TypeOK'
      BY <1>2 DEF LoadClass, TypeOK, Pcs
    <2>2. Standing' /\ OwnAnswer'
      BY <1>2 DEF LoadClass, TypeOK, Standing, OwnAnswer, Replied
    <2>. QED BY <2>1, <2>2
  <1>3. ASSUME NEW r \in Requests, StoreClass(r) PROVE WaitInv'
    <2>1. TypeOK'
      BY <1>3 DEF StoreClass, TypeOK, Pcs
    <2>2. Standing' /\ OwnAnswer'
      BY <1>3 DEF StoreClass, TypeOK, Standing, OwnAnswer, Replied
    <2>. QED BY <2>1, <2>2
  <1>4. ASSUME NEW r \in Requests, StoreTag(r) PROVE WaitInv'
    <2>1. TypeOK'
      BY <1>4 DEF StoreTag, TypeOK, Pcs, Standing
    <2>2. Standing' /\ OwnAnswer'
      BY <1>4 DEF StoreTag, TypeOK, Standing, OwnAnswer, Replied
    <2>. QED BY <2>1, <2>2
  <1>5. ASSUME NEW r \in Requests, Receive(r) PROVE WaitInv'
    <2>1. TypeOK'
      BY <1>5 DEF Receive, Channel, TypeOK, Pcs
    <2>2. Standing'
      BY <1>5 DEF Receive, Channel, TypeOK, Standing, Replied
    <2>3. OwnAnswer'
      BY <1>5 DEF Receive, Channel, TypeOK, OwnAnswer, Replied
    <2>. QED BY <2>1, <2>2, <2>3
  <1>6. ASSUME NEW r \in Requests, Timeout(r) PROVE WaitInv'
    <2>1. TypeOK'
      BY <1>6 DEF Timeout, TypeOK, Pcs, Standing
    <2>2. Standing'
      BY <1>6 DEF Timeout, TypeOK, Standing, Replied
    <2>3. OwnAnswer'
      BY <1>6 DEF Timeout, TypeOK, OwnAnswer, Replied
    <2>. QED BY <2>1, <2>2, <2>3
  <1>7. ASSUME NEW r \in Requests, ResponseWait(r) PROVE WaitInv'
    <2>1. TypeOK' /\ Replied' = Replied \cup {r}
      BY <1>7 DEF ResponseWait, TypeOK, Replied
    <2>2. Standing' /\ OwnAnswer'
      BY <1>7, <2>1 DEF ResponseWait, TypeOK, Standing, OwnAnswer
    <2>. QED BY <2>1, <2>2
  <1>8. ASSUME NEW r \in Requests, SendReply(r) PROVE WaitInv'
    <2>1. TypeOK' /\ Replied' = Replied /\ r \in Replied
      BY <1>8 DEF SendReply, TypeOK, Replied, Standing
    <2>2. \A t \in Requests : chan'[t] # chan[t] => t = r /\ chan'[t] = r
      BY <1>8 DEF SendReply, Delivered, TypeOK
    <2>3. Standing'
      BY <1>8, <2>1 DEF SendReply, TypeOK, Standing
    <2>4. OwnAnswer'
      BY <1>8, <2>1, <2>2 DEF SendReply, TypeOK, OwnAnswer
    <2>. QED BY <2>1, <2>3, <2>4
  <1>9. CASE UNCHANGED vars
    BY <1>9 DEF vars, TypeOK, Standing, OwnAnswer, Replied
  <1>. QED
    BY <1>1, <1>2, <1>3, <1>4, <1>5, <1>6, <1>7, <1>8, <1>9 DEF Next, Caller, Handler

\* A caller of WaitRequest has a result exactly when it has returned, never waits without
\* a tag map, and holds no answer but its own, whatever the handlers do.
THEOREM WaitAlways == Spec => []WaitInv
  BY WaitInit, WaitStep, PTL DEF Spec

\* A step of a caller or a handler is a step of RequestReply or leaves its
\* variables alone.
LEMMA PromiseStep == WaitInv /\ [Next]_vars => [Abstract!Next]_<<Replied, result>>
  <1>. SUFFICES ASSUME WaitInv, [Next]_vars PROVE [Abstract!Next]_<<Replied, result>>
    OBVIOUS
  <1>. USE WaitAssumption DEF WaitInv
  <1>1. ASSUME NEW r \in Requests, Receive(r) PROVE Abstract!Return(r)
    BY <1>1 DEF Receive, Channel, Abstract!Return, TypeOK, Standing, OwnAnswer, Replied
  <1>2. ASSUME NEW r \in Requests, Timeout(r) PROVE Abstract!GiveUp(r)
    BY <1>2 DEF Timeout, Abstract!GiveUp, TypeOK, Standing, Replied
  <1>3. ASSUME NEW r \in Requests, ResponseWait(r) PROVE Abstract!Reply(r)
    <2>1. Replied' = Replied \cup {r}
      BY <1>3 DEF ResponseWait, TypeOK, Replied
    <2>. QED BY <1>3, <2>1 DEF ResponseWait, Abstract!Reply
  <1>4. ASSUME NEW r \in Requests,
               SendRequest(r) \/ LoadClass(r) \/ StoreClass(r) \/ StoreTag(r) \/ SendReply(r)
        PROVE  UNCHANGED <<Replied, result>>
    BY <1>4 DEF SendRequest, LoadClass, StoreClass, StoreTag, SendReply, Replied
  <1>5. CASE UNCHANGED vars
    BY <1>5 DEF vars, Replied
  <1>. QED
    BY <1>1, <1>2, <1>3, <1>4, <1>5 DEF Next, Caller, Handler, Abstract!Next

\* WaitRequest and ResponseWait implement RequestReply.
THEOREM KeepsPromise == Spec => Promise
  <1>1. Init => Abstract!Init
    BY DEF Init, Abstract!Init, Replied
  <1>. QED BY <1>1, WaitAlways, PromiseStep, PTL DEF Spec, Promise, Abstract!Spec

-----------------------------------------------------------------------------
\* A tag map that a request made is never taken from it, so a race is never undone.
LEMMA RacedGrows ==
  ASSUME WaitInv, ReachInv, [Next]_vars, NEW c \in Classes, Raced(c)
  PROVE  Raced(c)'
  <1>1. \A r \in Requests : rw[r] = r => rw'[r] = r
    BY WaitAssumption
    DEF Next, Caller, Handler, SendRequest, LoadClass, StoreClass, StoreTag, Receive, Timeout,
        ResponseWait, SendReply, vars, WaitInv, TypeOK, ReachInv, MapsOwned
  <1>. QED BY <1>1 DEF Raced

\* A step that leaves the maps alone, and brings no request to a position before "done"
\* that it did not have, preserves the reachability of the others.
LEMMA ReachSame ==
  ASSUME ReachInv, UNCHANGED <<waitRequest, tagMap, rw, pc>>
  PROVE  ReachInv'
  BY DEF ReachInv, MapsOwned, WaitersReachable, Raced

\* Every step preserves ReachInv.
LEMMA ReachStep == WaitInv /\ ReachInv /\ [Next]_vars => ReachInv'
  <1>. SUFFICES ASSUME WaitInv, ReachInv, [Next]_vars PROVE ReachInv'
    OBVIOUS
  <1>. USE WaitAssumption DEF WaitInv, ReachInv
  <1>0. \A c \in Classes : Raced(c) => Raced(c)'
    BY RacedGrows
  <1>1. ASSUME NEW r \in Requests, SendRequest(r) PROVE ReachInv'
    <2>1. MapsOwned'
      BY <1>0, <1>1 DEF SendRequest, TypeOK, MapsOwned
    <2>. QED BY <1>0, <1>1, <2>1 DEF SendRequest, TypeOK, WaitersReachable
  <1>2. ASSUME NEW r \in Requests, LoadClass(r) PROVE ReachInv'
    <2>1. \A s \in Requests : rw[s] = s => rw'[s] = s
      BY <1>2 DEF LoadClass, TypeOK, MapsOwned
    <2>2. \A s \in Requests : pc[s] \in {"tag", "wait"} =>
            rw'[s] = rw[s] /\ rw[s] \in Requests /\ tagMap'[rw[s]] = tagMap[rw[s]]
      BY <1>2 DEF LoadClass, TypeOK, MapsOwned, Standing
    <2>3. MapsOwned'
      BY <1>0, <1>2, <2>1, <2>2 DEF LoadClass, TypeOK, MapsOwned
    <2>. QED BY <1>0, <1>2, <2>2, <2>3 DEF LoadClass, TypeOK, WaitersReachable
  <1>3. ASSUME NEW r \in Requests, StoreClass(r) PROVE ReachInv'
    <2>1. \A s \in Requests : pc[s] \in {"tag", "wait"} /\ ClassOf[s] = ClassOf[r] =>
            rw[s] = r \/ Raced(ClassOf[s])
      BY <1>3 DEF StoreClass, TypeOK, MapsOwned, Standing, Raced
    <2>2. Raced(ClassOf[r])' <=> Raced(ClassOf[r])
      BY <1>3 DEF StoreClass, Raced
    <2>3. MapsOwned'
      BY <1>0, <1>3, <2>1 DEF StoreClass, TypeOK, MapsOwned
    <2>. QED BY <1>0, <1>3, <2>1, <2>3 DEF StoreClass, TypeOK, MapsOwned, WaitersReachable
  <1>4. ASSUME NEW r \in Requests, StoreTag(r) PROVE ReachInv'
    <2>1. rw[r] \in Requests
      BY <1>4 DEF StoreTag, TypeOK, Standing
    <2>2. MapsOwned'
      BY <1>0, <1>4, <2>1 DEF StoreTag, TypeOK, MapsOwned
    <2>. QED BY <1>0, <1>4, <2>1, <2>2 DEF StoreTag, TypeOK, MapsOwned, WaitersReachable, Standing
  <1>5. ASSUME NEW r \in Requests, Receive(r) PROVE ReachInv'
    <2>1. MapsOwned'
      BY <1>0, <1>5 DEF Receive, TypeOK, MapsOwned
    <2>. QED BY <1>0, <1>5, <2>1 DEF Receive, TypeOK, WaitersReachable
  <1>6. ASSUME NEW r \in Requests, Timeout(r) PROVE ReachInv'
    <2>1. rw[r] \in Requests
      BY <1>6 DEF Timeout, TypeOK, Standing
    <2>2. \A s \in Requests, m \in Requests : s # r /\ s \in tagMap[m] => s \in tagMap'[m]
      BY <1>6, <2>1 DEF Timeout, TypeOK
    <2>3. MapsOwned'
      BY <1>0, <1>6, <2>2 DEF Timeout, TypeOK, MapsOwned
    <2>. QED BY <1>0, <1>6, <2>2, <2>3 DEF Timeout, TypeOK, WaitersReachable, Standing
  <1>7. ASSUME NEW r \in Requests, ResponseWait(r) \/ SendReply(r) PROVE ReachInv'
    BY <1>7, ReachSame DEF ResponseWait, SendReply
  <1>8. CASE UNCHANGED vars
    BY <1>8, ReachSame DEF vars
  <1>. QED
    BY <1>1, <1>2, <1>3, <1>4, <1>5, <1>6, <1>7, <1>8 DEF Next, Caller, Handler

\* A reply finds the request it answers while that request waits, for any number of
\* requests, unless two first callers of the class raced.
THEOREM AlwaysReachable == Spec => []WaitersReachable
  <1>1. Init => ReachInv
    BY WaitAssumption DEF Init, ReachInv, MapsOwned, WaitersReachable
  <1>2. ReachInv => WaitersReachable
    BY DEF ReachInv
  <1>. QED BY <1>1, <1>2, WaitAlways, ReachStep, PTL DEF Spec
=============================================================================
