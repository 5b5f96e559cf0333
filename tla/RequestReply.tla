---------------------------- MODULE RequestReply ----------------------------
(***************************************************************************)
(* What a caller of WaitRequest is promised: a request ends once, with the *)
(* reply that was sent to it or with nil, and only a reply that was sent   *)
(* is returned.                                                            *)
(***************************************************************************)
CONSTANTS Requests, None, Nil

VARIABLES replied,  \* requests a neighbour has replied to
          result    \* request -> its return value, None while it waits

Init == replied = {} /\ result = [r \in Requests |-> None]

\* The neighbour's answer to request r is named by r itself.
Reply(r) == replied' = replied \cup {r} /\ UNCHANGED result

Return(r) ==
    /\ result[r] = None /\ r \in replied
    /\ result' = [result EXCEPT ![r] = r]
    /\ UNCHANGED replied

GiveUp(r) ==
    /\ result[r] = None
    /\ result' = [result EXCEPT ![r] = Nil]
    /\ UNCHANGED replied

Next == \E r \in Requests : Reply(r) \/ Return(r) \/ GiveUp(r)

Spec == Init /\ [][Next]_<<replied, result>>
=============================================================================
