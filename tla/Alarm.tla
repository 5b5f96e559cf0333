------------------------------- MODULE Alarm -------------------------------
(***************************************************************************)
(* What a caller of Add is promised: the functions of one second are       *)
(* called together and once, the earliest second first and never before    *)
(* it has come.  A caller whose Add ends too late is promised only that    *)
(* nothing is called early, and takes the rest from the others too.        *)
(***************************************************************************)
EXTENDS Naturals

CONSTANTS Tasks, Seconds

VARIABLES now,    \* the clock
          due,    \* task -> second its caller has chosen, 0 before
          set,    \* tasks that were added
          setting,\* of these, the task whose Add is under way
          late,   \* tasks whose Add had not ended when their second had come
          calls   \* task -> times its function was called

Init ==
    /\ now = 0
    /\ due = [x \in Tasks |-> 0]
    /\ set = {}
    /\ setting = {}
    /\ late = {}
    /\ calls = [x \in Tasks |-> 0]

Tick ==
    /\ now' = now + 1
    /\ late' = late \cup {x \in setting : due[x] <= now + 1}
    /\ UNCHANGED <<due, set, setting, calls>>

Choose(x, t) ==
    /\ due[x] = 0 /\ t > now
    /\ due' = [due EXCEPT ![x] = t]
    /\ UNCHANGED <<now, set, setting, late, calls>>

Set(x) ==
    /\ due[x] # 0 /\ x \notin set /\ setting = {}
    /\ set' = set \cup {x}
    /\ setting' = {x}
    /\ late' = late \cup {y \in {x} : due[y] <= now}
    /\ UNCHANGED <<now, due, calls>>

Done ==
    /\ setting' = {}
    /\ UNCHANGED <<now, due, set, late, calls>>

Call(S) ==
    /\ calls' = [x \in Tasks |-> IF x \in S THEN calls[x] + 1 ELSE calls[x]]
    /\ UNCHANGED <<now, due, set, setting, late>>

Waiting == {x \in set : calls[x] = 0}

\* All that wait for the earliest second, which has come.
OnTime(x) ==
    /\ late = {} /\ x \in Waiting /\ due[x] <= now
    /\ \A y \in Waiting : due[x] <= due[y]
    /\ Call({y \in Waiting : due[y] = due[x]})

\* Some of those whose second, the same for all, has come.
Anyhow(S) ==
    /\ late # {}
    /\ \A x, y \in S : due[x] = due[y] /\ due[x] <= now
    /\ Call(S)

Next ==
    \/ Tick \/ Done
    \/ \E x \in Tasks : Set(x) \/ OnTime(x) \/ \E t \in Seconds : Choose(x, t)
    \/ \E S \in SUBSET set : Anyhow(S)

Spec == Init /\ [][Next]_<<now, due, set, setting, late, calls>>
=============================================================================
