------------------------------ MODULE TimeTask ------------------------------
(***************************************************************************)
(* The timer every subsystem uses (core/utils/timetask.go): one goroutine  *)
(* runs start, any goroutine calls Add, a callback of the timer included.  *)
(*                                                                         *)
(* A task is one call of Add.  task and taskMap are one function from a    *)
(* second to the tasks due then; the list is its support.  start takes the *)
(* lock only to test the length and to delete: every other read of task[0] *)
(* is a step of its own, and may fall between the append and the end of    *)
(* the sort of an Add.  Up to Small entries sort.Sort moves task[0] once,  *)
(* to put the new head there; beyond, it uses task[0] for its pivots, and  *)
(* a read may find any entry.  Remove has no caller and is left out.       *)
(***************************************************************************)
EXTENDS Naturals, FiniteSets

CONSTANTS Tasks,
          Small,    \* entries up to which sort.Sort inserts: 12
          MaxTick,  \* bound: the last second a task is due
          MaxNow    \* bound: the clock goes this far, and on while start sleeps

ASSUME TimeAssumption == MaxTick \in Nat /\ MaxNow \in Nat /\ Small \in Nat

Ticks == 1..MaxTick

VARIABLES
    now,      \* time.Now().Unix()
    ticks,    \* second -> tasks due then
    inserted, \* tasks whose Add has appended
    sorter,   \* the task whose Add holds the lock and sorts
    late,     \* tasks not sorted in when their moment had come (history)
    misled,   \* start has read, during a sort, an entry that is not the head (history)
    adding,   \* tasks whose Add has unlocked and not yet notified
    update,   \* the one-slot channel is full
    pc,       \* position of start
    seen,     \* start's local now, 0 outside its scope
    target,   \* when its ticker fires, 0 when it has none
    due,      \* task -> second it was added for, 0 before
    ran       \* task -> times its function was called

vars == <<now, ticks, inserted, sorter, late, misled, adding, update, pc, seen, target, due, ran>>

Init ==
    /\ now = 0
    /\ ticks = [t \in Ticks |-> {}]
    /\ inserted = {}
    /\ sorter = {}
    /\ late = {}
    /\ misled = FALSE
    /\ adding = {}
    /\ update = FALSE
    /\ pc = "check"
    /\ seen = 0
    /\ target = 0
    /\ due = [x \in Tasks |-> 0]
    /\ ran = [x \in Tasks |-> 0]

\* Len: the seconds in the list.
Listed == {t \in Ticks : ticks[t] # {}}

\* The list without the entry that is being sorted in, unless there is no other;
\* and its first second.
Settled == {t \in Ticks : ticks[t] \ sorter # {}}
Sorted == IF Settled = {} THEN Listed ELSE Settled
IsHead(t) == t \in Sorted /\ \A u \in Sorted : t <= u

\* What an unlocked read of task[0] may find.
Front(t) == IsHead(t) \/ (sorter # {} /\ Cardinality(Listed) > Small /\ t \in Listed)

\* start reads the second t in task[0].
Reads(t) ==
    /\ Front(t)
    /\ misled' = (misled \/ ~IsHead(t))
-----------------------------------------------------------------------------
(* A caller of Add.                                                        *)

\* tick := time.Now().Unix() + some seconds, before Add.
Plan(x, t) ==
    /\ due[x] = 0 /\ t > now
    /\ due' = [due EXCEPT ![x] = t]
    /\ UNCHANGED <<now, ticks, inserted, sorter, late, misled, adding, update, pc, seen, target, ran>>

Planned == {x \in Tasks : due[x] # 0 /\ x \notin inserted}

\* Add takes the lock and appends the task to its second, or a new entry to the
\* list.  The clock may have overtaken the caller on its way here.
Insert(x) ==
    /\ x \in Planned /\ sorter = {}
    /\ late' = IF due[x] > now THEN late ELSE late \cup {x}
    /\ ticks' = [ticks EXCEPT ![due[x]] = @ \cup {x}]
    /\ inserted' = inserted \cup {x}
    /\ sorter' = {x}
    /\ UNCHANGED <<now, misled, adding, update, pc, seen, target, due, ran>>

\* The list is sorted, and Add unlocks.
Unlock(x) ==
    /\ x \in sorter
    /\ sorter' = {}
    /\ adding' = adding \cup {x}
    /\ UNCHANGED <<now, ticks, inserted, late, misled, update, pc, seen, target, due, ran>>

\* Mutant: the new task is not announced.
Notify_Silent(x) ==
    /\ x \in adding
    /\ adding' = adding \ {x}
    /\ UNCHANGED <<now, ticks, inserted, sorter, late, misled, update, pc, seen, target, due, ran>>

\* After Unlock: update <- false, or nothing when it is full.
Notify(x) ==
    /\ x \in adding
    /\ adding' = adding \ {x}
    /\ update' = TRUE
    /\ UNCHANGED <<now, ticks, inserted, sorter, late, misled, pc, seen, target, due, ran>>
-----------------------------------------------------------------------------
(* start.                                                                  *)

CheckLen ==
    /\ pc = "check" /\ sorter = {}
    /\ \/ Listed = {} /\ pc' = "idle"
       \/ Listed # {} /\ pc' = "read"
    /\ UNCHANGED <<now, ticks, inserted, sorter, late, misled, adding, update, seen, target, due, ran>>

\* The 24 hour ticker of the empty list.
IdleTicker ==
    /\ pc = "idle"
    /\ pc' = "check"
    /\ UNCHANGED <<now, ticks, inserted, sorter, late, misled, adding, update, seen, target, due, ran>>

\* case <-this.update, of either select.
Updated ==
    /\ pc \in {"idle", "sleep"} /\ update
    /\ update' = FALSE
    /\ pc' = "check" /\ target' = 0
    /\ UNCHANGED <<now, ticks, inserted, sorter, late, misled, adding, seen, due, ran>>

\* Mutant: the entry of the next second counts as due.
IsDue_Early(t) == t <= now + 1

\* Mutant: < for <=.
IsDue_Strict(t) == t < now
IsDue(t) == t <= now

\* now := time.Now().Unix() and the test of task[0].tick.
ReadHead ==
    /\ pc = "read"
    /\ seen' = now
    /\ \E t \in Ticks : Reads(t) /\ pc' = IF IsDue(t) THEN "run" ELSE "arm"
    /\ UNCHANGED <<now, ticks, inserted, sorter, late, adding, update, target, due, ran>>

\* NewTicker(task[0].tick - now), task[0] read again: it panics unless positive.
ArmTicker ==
    /\ pc = "arm" /\ seen' = 0
    /\ \E t \in Ticks :
          /\ Reads(t)
          /\ \/ t <= seen /\ pc' = "panic" /\ UNCHANGED target
             \/ t > seen /\ pc' = "sleep" /\ target' = now + (t - seen)
    /\ UNCHANGED <<now, ticks, inserted, sorter, late, adding, update, due, ran>>

TickerFires ==
    /\ pc = "sleep" /\ target <= now
    /\ pc' = "run" /\ target' = 0
    /\ UNCHANGED <<now, ticks, inserted, sorter, late, misled, adding, update, seen, due, ran>>

\* Mutant: only one task of the second is run.
DueTasks_First(t) == {CHOOSE x \in ticks[t] : TRUE}
DueTasks(t) == ticks[t]

\* The function of every task that task[0] holds now.
RunHead ==
    /\ pc = "run"
    /\ \E t \in Ticks :
          /\ Reads(t)
          /\ ran' = [x \in Tasks |-> IF x \in DueTasks(t) THEN ran[x] + 1 ELSE ran[x]]
    /\ pc' = "delete" /\ seen' = 0
    /\ UNCHANGED <<now, ticks, inserted, sorter, late, adding, update, target, due>>

\* Under the lock: task[0], whichever it is by now, is deleted.
DeleteHead ==
    /\ pc = "delete" /\ sorter = {}
    /\ \E t \in Ticks : IsHead(t) /\ ticks' = [ticks EXCEPT ![t] = {}]
    /\ pc' = "check"
    /\ UNCHANGED <<now, inserted, sorter, late, misled, adding, update, seen, target, due, ran>>

\* Time passes.
Clock ==
    /\ now < MaxNow \/ (pc = "sleep" /\ now < target)
    /\ now' = now + 1
    /\ late' = late \cup {x \in sorter : due[x] <= now + 1}
    /\ UNCHANGED <<ticks, inserted, sorter, misled, adding, update, pc, seen, target, due, ran>>
-----------------------------------------------------------------------------
Start == CheckLen \/ Updated \/ ReadHead \/ ArmTicker \/ TickerFires \/ RunHead \/ DeleteHead
Add == \E x \in Tasks : Notify(x) \/ Unlock(x) \/ Insert(x) \/ \E t \in Ticks : Plan(x, t)
Next == Start \/ IdleTicker \/ Add \/ Clock
Spec == Init /\ [][Next]_vars

\* start and the callers of Add are goroutines; the 24 hour ticker is not relied on.
FairSpec == /\ Spec /\ WF_vars(Start) /\ WF_vars(Clock) 
            /\ \A x \in Tasks : WF_vars(Unlock(x)) /\ WF_vars(Notify(x))
-----------------------------------------------------------------------------
TypeOK ==
    /\ now \in Nat /\ seen \in Nat /\ target \in Nat
    /\ ticks \in [Ticks -> SUBSET Tasks]
    /\ inserted \subseteq Tasks /\ late \subseteq inserted /\ sorter \subseteq inserted /\ adding \subseteq Tasks
    /\ update \in BOOLEAN /\ misled \in BOOLEAN
    /\ pc \in {"check", "idle", "read", "arm", "sleep", "run", "delete", "panic"}
    /\ due \in [Tasks -> 0..MaxTick]
    /\ ran \in [Tasks -> Nat]

\* No function is called before the moment it was added for.  timetask.go:100 says
\* that tick is the time of the execution; with more than Small entries start may
\* read a later second at task[0] while an Add sorts, when its ticker fires.
Timely == \A x \in Tasks : ran[x] > 0 => due[x] # 0 /\ due[x] <= now

\* Unless start has been misled by a sort, no function is called early, whatever
\* head the goroutine finds when its ticker fires, and however late a caller is.
NotEarly == ~misled => Timely

\* A listed task is listed under the second it was added for.
Filed == \A t \in Ticks : \A x \in ticks[t] : due[x] = t /\ x \in inserted

\* Only a task with a moment is inserted, and by one Add at a time.
Entered ==
    /\ \A x \in inserted : due[x] # 0
    /\ \A x, y \in sorter : x = y
    /\ \A x \in sorter : x \in late \/ due[x] > now

\* The list is not empty where start reads task[0].
Filled == pc \in {"read", "arm", "sleep", "run", "delete"} => Listed # {}

\* Where start stands: what it has seen of the head still bounds the head.
Position ==
    /\ pc = "sleep" => \E t \in Sorted : t <= target
    /\ pc \in {"run", "delete"} => \E t \in Sorted : t <= now

\* The inductive invariant that needs nothing of the callers.
TimerInv == TypeOK /\ Filed /\ Entered /\ Filled /\ seen <= now /\ (~misled => Position /\ Timely)

\* The callers have been prompt, every task was sorted in before its moment, and
\* start was not misled by a sort.
Prompt == late = {} /\ ~misled

\* start never indexes an empty list, although it reads task[0] outside the lock
\* and more than once; and unless a caller was late or a sort misled it, it never
\* makes a ticker whose interval is not positive.
NoPanic ==
    /\ Prompt => pc # "panic"
    /\ pc \in {"read", "arm", "run", "delete"} => Listed # {}

\* The head that was not due when it was read is still not due at that moment.
Armed == pc = "arm" => \A t \in Listed : t > seen

\* A listed task has not run, but for the head between its run and its deletion.
Accounted ==
    \A x \in Tasks :
        ran[x] = IF x \notin inserted \/ (x \in ticks[due[x]] /\ ~(pc = "delete" /\ IsHead(due[x])))
                 THEN 0 ELSE 1

\* The inductive invariant of prompt callers.
PromptInv == TimerInv /\ (Prompt => pc # "panic" /\ Armed /\ Accounted)

\* Add and start keep what Alarm promises for as long as no read of task[0] is misled
\* by a sort: with prompt callers the tasks of a second are called together, once,
\* and in the order of their seconds; without, still none before its second.
Abstract == INSTANCE Alarm WITH Seconds <- Ticks, set <- inserted, setting <- sorter, calls <- ran
KeepsTime == Abstract!Init /\ [][Abstract!Next \/ misled']_<<now, due, inserted, sorter, late, ran>>

\* A task that has left the list has been executed.
Executed == \A x \in Tasks : x \in inserted /\ x \notin ticks[due[x]] => ran[x] > 0

\* With prompt callers, and unless a sort has misled start, every task that has left
\* the list was executed, and none twice: what Add inserts between the run of the
\* head and its deletion is not deleted in its place.
ExecutedOnce == Prompt => Executed /\ \A x \in Tasks : ran[x] <= 1

\* No entry stays in the list for ever, however the notifications and the sorts
\* fall, unless start has panicked.
EveryTickLeaves == \A t \in Ticks : ticks[t] # {} ~> (ticks[t] = {} \/ pc = "panic")
=============================================================================
