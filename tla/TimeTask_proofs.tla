--------------------------- MODULE TimeTask_proofs ---------------------------
(***************************************************************************)
(* Proofs about the timer.  TimerInv is inductive whatever the callers do; *)
(* PromptInv adds what holds while tasks are sorted in before their moment *)
(* and no sort has misled start, and carries the refinement of Alarm.      *)
(***************************************************************************)
EXTENDS TimeTask, TLAPS

\* The type of the state is preserved by every step.
LEMMA TypeStep == TypeOK /\ [Next]_vars => TypeOK'
<1> SUFFICES ASSUME TypeOK, [Next]_vars PROVE TypeOK' OBVIOUS
<1> USE DEF TypeOK, Ticks
<1>1. CASE CheckLen BY <1>1, TimeAssumption DEF CheckLen
<1>2. CASE IdleTicker BY <1>2, TimeAssumption DEF IdleTicker
<1>3. CASE Updated BY <1>3, TimeAssumption DEF Updated
<1>4. CASE ReadHead BY <1>4, TimeAssumption DEF ReadHead, Reads
<1>5. CASE ArmTicker BY <1>5, TimeAssumption DEF ArmTicker, Reads
<1>6. CASE TickerFires BY <1>6, TimeAssumption DEF TickerFires
<1>7. CASE RunHead BY <1>7, TimeAssumption DEF RunHead, Reads
<1>8. CASE DeleteHead BY <1>8, TimeAssumption DEF DeleteHead
<1>9. CASE Clock BY <1>9, TimeAssumption DEF Clock
<1>10. ASSUME NEW x \in Tasks, Notify(x) PROVE TypeOK' BY <1>10 DEF Notify
<1>11. ASSUME NEW x \in Tasks, Insert(x) PROVE TypeOK' BY <1>11, TimeAssumption DEF Insert, Planned
<1>12. ASSUME NEW x \in Tasks, NEW t \in Ticks, Plan(x, t) PROVE TypeOK' BY <1>12, TimeAssumption DEF Plan
<1>13. CASE UNCHANGED vars BY <1>13 DEF vars
<1>14. ASSUME NEW x \in Tasks, Unlock(x) PROVE TypeOK' BY <1>14 DEF Unlock
<1>q. QED BY <1>14, <1>1, <1>2, <1>3, <1>4, <1>5, <1>6, <1>7, <1>8, <1>9, <1>10, <1>11, <1>12, <1>13 DEF Next, Start, Add

\* Every step keeps each listed task under its own second.
LEMMA FiledStep == TypeOK /\ Filed /\ TypeOK' /\ [Next]_vars => Filed'
<1> SUFFICES ASSUME TypeOK, Filed, TypeOK', [Next]_vars PROVE Filed' OBVIOUS
<1>1. CASE CheckLen BY <1>1, TimeAssumption DEF TypeOK, Filed, Ticks, CheckLen
<1>2. CASE IdleTicker BY <1>2, TimeAssumption DEF TypeOK, Filed, Ticks, IdleTicker
<1>3. CASE Updated BY <1>3, TimeAssumption DEF TypeOK, Filed, Ticks, Updated
<1>4. CASE ReadHead BY <1>4, TimeAssumption DEF TypeOK, Filed, Ticks, ReadHead
<1>5. CASE ArmTicker BY <1>5, TimeAssumption DEF TypeOK, Filed, Ticks, ArmTicker
<1>6. CASE TickerFires BY <1>6, TimeAssumption DEF TypeOK, Filed, Ticks, TickerFires
<1>7. CASE RunHead BY <1>7, TimeAssumption DEF TypeOK, Filed, Ticks, RunHead
<1>8. CASE DeleteHead BY <1>8, TimeAssumption DEF TypeOK, Filed, Ticks, DeleteHead
<1>9. CASE Clock BY <1>9, TimeAssumption DEF TypeOK, Filed, Ticks, Clock
<1>10. ASSUME NEW x \in Tasks, Notify(x) PROVE Filed' BY <1>10, TimeAssumption DEF TypeOK, Filed, Ticks, Notify
<1>11. ASSUME NEW x \in Tasks, Insert(x) PROVE Filed' BY <1>11, TimeAssumption DEF TypeOK, Filed, Ticks, Insert, Planned
<1>12. ASSUME NEW x \in Tasks, NEW t \in Ticks, Plan(x, t) PROVE Filed' BY <1>12, TimeAssumption DEF TypeOK, Filed, Ticks, Plan
<1>13. CASE UNCHANGED vars BY <1>13, TimeAssumption DEF TypeOK, Filed, Ticks, vars
<1>14. ASSUME NEW x \in Tasks, Unlock(x) PROVE Filed' BY <1>14, TimeAssumption DEF TypeOK, Filed, Ticks, Unlock
<1>q. QED BY <1>14, <1>1, <1>2, <1>3, <1>4, <1>5, <1>6, <1>7, <1>8, <1>9, <1>10, <1>11, <1>12, <1>13 DEF Next, Start, Add

\* A task is inserted only after its caller has chosen its moment.
LEMMA EnteredStep == TypeOK /\ Entered /\ TypeOK' /\ [Next]_vars => Entered'
<1> SUFFICES ASSUME TypeOK, Entered, TypeOK', [Next]_vars PROVE Entered' OBVIOUS
<1>1. CASE CheckLen BY <1>1, TimeAssumption DEF TypeOK, Entered, Ticks, CheckLen
<1>2. CASE IdleTicker BY <1>2, TimeAssumption DEF TypeOK, Entered, Ticks, IdleTicker
<1>3. CASE Updated BY <1>3, TimeAssumption DEF TypeOK, Entered, Ticks, Updated
<1>4. CASE ReadHead BY <1>4, TimeAssumption DEF TypeOK, Entered, Ticks, ReadHead
<1>5. CASE ArmTicker BY <1>5, TimeAssumption DEF TypeOK, Entered, Ticks, ArmTicker
<1>6. CASE TickerFires BY <1>6, TimeAssumption DEF TypeOK, Entered, Ticks, TickerFires
<1>7. CASE RunHead BY <1>7, TimeAssumption DEF TypeOK, Entered, Ticks, RunHead
<1>8. CASE DeleteHead BY <1>8, TimeAssumption DEF TypeOK, Entered, Ticks, DeleteHead
<1>9. CASE Clock BY <1>9, TimeAssumption DEF TypeOK, Entered, Ticks, Clock
<1>10. ASSUME NEW x \in Tasks, Notify(x) PROVE Entered' BY <1>10, TimeAssumption DEF TypeOK, Entered, Ticks, Notify
<1>11. ASSUME NEW x \in Tasks, Insert(x) PROVE Entered' BY <1>11, TimeAssumption DEF TypeOK, Entered, Ticks, Insert, Planned
<1>12. ASSUME NEW x \in Tasks, NEW t \in Ticks, Plan(x, t) PROVE Entered' BY <1>12, TimeAssumption DEF TypeOK, Entered, Ticks, Plan
<1>13. CASE UNCHANGED vars BY <1>13, TimeAssumption DEF TypeOK, Entered, Ticks, vars
<1>14. ASSUME NEW x \in Tasks, Unlock(x) PROVE Entered' BY <1>14, TimeAssumption DEF TypeOK, Entered, Ticks, Unlock
<1>q. QED BY <1>14, <1>1, <1>2, <1>3, <1>4, <1>5, <1>6, <1>7, <1>8, <1>9, <1>10, <1>11, <1>12, <1>13 DEF Next, Start, Add

\* Steps that do not touch the list leave its head where it was.
LEMMA SameList ==
    UNCHANGED <<ticks, sorter>> => Listed' = Listed /\ Sorted' = Sorted /\ \A t : IsHead(t)' <=> IsHead(t)
BY DEF Listed, Settled, Sorted, IsHead

\* While no Add sorts, start reads the whole list.
LEMMA AllSorted == sorter = {} => Sorted = Listed
BY DEF Listed, Settled, Sorted

\* Only a second of the list can be read, and something can where the list is not empty.
LEMMA SortedListed == Sorted \subseteq Listed /\ Listed \subseteq Ticks /\ (Listed # {} => Sorted # {})
BY DEF Listed, Settled, Sorted

\* The append hides the new entry from start.
LEMMA InsertHides ==
    ASSUME TypeOK, Filed, NEW x \in Tasks, Insert(x)
    PROVE  /\ due[x] \in Ticks /\ Sorted = Listed
           /\ Listed' = Listed \cup {due[x]}
           /\ Listed # {} => Sorted' = Sorted
<1>1. due[x] \in Ticks BY DEF Insert, Planned, TypeOK, Ticks
<1>2. ticks' = [ticks EXCEPT ![due[x]] = @ \cup {x}] /\ sorter' = {x} /\ sorter = {} /\ x \notin inserted
  BY DEF Insert, Planned
<1>3. Listed' = Listed \cup {due[x]} BY <1>1, <1>2 DEF Listed, TypeOK
<1>4. Sorted = Listed BY <1>2, AllSorted
<1>5. ASSUME NEW t \in Ticks PROVE ticks'[t] \ {x} = ticks[t] BY <1>1, <1>2 DEF TypeOK, Filed
<1>6. Settled' = Listed BY <1>2, <1>5 DEF Settled, Listed
<1>q. QED BY <1>1, <1>3, <1>4, <1>6 DEF Sorted

\* The end of the sort shows the new entry to start, and hides none.
LEMMA UnlockShows ==
    ASSUME TypeOK, Filed, Entered, NEW x \in Tasks, Unlock(x)
    PROVE  /\ Listed' = Listed /\ Sorted' = Listed
           /\ \A t \in Listed : t \in Sorted \/ t = due[x]
<1>1. sorter = {x} BY DEF Unlock, Entered, TypeOK
<1>2. sorter' = {} /\ ticks' = ticks BY DEF Unlock
<1>3. Listed' = Listed /\ Sorted' = Listed BY <1>2 DEF Listed, Settled, Sorted
<1>4. ASSUME NEW t \in Listed, t \notin Settled PROVE t = due[x] BY <1>1, <1>4 DEF Listed, Settled, Filed
<1>q. QED BY <1>3, <1>4 DEF Sorted

\* Nothing that start can read leaves the list but by its own hand.
LEMMA SortedGrows == TypeOK /\ Filed /\ Entered /\ [Next]_vars => DeleteHead \/ (Sorted \subseteq Sorted' /\ Listed \subseteq Listed')
<1> SUFFICES ASSUME TypeOK, Filed, Entered, [Next]_vars, ~DeleteHead
             PROVE Sorted \subseteq Sorted' /\ Listed \subseteq Listed' OBVIOUS
<1>1. CASE UNCHANGED <<ticks, sorter>> BY <1>1, SameList
<1>2. ASSUME NEW x \in Tasks, Insert(x) PROVE Sorted \subseteq Sorted' /\ Listed \subseteq Listed'
  BY <1>2, InsertHides, SortedListed
<1>3. ASSUME NEW x \in Tasks, Unlock(x) PROVE Sorted \subseteq Sorted' /\ Listed \subseteq Listed'
  BY <1>3, UnlockShows, SortedListed
<1>q. QED BY <1>1, <1>2, <1>3 DEF Next, Start, Add, Plan, Notify, CheckLen, IdleTicker, Updated, ReadHead, ArmTicker,
               TickerFires, RunHead, Clock, vars

\* Only start empties the list, and only before it tests the length again; its clock
\* reading is in the past.
LEMMA FilledStep == TypeOK /\ Filed /\ Entered /\ Filled /\ seen <= now /\ [Next]_vars => Filled' /\ (seen <= now)'
<1> SUFFICES ASSUME TypeOK, Filed, Entered, Filled, seen <= now, [Next]_vars PROVE Filled' /\ (seen <= now)' OBVIOUS
<1>1. CASE DeleteHead BY <1>1 DEF DeleteHead, Filled
<1>2. CASE ~DeleteHead
  <2>1. Listed # {} => Listed' # {} BY <1>2, SortedGrows
  <2>2. (seen <= now)'
    BY DEF TypeOK, Next, Start, Add, Plan, Insert, Unlock, Notify, CheckLen, IdleTicker, Updated, ReadHead, ArmTicker,
           TickerFires, RunHead, DeleteHead, Clock, vars
  <2>3. pc' \in {"read", "arm", "sleep", "run", "delete"} =>
          pc \in {"read", "arm", "sleep", "run", "delete"} \/ Listed # {}
    BY <1>2 DEF Next, Start, Add, Plan, Insert, Unlock, Notify, CheckLen, IdleTicker, Updated, ReadHead, ArmTicker,
           TickerFires, RunHead, Clock, vars
  <2>q. QED BY <2>1, <2>2, <2>3 DEF Filled
<1>q. QED BY <1>1, <1>2

\* What start has seen of the list still holds when it goes on, unless a sort has misled it.
LEMMA PositionStep ==
    TypeOK /\ Filed /\ Entered /\ seen <= now /\ Position /\ TypeOK' /\ ~misled' /\ [Next]_vars => Position'
<1> SUFFICES ASSUME TypeOK, Filed, Entered, seen <= now, Position, TypeOK', ~misled', [Next]_vars PROVE Position' OBVIOUS
<1>0. Sorted \subseteq Ticks BY SortedListed
<1>1. CASE CheckLen BY <1>1 DEF CheckLen, Position
<1>2. CASE IdleTicker BY <1>2 DEF IdleTicker, Position
<1>3. CASE Updated BY <1>3 DEF Updated, Position
<1>4. CASE ReadHead
  <2>1. PICK t \in Ticks : IsHead(t) /\ pc' = IF t <= now THEN "run" ELSE "arm"
    BY <1>4 DEF ReadHead, Reads, IsDue
  <2>2. Sorted' = Sorted /\ now' = now BY <1>4, SameList DEF ReadHead
  <2>q. QED BY <2>1, <2>2 DEF Position, IsHead
<1>5. CASE ArmTicker
  <2>1. PICK t \in Ticks : IsHead(t) /\ (pc' = "panic" \/ (pc' = "sleep" /\ target' = now + (t - seen)))
    BY <1>5 DEF ArmTicker, Reads
  <2>2. Sorted' = Sorted BY <1>5, SameList DEF ArmTicker
  <2>3. t <= now + (t - seen) BY DEF TypeOK, Ticks
  <2>q. QED BY <2>1, <2>2, <2>3 DEF Position, IsHead
<1>6. CASE TickerFires
  <2>1. Sorted' = Sorted /\ now' = now /\ pc = "sleep" /\ target <= now /\ pc' = "run" BY <1>6, SameList DEF TickerFires
  <2>2. PICK t \in Sorted : t <= target BY <2>1 DEF Position
  <2>3. t <= now BY <1>0, <2>1, <2>2 DEF TypeOK, Ticks
  <2>q. QED BY <2>1, <2>2, <2>3 DEF Position
<1>7. CASE RunHead
  <2>1. Sorted' = Sorted /\ now' = now /\ pc = "run" /\ pc' = "delete" BY <1>7, SameList DEF RunHead
  <2>q. QED BY <2>1 DEF Position
<1>8. CASE DeleteHead BY <1>8 DEF DeleteHead, Position
<1>9. CASE UNCHANGED <<pc, target>> /\ now' \in {now, now + 1} /\ ~DeleteHead
  <2>1. Sorted \subseteq Sorted' BY <1>9, SortedGrows
  <2>2. \A t \in Sorted : t <= now => t <= now' BY <1>9, <1>0 DEF TypeOK, Ticks
  <2>q. QED BY <1>9, <2>1, <2>2 DEF Position
<1>q. QED BY <1>1, <1>2, <1>3, <1>4, <1>5, <1>6, <1>7, <1>8, <1>9
          DEF Next, Start, Add, Plan, Insert, Unlock, Notify, Clock, vars

\* The head that is run is due, unless a sort has misled start.
LEMMA TimelyStep == TypeOK /\ Filed /\ Position /\ Timely /\ TypeOK' /\ ~misled' /\ [Next]_vars => Timely'
<1> SUFFICES ASSUME TypeOK, Filed, Position, Timely, TypeOK', ~misled', [Next]_vars PROVE Timely' OBVIOUS
<1>1. CASE RunHead
  <2>1. PICK t \in Ticks : IsHead(t) /\ ran' = [x \in Tasks |-> IF x \in ticks[t] THEN ran[x] + 1 ELSE ran[x]]
    BY <1>1 DEF RunHead, Reads, DueTasks
  <2>2. t <= now BY <1>1, <2>1, SortedListed DEF RunHead, Position, IsHead, TypeOK, Ticks
  <2>3. ASSUME NEW x \in Tasks, ran'[x] > 0 PROVE due[x] # 0 /\ due[x] <= now
    <3>1. CASE x \in ticks[t] BY <3>1, <2>2 DEF Filed, Ticks, TypeOK
    <3>2. CASE x \notin ticks[t] BY <3>2, <2>1, <2>3 DEF Timely
    <3>q. QED BY <3>1, <3>2
  <2>q. QED BY <1>1, <2>3 DEF RunHead, Timely
<1>2. CASE UNCHANGED <<due, ran>> /\ now' \in {now, now + 1} BY <1>2 DEF TypeOK, Timely
<1>3. ASSUME NEW x \in Tasks, NEW t \in Ticks, Plan(x, t) PROVE Timely' BY <1>3 DEF TypeOK, Timely, Plan
<1>q. QED BY <1>1, <1>2, <1>3 DEF Next, Start, Add, Insert, Unlock, Notify, CheckLen, IdleTicker, Updated, ReadHead,
               ArmTicker, TickerFires, DeleteHead, Clock, vars

\* start once misled stays so.
LEMMA MisledStays == TypeOK /\ [Next]_vars /\ ~misled' => ~misled
BY DEF TypeOK, Next, Start, Add, Plan, Insert, Unlock, Notify, CheckLen, IdleTicker, Updated, ReadHead, ArmTicker,
       TickerFires, RunHead, DeleteHead, Clock, Reads, vars

\* TimerInv is preserved by every step.
LEMMA TimerStep == TimerInv /\ [Next]_vars => TimerInv'
BY TypeStep, FiledStep, EnteredStep, FilledStep, PositionStep, TimelyStep, MisledStays DEF TimerInv

\* The initial state satisfies TimerInv.
LEMMA InitTimer == Init => TimerInv
<1> SUFFICES ASSUME Init PROVE TimerInv OBVIOUS
<1>1. TypeOK
  <2>1. update \in BOOLEAN BY DEF Init
  <2>2. due \in [Tasks -> 0..MaxTick] BY TimeAssumption DEF Init
  <2>3. ran \in [Tasks -> Nat] BY DEF Init
  <2>4. ticks \in [Ticks -> SUBSET Tasks] BY DEF Init
  <2>q. QED BY <2>1, <2>2, <2>3, <2>4 DEF Init, TypeOK
<1>2. Filed /\ Entered BY DEF Init, Filed, Entered
<1>3. Filled /\ seen <= now BY DEF Init, Filled
<1>5. Position BY DEF Init, Position
<1>4. Timely BY DEF Init, Timely
<1>q. QED BY <1>1, <1>2, <1>3, <1>4, <1>5 DEF TimerInv

\* TimerInv is inductive, and so holds always, however late the callers are.
LEMMA TimerAlways == Spec => []TimerInv
<1>1. Init => TimerInv BY InitTimer
<1>2. TimerInv /\ [Next]_vars => TimerInv' BY TimerStep
<1>q. QED BY <1>1, <1>2, PTL DEF Spec

\* start (timetask.go) never calls a function before the moment its caller passed
\* to Add, although it runs whatever head it finds when its ticker fires, and reads
\* it while Adds append and sort: unless it has read, during the sort of a list of
\* more than Small entries, one that is not the head.
THEOREM NeverEarly == Spec => []NotEarly
<1>1. TimerInv => NotEarly BY DEF TimerInv, NotEarly
<1>q. QED BY <1>1, TimerAlways, PTL

\* While callers are prompt and no sort misleads start, the head that it arms for is
\* not due when it was read.
LEMMA ArmedStep == TimerInv /\ TypeOK' /\ Prompt' /\ pc # "panic" /\ Armed /\ [Next]_vars => pc' # "panic" /\ Armed'
<1> SUFFICES ASSUME TimerInv, TypeOK', Prompt', pc # "panic", Armed, [Next]_vars PROVE pc' # "panic" /\ Armed' OBVIOUS
<1>0. Sorted \subseteq Listed /\ Listed \subseteq Ticks BY SortedListed
<1>t. TypeOK /\ Filed /\ Entered BY DEF TimerInv
<1>1. CASE CheckLen BY <1>1 DEF CheckLen, Armed
<1>2. CASE IdleTicker BY <1>2 DEF IdleTicker, Armed
<1>3. CASE Updated BY <1>3 DEF Updated, Armed
<1>4. CASE ReadHead
  <2>1. PICK t \in Ticks : IsHead(t) /\ pc' = IF t <= now THEN "run" ELSE "arm"
    BY <1>4 DEF ReadHead, Reads, IsDue, Prompt
  <2>2. Listed' = Listed /\ seen' = now BY <1>4, SameList DEF ReadHead
  <2>3. ASSUME t > now, NEW u \in Listed PROVE u > now
    <3>1. CASE u \in Sorted BY <3>1, <2>1, <2>3, <1>0, <1>t DEF IsHead, TypeOK, Ticks
    <3>2. CASE u \notin Sorted
      <4>1. PICK x \in sorter : x \in ticks[u] BY <3>2 DEF Listed, Settled, Sorted
      <4>2. due[x] = u /\ x \notin late BY <4>1, <1>0, <1>4 DEF TimerInv, Filed, Prompt, ReadHead
      <4>q. QED BY <4>1, <4>2, <1>t DEF Entered
    <3>q. QED BY <3>1, <3>2
  <2>q. QED BY <2>1, <2>2, <2>3, <1>t DEF Armed, TypeOK, Ticks
<1>5. CASE ArmTicker
  <2>1. PICK t \in Sorted : (t <= seen /\ pc' = "panic") \/ (t > seen /\ pc' = "sleep")
    BY <1>5 DEF ArmTicker, Reads, Prompt, IsHead
  <2>2. t > seen BY <2>1, <1>0, <1>5 DEF Armed, ArmTicker
  <2>3. ~(t <= seen) BY <2>2, <2>1, <1>0, <1>t DEF TypeOK, Ticks
  <2>q. QED BY <2>1, <2>3 DEF Armed
<1>6. CASE TickerFires BY <1>6 DEF TickerFires, Armed
<1>7. CASE RunHead BY <1>7 DEF RunHead, Armed
<1>8. CASE DeleteHead BY <1>8 DEF DeleteHead, Armed
<1>9. CASE Clock BY <1>9, SameList DEF Clock, Armed, Listed
<1>10. ASSUME NEW x \in Tasks, Notify(x) PROVE pc' # "panic" /\ Armed' BY <1>10, SameList DEF Notify, Armed
<1>11. ASSUME NEW x \in Tasks, Insert(x) PROVE pc' # "panic" /\ Armed'
  <2>1. Listed' = Listed \cup {due[x]} /\ due[x] \in Ticks BY <1>11, <1>t, InsertHides
  <2>2. due[x] > now /\ UNCHANGED <<pc, seen>> BY <1>11 DEF Insert, Prompt
  <2>3. due[x] > seen BY <2>1, <2>2, <1>t DEF TimerInv, TypeOK, Ticks
  <2>q. QED BY <2>1, <2>2, <2>3 DEF Armed
<1>14. ASSUME NEW x \in Tasks, Unlock(x) PROVE pc' # "panic" /\ Armed' BY <1>14, <1>t, UnlockShows DEF Unlock, Armed
<1>12. ASSUME NEW x \in Tasks, NEW t \in Ticks, Plan(x, t) PROVE pc' # "panic" /\ Armed' BY <1>12, SameList DEF Plan, Armed
<1>13. CASE UNCHANGED vars BY <1>13, SameList DEF vars, Armed
<1>q. QED BY <1>1, <1>2, <1>3, <1>4, <1>5, <1>6, <1>7, <1>8, <1>9, <1>10, <1>11, <1>12, <1>13, <1>14 DEF Next, Start, Add

\* While callers are prompt and no sort misleads start, every task is accounted for: a task
\* is inserted behind the head that is being run, so that head is the one that is deleted.
LEMMA AccountedStep == TimerInv /\ Accounted /\ TypeOK' /\ Prompt' /\ [Next]_vars => Accounted'
<1> SUFFICES ASSUME TimerInv, Accounted, TypeOK', Prompt', [Next]_vars PROVE Accounted' OBVIOUS
<1> USE DEF TimerInv
<1>0. Sorted \subseteq Listed /\ Listed \subseteq Ticks BY SortedListed
<1>m. ~misled BY MisledStays DEF Prompt
<1>a. ASSUME UNCHANGED <<ticks, inserted, due, ran>>, pc # "delete", pc' # "delete" PROVE Accounted'
  BY <1>a DEF Accounted
<1>b. ASSUME UNCHANGED <<ticks, sorter, inserted, due, ran, pc>> PROVE Accounted'
  BY <1>b, SameList DEF Accounted
<1>1. CASE CheckLen BY <1>1, <1>a DEF CheckLen
<1>2. CASE IdleTicker BY <1>2, <1>a DEF IdleTicker
<1>3. CASE Updated BY <1>3, <1>a DEF Updated
<1>4. CASE ReadHead BY <1>4, <1>a DEF ReadHead
<1>5. CASE ArmTicker BY <1>5, <1>a DEF ArmTicker
<1>6. CASE TickerFires BY <1>6, <1>a DEF TickerFires
<1>7. CASE RunHead
  <2>1. PICK t \in Ticks : IsHead(t) /\ ran' = [x \in Tasks |-> IF x \in ticks[t] THEN ran[x] + 1 ELSE ran[x]]
    BY <1>7 DEF RunHead, Reads, Prompt, DueTasks
  <2>2. UNCHANGED <<ticks, sorter, inserted, due>> /\ pc' = "delete" /\ pc = "run" BY <1>7 DEF RunHead
  <2>3. \A u : IsHead(u)' <=> u = t
    <3>1. \A u : IsHead(u) => u = t BY <2>1, <1>0 DEF IsHead, Ticks
    <3>q. QED BY <3>1, <2>1, <2>2, SameList
  <2>4. ASSUME NEW x \in Tasks
        PROVE  ran'[x] = IF x \notin inserted \/ (x \in ticks[due[x]] /\ ~(due[x] = t)) THEN 0 ELSE 1
    <3>1. CASE x \in ticks[t]
      <4>1. due[x] = t /\ x \in inserted BY <3>1 DEF Filed
      <4>2. ran[x] = 0 BY <4>1, <3>1, <2>2 DEF Accounted
      <4>q. QED BY <4>1, <4>2, <3>1, <2>1
    <3>2. CASE x \notin ticks[t]
      <4>1. ran'[x] = ran[x] BY <3>2, <2>1
      <4>2. x \in inserted /\ x \in ticks[due[x]] => due[x] # t BY <3>2
      <4>q. QED BY <4>1, <4>2, <2>2, <3>2 DEF Accounted
    <3>q. QED BY <3>1, <3>2
  <2>q. QED BY <2>2, <2>3, <2>4 DEF Accounted
<1>8. CASE DeleteHead
  <2>1. PICK t \in Ticks : IsHead(t) /\ ticks' = [ticks EXCEPT ![t] = {}] BY <1>8 DEF DeleteHead
  <2>2. UNCHANGED <<inserted, due, ran>> /\ pc' = "check" /\ pc = "delete" BY <1>8 DEF DeleteHead
  <2>3. \A u : IsHead(u) <=> u = t
    <3>1. \A u : IsHead(u) => u = t BY <2>1, <1>0 DEF IsHead, Ticks
    <3>q. QED BY <3>1, <2>1
  <2>4. ASSUME NEW x \in Tasks
        PROVE  ran[x] = IF x \notin inserted \/ x \in ticks'[due[x]] THEN 0 ELSE 1
    <3>1. ran[x] = IF x \notin inserted \/ (x \in ticks[due[x]] /\ due[x] # t) THEN 0 ELSE 1
      BY <2>2, <2>3 DEF Accounted
    <3>2. CASE due[x] = t BY <3>1, <3>2, <2>1 DEF TypeOK
    <3>3. CASE due[x] # t BY <3>1, <3>3, <2>1 DEF TypeOK
    <3>q. QED BY <3>2, <3>3
  <2>q. QED BY <2>2, <2>4 DEF Accounted
<1>9. CASE Clock BY <1>9, <1>b DEF Clock
<1>10. ASSUME NEW x \in Tasks, Notify(x) PROVE Accounted' BY <1>10, <1>b DEF Notify
<1>11. ASSUME NEW x \in Tasks, Insert(x) PROVE Accounted'
  <2>1. x \notin inserted /\ due[x] \in Ticks /\ due[x] > now
    BY <1>11 DEF Insert, Planned, Prompt, TypeOK, Ticks
  <2>2. ticks' = [ticks EXCEPT ![due[x]] = @ \cup {x}] /\ inserted' = inserted \cup {x} /\ UNCHANGED <<pc, due, ran>>
    BY <1>11 DEF Insert
  <2>3. ASSUME pc = "delete", NEW u PROVE IsHead(u)' <=> IsHead(u)
    <3>1. Sorted' = Sorted BY <1>11, <2>3, InsertHides DEF Filled
    <3>q. QED BY <3>1 DEF IsHead
  <2>4. ASSUME pc = "delete" PROVE ~IsHead(due[x])
    <3>1. PICK h \in Sorted : h <= now BY <2>4, <1>m DEF Position
    <3>2. h < due[x] /\ h \in Nat /\ due[x] \in Nat BY <3>1, <2>1, <1>0 DEF TypeOK, Ticks
    <3>q. QED BY <3>1, <3>2 DEF IsHead
  <2>5. ASSUME NEW y \in Tasks PROVE
          ran[y] = IF y \notin inserted' \/ (y \in ticks'[due[y]] /\ ~(pc = "delete" /\ IsHead(due[y]))) THEN 0 ELSE 1
    <3>1. ran[y] = IF y \notin inserted \/ (y \in ticks[due[y]] /\ ~(pc = "delete" /\ IsHead(due[y]))) THEN 0 ELSE 1
      BY DEF Accounted
    <3>2. CASE y = x
      <4>1. ran[x] = 0 BY <3>1, <3>2, <2>1
      <4>2. x \in ticks'[due[x]] BY <2>1, <2>2 DEF TypeOK
      <4>q. QED BY <4>1, <4>2, <3>2, <2>4
    <3>3. CASE y # x
      <4>1. y \in inserted' <=> y \in inserted BY <2>2, <3>3
      <4>2. ASSUME y \in inserted PROVE y \in ticks'[due[y]] <=> y \in ticks[due[y]]
        BY <2>1, <2>2, <3>3 DEF TypeOK, Ticks
      <4>q. QED BY <3>1, <4>1, <4>2
    <3>q. QED BY <3>2, <3>3
  <2>q. QED BY <2>2, <2>3, <2>5 DEF Accounted
<1>12. ASSUME NEW x \in Tasks, NEW t \in Ticks, Plan(x, t) PROVE Accounted'
  <2>1. due[x] = 0 /\ due' = [due EXCEPT ![x] = t] /\ UNCHANGED <<ticks, inserted, ran, pc>> BY <1>12 DEF Plan
  <2>2. x \notin inserted BY <2>1 DEF Entered, Ticks, TypeOK
  <2>3. \A u : IsHead(u)' <=> IsHead(u) BY <1>12, SameList DEF Plan
  <2>4. \A y \in Tasks : y # x => due'[y] = due[y] BY <2>1 DEF TypeOK
  <2>q. QED BY <2>1, <2>2, <2>3, <2>4 DEF Accounted
<1>13. CASE UNCHANGED vars BY <1>13, <1>b DEF vars
<1>14. ASSUME NEW x \in Tasks, Unlock(x) PROVE Accounted'
  <2>1. sorter = {x} /\ UNCHANGED <<ticks, inserted, due, ran, pc>> BY <1>14 DEF Unlock, Entered
  <2>2. due[x] > now BY <2>1, <1>14 DEF Entered, Prompt, Unlock
  <2>3. ASSUME pc = "delete", NEW u PROVE IsHead(u)' <=> IsHead(u)
    <3>1. PICK h \in Sorted : h <= now BY <2>3, <1>m DEF Position
    <3>2. Sorted' = Listed /\ \A v \in Listed : v \in Sorted \/ v = due[x] BY <1>14, UnlockShows
    <3>3. h < due[x] BY <3>1, <2>2, <1>0 DEF TypeOK, Ticks
    <3>4. \A v \in Listed : v \in Nat BY <1>0 DEF Ticks
    <3>5. ASSUME IsHead(u)' PROVE IsHead(u)
      <4>1. u \in Listed /\ u <= h /\ \A v \in Sorted : u <= v BY <3>1, <3>2, <3>5, <1>0 DEF IsHead
      <4>2. u # due[x] BY <4>1, <3>3, <3>4, <3>1, <1>0
      <4>q. QED BY <4>1, <4>2, <3>2 DEF IsHead
    <3>6. ASSUME IsHead(u) PROVE IsHead(u)'
      <4>1. u \in Sorted /\ u <= h /\ \A v \in Sorted : u <= v BY <3>1, <3>6 DEF IsHead
      <4>2. ASSUME NEW v \in Listed PROVE u <= v BY <4>1, <4>2, <3>1, <3>2, <3>3, <3>4, <1>0
      <4>q. QED BY <4>1, <4>2, <3>2, <1>0 DEF IsHead
    <3>q. QED BY <3>5, <3>6
  <2>q. QED BY <2>1, <2>3 DEF Accounted
<1>q. QED BY <1>14, <1>1, <1>2, <1>3, <1>4, <1>5, <1>6, <1>7, <1>8, <1>9, <1>10, <1>11, <1>12, <1>13 DEF Next, Start, Add

\* A task once late stays late, and start once misled stays misled.
LEMMA LateStays == TypeOK /\ [Next]_vars /\ Prompt' => Prompt
<1> SUFFICES ASSUME TypeOK, [Next]_vars, Prompt' PROVE Prompt OBVIOUS
<1>1. late \subseteq late'
  BY DEF Next, Start, Add, Plan, Insert, Unlock, Notify, CheckLen, IdleTicker, Updated, ReadHead, ArmTicker,
         TickerFires, RunHead, DeleteHead, Clock, vars
<1>q. QED BY <1>1, MisledStays DEF Prompt

\* However callers, the clock and start's unlocked reads interleave, and as long as no sort
\* of more than Small entries has shown start another entry at task[0], the list, the ticker
\* and the head that start has in hand fit together: nothing has run early, and while all
\* callers were prompt every task is listed or ran once and start has not panicked.
THEOREM PromptAlways == Spec => []PromptInv
<1>1. Init => PromptInv
  BY InitTimer DEF Init, PromptInv, Armed, Accounted
<1>2. PromptInv /\ [Next]_vars => PromptInv'
  <2>1. TimerInv /\ [Next]_vars => TimerInv' BY TimerStep
  <2>2. TimerInv /\ [Next]_vars => TypeOK' BY <2>1 DEF TimerInv
  <2>3. TimerInv => TypeOK BY DEF TimerInv
  <2>q. QED BY <2>1, <2>2, <2>3, LateStays, ArmedStep, AccountedStep DEF PromptInv
<1>q. QED BY <1>1, <1>2, PTL DEF Spec

\* Add and start: as long as tasks are sorted in before their moment and no sort has
\* misled start, none is dropped from the list without having been run, and none is
\* run twice, although the read of the head, its run and its deletion are three steps
\* and an Add may append or sort between any two.
THEOREM AlwaysOnce == Spec => []ExecutedOnce
<1>1. ASSUME PromptInv PROVE ExecutedOnce
  <2> SUFFICES ASSUME Prompt PROVE Executed /\ \A x \in Tasks : ran[x] <= 1 BY DEF ExecutedOnce
  <2>1. \A x \in Tasks : ran[x] = 0 \/ ran[x] = 1 BY <1>1 DEF PromptInv, Accounted
  <2>2. ASSUME NEW x \in Tasks PROVE ran[x] <= 1
    <3>1. ran[x] \in Nat BY <1>1 DEF PromptInv, TimerInv, TypeOK
    <3>q. QED BY <2>1, <3>1
  <2>3. Executed BY <1>1 DEF PromptInv, Accounted, Executed
  <2>q. QED BY <2>2, <2>3
<1>q. QED BY <1>1, PromptAlways, PTL

\* start: its unlocked reads of task[0] never index an empty list, and make no
\* ticker whose interval is not positive as long as the callers are prompt and no
\* sort has misled it.
THEOREM NeverPanics == Spec => []NoPanic
<1>1. PromptInv => NoPanic BY DEF PromptInv, TimerInv, Filled, NoPanic
<1>q. QED BY <1>1, PromptAlways, PTL

\* The run of the head, seen by the callers: with prompt callers it is the call of all
\* that wait for the earliest second, else a call of tasks whose second has come.
LEMMA AlarmRun == PromptInv /\ RunHead /\ ~misled' => Abstract!Next
<1> SUFFICES ASSUME PromptInv, RunHead, ~misled' PROVE Abstract!Next OBVIOUS
<1>1. PICK t \in Ticks : IsHead(t) /\ ran' = [x \in Tasks |-> IF x \in ticks[t] THEN ran[x] + 1 ELSE ran[x]]
  BY DEF RunHead, Reads, DueTasks
<1>0. Sorted \subseteq Listed /\ Listed \subseteq Ticks BY SortedListed
<1>2. ~misled /\ TypeOK /\ Filed /\ Position /\ Entered BY DEF PromptInv, TimerInv, RunHead, Reads
<1>3. t <= now BY <1>0, <1>1, <1>2 DEF RunHead, Position, IsHead, TypeOK, Ticks
<1>4. Abstract!Call(ticks[t]) BY <1>1 DEF RunHead, Abstract!Call
<1>5. ticks[t] \subseteq inserted /\ \A x \in ticks[t] : due[x] = t BY <1>2 DEF Filed, TypeOK
<1>6. CASE Prompt
  <2>1. Abstract!Waiting = {x \in inserted : x \in ticks[due[x]]}
    <3>1. ASSUME NEW x \in inserted PROVE ran[x] = 0 <=> x \in ticks[due[x]]
      <4>1. x \in Tasks BY <1>2 DEF TypeOK
      <4>2. Accounted /\ pc # "delete" BY <1>6 DEF PromptInv, RunHead
      <4>q. QED BY <4>1, <4>2 DEF Accounted
    <3>q. QED BY <3>1 DEF Abstract!Waiting
  <2>2. PICK x : x \in ticks[t] BY <1>0, <1>1 DEF IsHead, Listed
  <2>3. x \in Abstract!Waiting /\ due[x] = t BY <2>1, <2>2, <1>5
  <2>4. ASSUME NEW y \in Abstract!Waiting PROVE t <= due[y]
    <3>1. y \in Tasks /\ due[y] # 0 /\ y \in ticks[due[y]] BY <2>1, <1>2 DEF TypeOK, Entered
    <3>2. due[y] \in Listed BY <3>1, <1>2 DEF TypeOK, Listed, Ticks
    <3>3. CASE due[y] \in Sorted BY <3>3, <1>1 DEF IsHead
    <3>4. CASE due[y] \notin Sorted
      <4>1. y \in sorter BY <3>1, <3>2, <3>4 DEF Listed, Settled, Sorted
      <4>2. due[y] > now BY <4>1, <1>2, <1>6 DEF Entered, Prompt
      <4>3. due[y] \in Ticks /\ t \in Ticks BY <3>2, <1>0, <1>1
      <4>q. QED BY <4>2, <4>3, <1>3, <1>2, TimeAssumption DEF TypeOK, Ticks
    <3>q. QED BY <3>3, <3>4
  <2>5. ticks[t] = {y \in Abstract!Waiting : due[y] = due[x]} BY <2>1, <2>3, <1>5
  <2>6. Abstract!OnTime(x) BY <2>3, <2>4, <2>5, <1>3, <1>4, <1>6 DEF Abstract!OnTime, Prompt
  <2>7. x \in Tasks BY <2>2, <1>2 DEF TypeOK
  <2>q. QED BY <2>6, <2>7 DEF Abstract!Next
<1>7. CASE ~Prompt
  <2>1. Abstract!Anyhow(ticks[t]) BY <1>2, <1>3, <1>4, <1>5, <1>7 DEF Abstract!Anyhow, Prompt
  <2>q. QED BY <2>1, <1>5 DEF Abstract!Next
<1>q. QED BY <1>6, <1>7

\* Every other step of start, of a caller or of the clock is a step of Alarm or leaves
\* its variables alone.
LEMMA AlarmStep ==
    PromptInv /\ [Next]_vars => [Abstract!Next \/ misled']_<<now, due, inserted, sorter, late, ran>>
<1> SUFFICES ASSUME PromptInv, [Next]_vars, ~misled'
             PROVE [Abstract!Next]_<<now, due, inserted, sorter, late, ran>> OBVIOUS
<1>1. CASE RunHead BY <1>1, AlarmRun
<1>2. CASE Clock
  <2>1. Abstract!Tick BY <1>2 DEF Clock, Abstract!Tick
  <2>q. QED BY <2>1 DEF Abstract!Next
<1>3. ASSUME NEW x \in Tasks, Insert(x) PROVE Abstract!Next
  <2>1. due[x] \in Nat /\ now \in Nat BY TimeAssumption DEF PromptInv, TimerInv, TypeOK
  <2>2. late' = late \cup {y \in {x} : due[y] <= now} BY <1>3, <2>1 DEF Insert
  <2>3. Abstract!Set(x) BY <1>3, <2>2 DEF Insert, Planned, Abstract!Set
  <2>q. QED BY <2>3 DEF Abstract!Next
<1>4. ASSUME NEW x \in Tasks, NEW t \in Ticks, Plan(x, t) PROVE Abstract!Next
  <2>1. Abstract!Choose(x, t) BY <1>4 DEF Plan, Abstract!Choose
  <2>q. QED BY <2>1 DEF Abstract!Next
<1>5. CASE CheckLen \/ IdleTicker \/ Updated \/ ReadHead \/ ArmTicker \/ TickerFires \/ DeleteHead
  BY <1>5 DEF CheckLen, IdleTicker, Updated, ReadHead, ArmTicker, TickerFires, DeleteHead
<1>6. ASSUME NEW x \in Tasks, Notify(x) PROVE UNCHANGED <<now, due, inserted, sorter, late, ran>> BY <1>6 DEF Notify
<1>8. ASSUME NEW x \in Tasks, Unlock(x) PROVE Abstract!Next
  <2>1. Abstract!Done BY <1>8 DEF Unlock, Abstract!Done
  <2>q. QED BY <2>1 DEF Abstract!Next
<1>7. CASE UNCHANGED vars BY <1>7 DEF vars
<1>q. QED BY <1>1, <1>2, <1>3, <1>4, <1>5, <1>6, <1>7, <1>8 DEF Next, Start, Add

\* Add and start implement Alarm, for any number of tasks: the unlocked reads of task[0]
\* during a sort and the gap between the run and the deletion never change which functions
\* are called, in which order or how often, until start finds at task[0], in a sort of more
\* than Small entries, one that is not the head.
THEOREM TimeIsKept == Spec => KeepsTime
<1>1. Init => Abstract!Init BY DEF Init, Abstract!Init
<1>q. QED BY <1>1, PromptAlways, AlarmStep, PTL DEF Spec, KeepsTime
=============================================================================
