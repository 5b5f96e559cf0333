-------------------------- MODULE FilePage_proofs --------------------------
(***************************************************************************)
(* Proofs about the file page of FilePage, for any number of files,        *)
(* directories, clicks and calls under way.                                *)
(***************************************************************************)
EXTENDS FilePage, TLAPS

(* Types.                                                                  *)

\* What a slot may hold: nothing was answered before the answer, only the live files
\* and the recycle bin are listed, and a page that is gone waits for no answer.
Calls ==
    {c \in CallType : /\ c.res # "ok" => c.data = {}
                      /\ c.op = "list" => c.del \in {0, 1}
                      /\ c.left => c.res = "sent"}

\* The centre: what was removed for good is not in the recycle bin.
CentreType ==
    /\ where \in [Items -> Places \cup {None}] /\ mark \in [Items -> {0, 1}]
    /\ \A i \in Items : where[i] = None => mark[i] = 0
    /\ local \subseteq Items /\ valid \in BOOLEAN

\* The globals of file-index.js.
GlobalType ==
    /\ page \in {"files", "away"} /\ cookie \in BOOLEAN /\ settled \in BOOLEAN
    /\ loginuser \in {0, 1} /\ currentDelete \in {0, 1}
    /\ currentkind \in Kinds /\ currentdir \in Places /\ trashButtons \in BOOLEAN

\* Rows are items, and only rows can be restored.
RowType == table \subseteq Items /\ restorable \subseteq table

\* The ajax calls under way.
CallsType == calls \in [Slots -> Calls \cup {None}]

\* The type invariant of the page and the centre.
TypeOK == CentreType /\ GlobalType /\ RowType /\ CallsType

\* A call as it is sent.
LEMMA CallIsCall ==
    ASSUME NEW op \in Ops, NEW kind \in Kinds, NEW del \in 0..2, op = "list" => del \in {0, 1},
           NEW dir \in Places, NEW items \in SUBSET Items, NEW from \in Places
    PROVE  LET c == Call(op, kind, del, dir, items, from)
           IN  /\ c \in Calls /\ c.op = op /\ c.kind = kind /\ c.del = del /\ c.dir = dir
               /\ c.items = items /\ c.from = from /\ c.res = "sent" /\ c.data = {}
  <1>1. Call(op, kind, del, dir, items, from) \in CallType
    BY DEF Call, CallType, Places
  <1>. QED BY <1>1 DEF Call, Calls

\* A call that sends nothing but the session.
LEMMA NewIsCall ==
    ASSUME NEW op \in Ops, op # "list"
    PROVE  /\ NewCall(op) \in Calls /\ NewCall(op).op = op
           /\ NewCall(op).res = "sent" /\ NewCall(op).data = {} /\ ~NewCall(op).left
  <1>1. "*" \in Kinds /\ 0 \in 0..2 /\ Root \in Places
    BY DEF Kinds, Places
  <1>2. ~NewCall(op).left
    BY DEF NewCall, Call
  <1>. QED BY <1>1, <1>2, CallIsCall DEF NewCall

\* The fields of a call that is under way.
LEMMA OpenType ==
    ASSUME CallsType, NEW s \in Slots, calls[s] # None
    PROVE  /\ s \in Open /\ calls[s] \in Calls
           /\ calls[s].kind \in Kinds /\ calls[s].del \in 0..2 /\ calls[s].dir \in Places
           /\ calls[s].items \subseteq Items /\ calls[s].from \in Places /\ calls[s].data \subseteq Items
           /\ calls[s].res \in {"sent", "ok", "refused"} /\ calls[s].left \in BOOLEAN
  <1>1. calls[s] \in CallType
    BY DEF CallsType, Calls
  <1>. QED BY <1>1 DEF CallsType, Open, Calls, CallType, Places

\* A call is not a free slot.
LEMMA CallNotNone == ASSUME NEW c \in Calls PROVE c # None
  BY CallsAssumption DEF Calls

\* What starting, following and ending a call does to the calls under way.
LEMMA StartOpen ==
    ASSUME CallsType, NEW s \in Slots, NEW c \in Calls, Start(s, c)
    PROVE  /\ CallsType' /\ s \notin Open /\ Open' = Open \cup {s} /\ calls'[s] = c
           /\ \A r \in Open : calls'[r] = calls[r]
           /\ settled' = SettledAfter(Open, c)
  BY CallNotNone DEF Start, Free, CallsType, Open

\* A callback that starts the next call keeps its slot.
LEMMA FollowOpen ==
    ASSUME CallsType, NEW s \in Slots, calls[s] # None, NEW c \in Calls, Follow(s, c)
    PROVE  /\ CallsType' /\ Open' = Open /\ calls'[s] = c
           /\ settled' = SettledAfter(Open \ {s}, c)
  BY CallNotNone DEF Follow, CallsType, Open

\* A callback that starts none frees it.
LEMMA EndOpen ==
    ASSUME CallsType, NEW s \in Slots, End(s)
    PROVE  CallsType' /\ Open' = Open \ {s} /\ \A r \in Open \ {s} : calls'[r] = calls[r]
  BY DEF End, CallsType, Open

\* What the centre answers keeps everything of a call but the answer.
LEMMA ServedIsCall ==
    ASSUME NEW c \in Calls, ~c.left, NEW res \in {"ok", "refused"}, NEW data \in SUBSET Items, NEW dir \in Places,
           res = "refused" => data = {}
    PROVE  LET n == Served(c, res, data, dir)
           IN  /\ n \in Calls /\ n.op = c.op /\ n.kind = c.kind /\ n.del = c.del /\ n.items = c.items
               /\ n.from = c.from /\ n.res = res /\ n.data = data /\ n.dir = dir /\ ~n.left
  <1>1. Served(c, res, data, dir) \in CallType
    BY DEF Served, Calls, CallType, Places
  <1>. QED BY <1>1 DEF Served, Calls

-----------------------------------------------------------------------------
(* Type correctness.                                                       *)

\* Clicks and callbacks leave the centre and the local node alone.
LEMMA CentreSame == CentreType /\ UNCHANGED centre => CentreType'
  BY DEF CentreType, centre

\* The kinds, the first directory and the operations are as they should be.
LEMMA Values == "*" \in Kinds /\ "pic" \in Kinds /\ Root \in Places /\ 0 \in 0..2 /\ 1 \in 0..2 /\ 2 \in 0..2
  BY DEF Kinds, Places

\* getFileList's call.
LEMMA ListIsCall ==
    ASSUME NEW kind \in Kinds, NEW del \in {0, 1}, NEW dir \in Places
    PROVE  LET c == ListCall(kind, del, dir)
           IN  /\ c \in Calls /\ c.op = "list" /\ c.kind = kind /\ c.del = del /\ c.dir = dir
               /\ c.res = "sent" /\ c.data = {} /\ ~c.left
  <1>1. del \in 0..2 /\ {} \in SUBSET Items /\ Root \in Places /\ "list" \in Ops
    BY Values DEF Ops
  <1>2. ListCall(kind, del, dir) \in CallType
    BY <1>1 DEF ListCall, Call, CallType, Places
  <1>. QED BY <1>2 DEF ListCall, Call, Calls

\* getAnonymousFileList's call.
LEMMA AnonIsCall ==
    ASSUME NEW kind \in Kinds
    PROVE  LET c == AnonCall(kind)
           IN  c \in Calls /\ c.op = "anon" /\ c.res = "sent" /\ c.data = {} /\ ~c.left
  <1>1. {} \in SUBSET Items /\ "anon" \in Ops
    BY DEF Ops
  <1>2. AnonCall(kind) \in CallType
    BY <1>1, Values DEF AnonCall, Call, CallType
  <1>. QED BY <1>2 DEF AnonCall, Call, Calls

\* backparentdir's call.
LEMMA BackIsCall ==
    ASSUME NEW del \in {0, 1}, NEW dir \in Places
    PROVE  LET c == Call("back", "*", del, dir, {}, Root)
           IN  /\ c \in Calls /\ c.op = "back" /\ c.del = del /\ c.dir = dir /\ c.res = "sent"
               /\ ~c.left
  <1>1. del \in 0..2 /\ {} \in SUBSET Items /\ "back" \in Ops
    BY DEF Ops
  <1>2. Call("back", "*", del, dir, {}, Root) \in CallType
    BY <1>1, Values DEF Call, CallType, Places
  <1>. QED BY <1>2 DEF Call, Calls

\* What is left of a call when its page goes.
LEMMA LeftType == ASSUME NEW c \in Calls \cup {None} PROVE Left(c) \in Calls \cup {None}
  <1>1. CASE c # None /\ c.res = "sent"
    <2>1. c \in CallType /\ Left(c) = [c EXCEPT !.left = TRUE]
      BY <1>1 DEF Left, Calls
    <2>2. Left(c) \in CallType /\ Left(c).res = c.res /\ Left(c).data = c.data /\ Left(c).op = c.op
          /\ Left(c).del = c.del
      BY <2>1 DEF CallType
    <2>. QED BY <1>1, <2>2 DEF Calls
  <1>. QED BY <1>1 DEF Left

\* A page that was loaded has its first globals, no rows and one call of its own.
LEMMA FreshType ==
    ASSUME CallsType, NEW s \in Slots, NEW user \in {0, 1}, NEW c \in Calls, FreshPage(s, user, c)
    PROVE  /\ page' = "files" /\ loginuser' = user /\ RowType' /\ CallsType' /\ settled' \in BOOLEAN
           /\ currentDelete' = 0 /\ currentkind' = "*" /\ currentdir' = Root /\ trashButtons' = FALSE
           /\ table' = {} /\ restorable' = {} /\ calls'[s] = c
           /\ settled' => Open' = {s}
  <1>1. calls' = [r \in Slots |-> IF r = s THEN c ELSE Left(calls[r])]
    BY DEF FreshPage, Leave
  <1>2. \A r \in Slots : Left(calls[r]) \in Calls \cup {None}
    BY LeftType DEF CallsType
  <1>3. CallsType' /\ calls'[s] = c
    BY <1>1, <1>2 DEF CallsType
  <1>4. settled' => Open' = {s}
    BY <1>1, CallNotNone DEF FreshPage, Open
  <1>. QED BY <1>3, <1>4 DEF FreshPage, Leave, RowType

\* The login page is never settled.
LEMMA AwayType ==
    ASSUME CallsType, NEW s \in Slots, Away(s)
    PROVE  page' = "away" /\ loginuser' = 1 /\ RowType' /\ CallsType' /\ settled' = FALSE
           /\ currentDelete' = 0 /\ currentkind' = "*" /\ currentdir' = Root /\ trashButtons' = FALSE
  <1>1. \A r \in Slots : Left(calls[r]) \in Calls \cup {None}
    BY LeftType DEF CallsType
  <1>. QED BY <1>1 DEF Away, Leave, RowType, CallsType

\* The first page is typed.
LEMMA TypeInit == Init => TypeOK
  <1>. SUFFICES ASSUME Init PROVE TypeOK
    OBVIOUS
  <1>1. ListCall("*", 0, Root) \in Calls
    BY Values, ListIsCall
  <1>2. CentreType
    BY DEF Init, CentreType, Places
  <1>3. GlobalType /\ RowType
    BY Values DEF Init, GlobalType, RowType
  <1>4. CallsType
    BY <1>1 DEF Init, CallsType
  <1>. QED BY <1>2, <1>3, <1>4 DEF TypeOK

\* The calls a click starts are calls.
LEMMA ClickType ==
    ASSUME TypeOK, NEW s \in Slots, Click(s)
    PROVE  TypeOK'
  <1>. USE Values DEF TypeOK
  <1>0. CentreType'
    BY CentreSame DEF Click, openFileList, openThisFile, backparentdir, createNewDir, reuseItem,
        killItem, deleteAll, removeAll, doUploadfile, useAnonymous, logoutFunc
  <1>. USE <1>0
  <1>1. ASSUME NEW c \in Calls, Start(s, c), GlobalType /\ RowType =>
                 /\ page' = page /\ cookie' = cookie /\ loginuser' \in {0, 1}
                 /\ currentDelete' \in {0, 1} /\ currentkind' = currentkind /\ currentdir' = currentdir
                 /\ trashButtons' \in BOOLEAN /\ RowType'
        PROVE  TypeOK'
    <2>1. CallsType' /\ settled' \in BOOLEAN
      BY <1>1, StartOpen DEF SettledAfter, GlobalType
    <2>. QED BY <1>1, <2>1 DEF GlobalType
  <1>2. ASSUME NEW kind \in Kinds, NEW del \in {0, 1}, openFileList(s, kind, del) PROVE TypeOK'
    <2>1. AnonCall(kind) \in Calls /\ ListCall(kind, del, Root) \in Calls
      BY AnonIsCall, ListIsCall
    <2>. QED BY <1>1, <1>2, <2>1 DEF openFileList, Listing, AnonListing, GlobalType, RowType, rows
  <1>3. ASSUME NEW d \in AllDirs, openThisFile(s, d) PROVE TypeOK'
    <2>1. ListCall(currentkind, currentDelete, d) \in Calls
      BY ListIsCall DEF GlobalType, Places
    <2>. QED BY <1>1, <1>3, <2>1 DEF openThisFile, Listing, GlobalType, RowType, rows
  <1>5. CASE backparentdir(s)
    <2>1. Call("back", "*", currentDelete, currentdir, {}, Root) \in Calls
      BY BackIsCall DEF GlobalType
    <2>. QED BY <1>1, <1>5, <2>1 DEF backparentdir, GlobalType, RowType, rows, globals
  <1>6. CASE createNewDir(s)
    <2>1. Call("mkdir", "*", 0, currentdir, {}, Root) \in Calls
      BY CallIsCall DEF Ops, GlobalType
    <2>. QED BY <1>1, <1>6, <2>1 DEF createNewDir, GlobalType, RowType, rows, globals
  <1>7. ASSUME NEW items \in SUBSET Items, NEW kill \in 0..2, dokillItem(s, items, kill),
               currentDelete' \in {0, 1}, UNCHANGED <<page, cookie, loginuser, currentdir, currentkind, trashButtons, rows>>
        PROVE  TypeOK'
    <2>1. Call("kill", "*", kill, Root, items, Root) \in Calls
      BY CallIsCall DEF Ops
    <2>. QED BY <1>1, <1>7, <2>1 DEF dokillItem, GlobalType, RowType, rows
  <1>8. ASSUME NEW i \in Items, reuseItem(s, i) \/ killItem(s, i) PROVE TypeOK'
    BY <1>7, <1>8 DEF reuseItem, killItem, GlobalType, globals
  <1>9. ASSUME NEW sel \in Selections, deleteAll(s, sel) \/ removeAll(s, sel) PROVE TypeOK'
    <2>1. sel \in SUBSET Items
      BY DEF Selections, RowType
    <2>. QED BY <1>7, <1>9, <2>1 DEF deleteAll, removeAll, DeleteMode, GlobalType, globals
  <1>10. ASSUME NEW f \in NewFiles, doUploadfile(s, f) PROVE TypeOK'
    <2>1. Call("addfile", "*", 0, Root, {f}, currentdir) \in Calls
      <3>1. {f} \in SUBSET Items
        BY DEF Items
      <3>. QED BY <3>1, CallIsCall DEF Ops, GlobalType
    <2>. QED BY <1>1, <1>10, <2>1 DEF doUploadfile, GlobalType, RowType, rows, globals
  <1>11. CASE useAnonymous(s) \/ logoutFunc(s)
    <2>1. NewCall("anon") \in Calls /\ NewCall("logout") \in Calls /\ NewCall("leave") \in Calls
      BY NewIsCall DEF Ops
    <2>. QED BY <1>1, <1>11, <2>1 DEF useAnonymous, logoutFunc, AnonListing, GlobalType, RowType, rows, globals
  <1>. QED BY <1>2, <1>3, <1>5, <1>6, <1>8, <1>9, <1>10, <1>11 DEF Click

\* An answer changes one call, and of that only the answer; a call that was left ends.
LEMMA ServeCallType ==
    ASSUME TypeOK, NEW s \in Slots, Serve(s)
    PROVE  /\ TypeOK' /\ s \in Open /\ calls[s].res = "sent"
           /\ ~calls[s].left => Open' = Open
  <1> DEFINE c == calls[s]
  <1>. USE DEF TypeOK
  <1>1. c \in Calls /\ s \in Open /\ c.res = "sent"
    BY OpenType DEF Serve
  <1>2. c.dir \in Places /\ c.items \subseteq Items /\ c.del \in 0..2
    BY <1>1, OpenType DEF Open
  <1>3. UNCHANGED <<page, cookie, globals, rows, settled>>
    BY DEF Serve
  <1>4. GlobalType' /\ RowType'
    BY <1>3 DEF GlobalType, RowType, globals, rows
  <1>5. ASSUME NEW res \in {"ok", "refused"}, NEW data \in SUBSET Items, NEW dir \in Places,
               res = "refused" => data = {}, calls' = [calls EXCEPT ![s] = Served(c, res, data, dir)], CentreType'
        PROVE  TypeOK' /\ (~c.left => Open' = Open)
    <2>1. Served(c, res, data, dir) \in Calls \cup {None} /\ (~c.left => Served(c, res, data, dir) \in Calls)
      <3>1. CASE c.left
        BY <3>1 DEF Served
      <3>2. CASE ~c.left
        BY <1>1, <1>5, <3>2, ServedIsCall
      <3>. QED BY <3>1, <3>2
    <2>2. PICK n \in Calls \cup {None} : n = Served(c, res, data, dir) /\ (~c.left => n \in Calls)
      BY <2>1
    <2>3. calls' = [calls EXCEPT ![s] = n] /\ (~c.left => n # None)
      BY <1>5, <2>2, CallNotNone
    <2>4. CallsType'
      BY <2>3 DEF CallsType
    <2>5. ASSUME ~c.left PROVE Open' = Open
      <3>1. n # None
        BY <2>3, <2>5
      <3>. HIDE DEF c
      <3>. QED BY <1>1, <2>3, <3>1 DEF CallsType, Open
    <2>. QED BY <1>4, <1>5, <2>4, <2>5
  <1>6. CASE calls' = [calls EXCEPT ![s] = Served(c, "refused", {}, c.dir)] /\ UNCHANGED <<where, mark, valid, local>>
    BY <1>1, <1>2, <1>5, <1>6 DEF CentreType
  <1>7. ASSUME NEW r \in Answers,
               \/ c.op = "list" /\ ServeList(c, r)
               \/ c.op = "back" /\ ServeBack(c, r)
               \/ c.op = "mkdir" /\ ServeCreate(c, r, Unused(NewDirs))
               \/ c.op = "record" /\ ServeCreate(c, r, Unused(c.items))
               \/ c.op = "kill" /\ ServeKill(c, r),
               calls' = [calls EXCEPT ![s] = Served(c, "ok", r.data, r.dir)], UNCHANGED <<valid, local>>
        PROVE  TypeOK' /\ (~c.left => Open' = Open)
    <2>1. r.data \in SUBSET Items /\ r.dir \in Places
      BY DEF Answers, Places
    <2>2. CentreType'
      <3>1. CASE UNCHANGED <<where, mark>>
        BY <1>7, <3>1 DEF CentreType
      <3>2. ASSUME NEW i \in Unused(Items), where' = [where EXCEPT ![i] = c.dir], mark' = mark PROVE CentreType'
        <4>1. ASSUME NEW j \in Items, where'[j] = None PROVE mark[j] = 0
          BY <3>2, <4>1 DEF CentreType, Unused
        <4>. QED BY <1>2, <1>7, <3>2, <4>1 DEF CentreType
      <3>3. CASE ServeKill(c, r)
        <4>1. c.del % 2 \in {0, 1} /\ (c.del = 2 => c.del % 2 = 0)
          BY <1>2
        <4>. QED BY <1>7, <3>3, <4>1 DEF ServeKill, CentreType
      <3>4. ASSUME NEW ids \in SUBSET Unused(Items), ServeCreate(c, r, ids) PROVE CentreType'
        BY <3>2, <3>4 DEF ServeCreate
      <3>5. Unused(NewDirs) \subseteq Unused(Items) /\ Unused(c.items) \subseteq Unused(Items)
        BY <1>2 DEF Unused, Items, AllDirs
      <3>. QED BY <1>7, <3>1, <3>3, <3>4, <3>5 DEF ServeList, ServeBack
    <2>. QED BY <1>5, <1>7, <2>1, <2>2
  <1>8. CASE calls' = [calls EXCEPT ![s] = Served(c, "ok", {}, c.dir)] /\ valid' = FALSE /\ UNCHANGED <<where, mark, local>>
    BY <1>1, <1>2, <1>5, <1>8 DEF CentreType
  <1>9. CASE /\ calls' = [calls EXCEPT ![s] = Served(c, "ok", local \cup c.items, c.dir)]
             /\ local' = local \cup c.items /\ UNCHANGED <<where, mark, valid>>
    BY <1>1, <1>2, <1>5, <1>9 DEF CentreType
  <1>. QED BY <1>1, <1>6, <1>7, <1>8, <1>9 DEF Serve

\* The calls that callbacks start.
LEMMA FollowCalls ==
    /\ \A k \in Kinds, d \in {0, 1}, dir \in Places : ListCall(k, d, dir) \in Calls
    /\ AnonCall("pic") \in Calls /\ NewCall("anon") \in Calls /\ NewCall("restart") \in Calls
  <1>1. "anon" \in Ops /\ "restart" \in Ops
    BY DEF Ops
  <1>2. AnonCall("pic") \in Calls
    BY Values, AnonIsCall
  <1>. QED BY <1>1, <1>2, ListIsCall, NewIsCall

\* A callback keeps the types, whatever was clicked since its call.
LEMMA CallbackType ==
    ASSUME TypeOK, NEW s \in Slots, Callback(s)
    PROVE  TypeOK'
  <1>. USE Values DEF TypeOK
  <1>0. CentreType'
    BY CentreSame DEF Callback, ListAnswer, AnonAnswer, MkdirAnswer, BackAnswer, KillAnswer, AddfileAnswer,
        RecordAnswer, LogoutAnswer, LeaveAnswer
  <1>. USE <1>0
  <1>1. calls[s] # None
    BY DEF Callback, Answered, ListAnswer, AnonAnswer, MkdirAnswer, BackAnswer, KillAnswer, AddfileAnswer,
        RecordAnswer, LogoutAnswer, LeaveAnswer
  <1>2. s \in Open /\ calls[s] \in Calls /\ calls[s].kind \in Kinds /\ calls[s].dir \in Places
        /\ calls[s].items \subseteq Items /\ calls[s].from \in Places /\ calls[s].data \subseteq Items
    BY <1>1, OpenType
  <1>3. End(s) => CallsType'
    BY EndOpen
  <1>4. ASSUME NEW c \in Calls, Follow(s, c) PROVE CallsType' /\ settled' \in BOOLEAN
    BY <1>1, <1>4, FollowOpen DEF SettledAfter, GlobalType
  <1>5. ASSUME Relist(s), UNCHANGED <<page, cookie, rows>> PROVE TypeOK'
    <2>1. ListCall(currentkind, currentDelete, currentdir) \in Calls
      BY ListIsCall DEF GlobalType
    <2>2. CallsType' /\ settled' \in BOOLEAN
      BY <1>4, <1>5, <2>1 DEF Relist
    <2>. QED BY <1>5, <2>2 DEF Relist, Listing, GlobalType, RowType, rows
  <1>6. ASSUME Away(s), cookie' \in BOOLEAN PROVE TypeOK'
    BY <1>6, AwayType DEF GlobalType
  <1>7. ASSUME NEW k \in BOOLEAN, FreshAnonymous(s, k), cookie' \in BOOLEAN PROVE TypeOK'
    <2>1. PICK c \in Calls : FreshPage(s, 0, c)
      BY <1>7, FollowCalls DEF FreshAnonymous
    <2>. QED BY <1>7, <2>1, FreshType DEF GlobalType
  <1>8. CASE ListAnswer(s)
    <2>1. CASE Away(s)
      BY <1>6, <1>8, <2>1 DEF ListAnswer, GlobalType
    <2>2. CASE calls[s].res = "ok" /\ ShowList(calls[s]) /\ End(s) /\ UNCHANGED <<page, settled>>
      <3>1. calls[s].del \in {0, 1}
        BY <1>2, <1>8 DEF ListAnswer, Answered, Calls
      <3>2. RowType'
        BY <1>2, <2>2 DEF ShowList, RowType
      <3>. QED BY <1>2, <1>3, <1>8, <2>2, <3>1, <3>2 DEF ListAnswer, ShowList, GlobalType
    <2>. QED BY <1>8, <2>1, <2>2 DEF ListAnswer
  <1>9. CASE AnonAnswer(s) \/ MkdirAnswer(s)
    <2>1. RowType' /\ GlobalType'
      BY <1>2, <1>9 DEF AnonAnswer, MkdirAnswer, RowType, GlobalType, globals
    <2>. QED BY <1>3, <1>9, <2>1 DEF AnonAnswer, MkdirAnswer
  <1>10. CASE BackAnswer(s)
    <2>1. RowType' /\ GlobalType'
      BY <1>2, <1>10 DEF BackAnswer, RowType, GlobalType, rows
    <2>. QED BY <1>3, <1>10, <2>1 DEF BackAnswer
  <1>11. CASE KillAnswer(s) \/ RecordAnswer(s)
    <2>1. CASE Relist(s)
      BY <1>5, <1>11, <2>1 DEF KillAnswer, RecordAnswer
    <2>2. CASE End(s) /\ UNCHANGED <<globals, settled>>
      BY <1>3, <1>11, <2>2 DEF KillAnswer, RecordAnswer, GlobalType, RowType, globals, rows
    <2>. QED BY <1>11, <2>1, <2>2 DEF KillAnswer, RecordAnswer
  <1>12. CASE AddfileAnswer(s)
    <2>1. CASE End(s) /\ UNCHANGED <<globals, rows, settled>>
      BY <1>3, <1>12, <2>1 DEF AddfileAnswer, GlobalType, RowType, globals, rows
    <2>2. CASE AnonListing /\ UNCHANGED currentDelete /\ Follow(s, AnonCall("pic"))
      <3>1. CallsType' /\ settled' \in BOOLEAN
        BY <1>4, <2>2, FollowCalls
      <3>. QED BY <1>12, <2>2, <3>1 DEF AddfileAnswer, AnonListing, GlobalType, RowType
    <2>3. CASE /\ Follow(s, Call("record", "*", 0, UploadDir, calls[s].items, calls[s].from))
               /\ UNCHANGED <<globals, rows>>
      <3>1. Call("record", "*", 0, UploadDir, calls[s].items, calls[s].from) \in Calls
        <4>1. "record" \in Ops /\ UploadDir \in Places /\ calls[s].items \in SUBSET Items
          BY <1>2 DEF Ops, UploadDir, GlobalType
        <4>. QED BY <1>2, <4>1, CallIsCall
      <3>2. CallsType' /\ settled' \in BOOLEAN
        BY <1>4, <2>3, <3>1
      <3>. QED BY <1>12, <2>3, <3>2 DEF AddfileAnswer, GlobalType, RowType, globals, rows
    <2>. QED BY <1>12, <2>1, <2>2, <2>3 DEF AddfileAnswer
  <1>13. CASE LogoutAnswer(s)
    <2>1. CASE FreshAnonymous(s, cookie)
      BY <1>7, <1>13, <2>1 DEF LogoutAnswer, GlobalType
    <2>2. CASE End(s) /\ UNCHANGED <<page, globals, rows, settled>>
      BY <1>3, <1>13, <2>2 DEF LogoutAnswer, GlobalType, RowType, globals, rows
    <2>. QED BY <1>13, <2>1, <2>2 DEF LogoutAnswer
  <1>14. CASE LeaveAnswer(s)
    BY <1>6, <1>7, <1>14 DEF LeaveAnswer
  <1>. QED BY <1>8, <1>9, <1>10, <1>11, <1>12, <1>13, <1>14 DEF Callback

\* Every step keeps the types.
LEMMA TypeStep == TypeOK /\ [Next]_vars => TypeOK'
  <1>. SUFFICES ASSUME TypeOK, [Next]_vars PROVE TypeOK'
    OBVIOUS
  <1>1. ASSUME NEW s \in Slots, Lose(s) PROVE TypeOK'
    <2>1. CallsType'
      BY <1>1, EndOpen DEF Lose, TypeOK
    <2>. QED BY <1>1, <2>1, CentreSame DEF Lose, TypeOK, GlobalType, RowType, globals, rows
  <1>2. ASSUME NEW s \in Slots, loginFunc(s) PROVE TypeOK'
    <2>1. ListCall("*", 0, Root) \in Calls
      BY Values, ListIsCall
    <2>2. page' = "files" /\ RowType' /\ CallsType' /\ GlobalType'
      BY <1>2, <2>1, FreshType, Values DEF loginFunc, TypeOK, GlobalType
    <2>. QED BY <1>2, <2>2 DEF loginFunc, TypeOK, CentreType
  <1>3. CASE Expire
    BY <1>3 DEF Expire, TypeOK, CentreType, GlobalType, RowType, CallsType, globals, rows
  <1>4. CASE UNCHANGED vars
    BY <1>4 DEF vars, TypeOK, CentreType, GlobalType, RowType, CallsType, globals, rows, centre
  <1>. QED BY <1>1, <1>2, <1>3, <1>4, ClickType, CallbackType, ServeCallType DEF Next

-----------------------------------------------------------------------------
(* The settled page.  settled allows one call at a time, and what a        *)
(* callback will do with the answer of that call is known while it is      *)
(* under way: it is this, more than what the properties say of a page with *)
(* no call, that every step preserves.                                     *)

\* Rows that belong to what the globals say is shown.
Shows(t) ==
    /\ \A i \in t : mark[i] = currentDelete
    /\ t \subseteq Listed("*", currentDelete, currentdir)
    /\ currentkind = "*" => t = Listed("*", currentDelete, currentdir)

\* The buttons and the rows that can be restored are those of the side shown.
Buttons == trashButtons = (currentDelete = 1) /\ (restorable # {} => currentDelete = 1)

\* What a call of the account's page will find when it is answered, if it is the only
\* one: a listing brings what goes with the buttons, any other call finds the table as
\* it was, and a removal that was done or an upload that was recorded is followed by a
\* listing.
AccountCall(c) ==
    /\ c.op \notin {"anon", "restart"}
    /\ c.op = "list" =>
          /\ trashButtons = (c.del = 1)
          /\ c.res = "ok" =>
                /\ c.data = Listed(c.kind, c.del, c.dir)
                /\ \A i \in c.data : mark[i] = c.del
    /\ c.op # "list" => Buttons
    /\ c.op \notin {"list", "mkdir"} /\ ~(c.op \in {"kill", "record"} /\ c.res = "ok") => Shows(table)
    /\ c.op = "mkdir" => currentDelete = 0 /\ c.dir = currentdir /\ Shows(table \cup c.data)
    /\ c.op = "back" => c.del = currentDelete /\ (c.res = "ok" => c.data = Listed("*", c.del, c.dir))

\* On the anonymous page no call of the account is ever granted.
AnonymousCall(c) ==
    /\ c.op \in {"list", "back", "mkdir", "kill", "record"} => c.res # "ok"
    /\ c.op = "anon" => c.data \subseteq local

\* No call of an earlier page is under way on a settled one. The directory of an upload
\* is still shown when the file has been stored, and the record names it.
UploadCall(c) ==
    /\ ~c.left
    /\ c.op = "addfile" => c.from = currentdir
    /\ c.op = "record" => c.dir = c.from

\* A settled page has one call at most.
OneOpen == settled => \A r, s \in Open : r = s

\* That call is one of this page, and when it is part of an upload, of one that lands.
UploadInv == settled => \A s \in Open : UploadCall(calls[s])

\* The account page that is settled, with a call and without.
AccountInv ==
    settled /\ page = "files" /\ loginuser = 1 =>
        /\ Open = {} => Buttons /\ Shows(table)
        /\ \A s \in Open : AccountCall(calls[s])

\* The anonymous page that is settled: while the cookie is still there its call is
\* the one that deletes it.
AnonInv ==
    settled /\ page = "files" /\ loginuser = 0 =>
        /\ table \subseteq local
        /\ cookie => \E s \in Open : calls[s].op = "restart"
        /\ \A s \in Open : AnonymousCall(calls[s])

\* The inductive invariant.
PageInv == OneOpen /\ UploadInv /\ AccountInv /\ AnonInv

\* What a step has to show when a settled page is left with one call, or with none.
LEMMA LoneCall ==
    ASSUME NEW s, NEW c, settled' => Open' = {s} /\ calls'[s] = c,
           settled' => UploadCall(c)',
           settled' /\ page' = "files" /\ loginuser' = 1 => AccountCall(c)',
           settled' /\ page' = "files" /\ loginuser' = 0 =>
               table' \subseteq local' /\ (cookie' => c.op = "restart") /\ AnonymousCall(c)'
    PROVE  PageInv'
  <1>1. OneOpen' /\ UploadInv'
    BY DEF OneOpen, UploadInv
  <1>2. AccountInv'
    BY DEF AccountInv
  <1>3. AnonInv'
    BY DEF AnonInv
  <1>. QED BY <1>1, <1>2, <1>3 DEF PageInv

\* The same when nothing is under way.
LEMMA NoCall ==
    ASSUME settled' => Open' = {},
           settled' /\ page' = "files" /\ loginuser' = 1 => Buttons' /\ Shows(table)',
           settled' /\ page' = "files" /\ loginuser' = 0 => table' \subseteq local' /\ ~cookie'
    PROVE  PageInv'
  BY DEF PageInv, OneOpen, UploadInv, AccountInv, AnonInv

\* The rows still belong when neither the centre nor the globals changed.
LEMMA ShowsSame ==
    ASSUME NEW t, Shows(t), UNCHANGED <<where, mark, currentDelete, currentdir, currentkind>>
    PROVE  Shows(t)'
  BY DEF Shows, Listed

\* A click on a settled page finds nothing under way.
LEMMA ClickInv ==
    ASSUME TypeOK, PageInv, NEW s \in Slots, Click(s)
    PROVE  PageInv'
  <1>. USE Values DEF TypeOK
  <1>0. page = "files" /\ page' = "files" /\ UNCHANGED <<centre, page, cookie>>
    BY DEF Click, openFileList, openThisFile, backparentdir, createNewDir, reuseItem,
        killItem, deleteAll, removeAll, doUploadfile, useAnonymous, logoutFunc
  <1>. USE <1>0
  <1>1. ASSUME NEW c \in Calls, Start(s, c), settled'
        PROVE  Open = {} /\ Open' = {s} /\ calls'[s] = c /\ (settled \/ (c.op = "list" /\ loginuser = 1))
    BY <1>1, StartOpen DEF SettledAfter
  <1>2. ASSUME settled, Open = {}
        PROVE  /\ loginuser = 1 => Buttons /\ Shows(table)
               /\ loginuser = 0 => table \subseteq local /\ ~cookie
    BY <1>2 DEF PageInv, AccountInv, AnonInv
  <1>3. ASSUME NEW k \in Kinds, NEW d \in {0, 1}, NEW dir \in Places, Start(s, ListCall(k, d, dir)),
               Listing(k, d), UNCHANGED rows
        PROVE  PageInv'
    <2>1. PICK c \in Calls : /\ c = ListCall(k, d, dir)
                             /\ c.op = "list" /\ c.del = d /\ c.res = "sent" /\ ~c.left
      BY ListIsCall
    <2>2. UploadCall(c)' /\ AccountCall(c)' /\ AnonymousCall(c)'
      BY <1>3, <2>1 DEF UploadCall, AccountCall, AnonymousCall, Listing
    <2>3. loginuser' = loginuser /\ local' = local /\ table' = table
      BY <1>3 DEF Listing, centre, rows
    <2>. QED BY <1>1, <1>2, <1>3, <2>1, <2>2, <2>3, LoneCall
  <1>4. ASSUME NEW k \in Kinds, Start(s, AnonCall(k)), AnonListing, loginuser = 0 \/ ~cookie
        PROVE  PageInv'
    <2>1. PICK c \in Calls : c = AnonCall(k) /\ c.op = "anon" /\ c.data = {} /\ ~c.left
      BY AnonIsCall
    <2>2. UploadCall(c)' /\ AnonymousCall(c)'
      BY <2>1 DEF UploadCall, AnonymousCall
    <2>3. loginuser' = 0 /\ table' = {}
      BY <1>4 DEF AnonListing
    <2>. QED BY <1>1, <1>2, <1>4, <2>1, <2>2, <2>3, LoneCall
  <1>5. ASSUME NEW c \in Calls, Start(s, c), c.op \in {"back", "mkdir", "kill", "addfile", "logout", "leave"},
               c.res = "sent", ~c.left,
               UNCHANGED <<loginuser, currentdir, currentkind, trashButtons, rows>>,
               settled /\ Open = {} /\ loginuser = 1 => currentDelete' = currentDelete,
               c.op = "addfile" => c.from = currentdir,
               c.op = "mkdir" => ~trashButtons /\ c.dir = currentdir,
               c.op = "back" => c.del = currentDelete
        PROVE  PageInv'
    <2>1. settled' => settled /\ Open = {}
      BY <1>1, <1>5
    <2>2. UploadCall(c)' /\ AnonymousCall(c)'
      BY <1>5 DEF UploadCall, AnonymousCall
    <2>3. ASSUME settled', loginuser = 1 PROVE AccountCall(c)'
      <3>1. Buttons /\ Shows(table) /\ currentDelete' = currentDelete
        BY <1>2, <1>5, <2>1, <2>3
      <3>2. Shows(table)' /\ Buttons'
        BY <1>5, <3>1, ShowsSame DEF Buttons, centre, rows
      <3>3. c.data = {}
        BY <1>5 DEF Calls
      <3>4. c.op = "mkdir" => currentDelete' = 0
        BY <1>5, <3>1 DEF Buttons, GlobalType
      <3>5. table' \cup c.data = table'
        BY <3>3
      <3>. QED BY <1>5, <3>1, <3>2, <3>4, <3>5 DEF AccountCall
    <2>4. table' = table /\ local' = local
      BY <1>5 DEF rows, centre
    <2>. QED BY <1>1, <1>2, <1>5, <2>1, <2>2, <2>3, <2>4, LoneCall
  <1>6. ASSUME NEW kind \in Kinds, NEW del \in {0, 1}, openFileList(s, kind, del) PROVE PageInv'
    BY <1>3, <1>4, <1>6 DEF openFileList
  <1>7. ASSUME NEW d \in AllDirs, openThisFile(s, d) PROVE PageInv'
    BY <1>3, <1>7 DEF openThisFile, GlobalType, Places
  <1>9. CASE backparentdir(s)
    <2>1. PICK c \in Calls : /\ c = Call("back", "*", currentDelete, currentdir, {}, Root)
                             /\ c.op = "back" /\ c.del = currentDelete /\ c.res = "sent" /\ ~c.left
      BY BackIsCall DEF GlobalType
    <2>. QED BY <1>5, <1>9, <2>1 DEF backparentdir, globals
  <1>10. CASE createNewDir(s)
    <2>1. PICK c \in Calls : /\ c = Call("mkdir", "*", 0, currentdir, {}, Root)
                             /\ c.op = "mkdir" /\ c.dir = currentdir /\ c.res = "sent" /\ ~c.left
      <3>1. "mkdir" \in Ops /\ currentdir \in Places
        BY DEF Ops, GlobalType
      <3>2. Call("mkdir", "*", 0, currentdir, {}, Root) \in CallType
        BY <3>1 DEF Call, CallType
      <3>. QED BY <3>2 DEF Call, Calls
    <2>. QED BY <1>5, <1>10, <2>1 DEF createNewDir, globals
  <1>11. ASSUME NEW items \in SUBSET Items, NEW kill \in 0..2, dokillItem(s, items, kill),
                UNCHANGED <<loginuser, currentdir, currentkind, trashButtons, rows>>,
                settled /\ Open = {} /\ loginuser = 1 => currentDelete' = currentDelete
         PROVE  PageInv'
    <2>1. PICK c \in Calls : /\ c = Call("kill", "*", kill, Root, items, Root)
                             /\ c.op = "kill" /\ c.res = "sent" /\ ~c.left
      <3>1. "kill" \in Ops /\ Root \in Places /\ "*" \in Kinds
        BY DEF Ops
      <3>2. Call("kill", "*", kill, Root, items, Root) \in CallType
        BY <3>1 DEF Call, CallType
      <3>. QED BY <3>2 DEF Call, Calls
    <2>. QED BY <1>5, <1>11, <2>1 DEF dokillItem
  <1>12. ASSUME NEW i \in Items, reuseItem(s, i) \/ killItem(s, i) PROVE PageInv'
    BY <1>2, <1>11, <1>12 DEF reuseItem, killItem, globals, Buttons
  <1>13. ASSUME NEW sel \in Selections, deleteAll(s, sel) \/ removeAll(s, sel) PROVE PageInv'
    <2>1. sel \in SUBSET Items /\ DeleteMode \in 0..2
      BY DEF Selections, RowType, DeleteMode, GlobalType
    <2>. QED BY <1>11, <1>13, <2>1 DEF deleteAll, removeAll, globals
  <1>14. ASSUME NEW f \in NewFiles, doUploadfile(s, f) PROVE PageInv'
    <2>1. {f} \in SUBSET Items /\ "addfile" \in Ops /\ currentdir \in Places
      BY DEF Items, Ops, GlobalType
    <2>2. PICK c \in Calls : /\ c = Call("addfile", "*", 0, Root, {f}, currentdir)
                             /\ c.op = "addfile" /\ c.res = "sent" /\ c.from = currentdir /\ ~c.left
      <3>1. Call("addfile", "*", 0, Root, {f}, currentdir) \in CallType
        BY <2>1 DEF Call, CallType, Places
      <3>. QED BY <3>1 DEF Call, Calls
    <2>. QED BY <1>5, <1>14, <2>2 DEF doUploadfile, globals
  <1>15. CASE useAnonymous(s)
    <2>1. PICK c \in Calls : c = NewCall("logout") /\ c.op = "logout" /\ c.res = "sent" /\ ~c.left
      BY NewIsCall DEF Ops
    <2>2. CASE cookie
      BY <1>5, <1>15, <2>1, <2>2 DEF useAnonymous, globals
    <2>3. CASE ~cookie
      BY <1>4, <1>15, <2>3 DEF useAnonymous, AnonCall, NewCall
    <2>. QED BY <2>2, <2>3
  <1>16. CASE logoutFunc(s)
    <2>1. PICK c \in Calls : c = NewCall("leave") /\ c.op = "leave" /\ c.res = "sent" /\ ~c.left
      BY NewIsCall DEF Ops
    <2>. QED BY <1>5, <1>16, <2>1 DEF logoutFunc, globals
  <1>. QED
    BY <1>6, <1>7, <1>9, <1>10, <1>12, <1>13, <1>14, <1>15, <1>16 DEF Click

\* What the centre answers, to the only call of a settled page.
LEMMA ServeInv ==
    ASSUME TypeOK, PageInv, NEW s \in Slots, Serve(s), settled
    PROVE  PageInv'
  <1>1. PICK b \in Calls : b = calls[s] /\ b.res = "sent" /\ b.data = {} /\ b.del \in 0..2 /\ b.dir \in Places
                           /\ b.items \subseteq Items /\ s \in Open
    <2>1. calls[s] # None /\ calls[s].res = "sent"
      BY DEF Serve
    <2>2. calls[s] \in Calls /\ calls[s].del \in 0..2 /\ calls[s].dir \in Places /\ calls[s].items \subseteq Items /\ s \in Open
      BY <2>1, OpenType DEF TypeOK
    <2>. QED BY <2>1, <2>2 DEF Calls
  <1>3. Open = {s} /\ UploadCall(b) /\ ~b.left
    BY <1>1 DEF PageInv, OneOpen, UploadInv, UploadCall
  <1>2. Open' = Open /\ UNCHANGED <<page, cookie, globals, rows, settled>>
    BY <1>1, <1>3, ServeCallType DEF Serve
  <1>4. settled /\ page = "files" /\ loginuser = 1 => AccountCall(b)
    BY <1>1 DEF PageInv, AccountInv
  <1>5. settled /\ page = "files" /\ loginuser = 0 => table \subseteq local /\ (cookie => b.op = "restart") /\ AnonymousCall(b)
    BY <1>1, <1>3 DEF PageInv, AnonInv
  <1>6. ASSUME NEW res \in {"ok", "refused"}, NEW data \in SUBSET Items, NEW dir \in Places,
               res = "refused" => data = {}, calls' = [calls EXCEPT ![s] = Served(b, res, data, dir)]
        PROVE  /\ calls'[s] \in Calls /\ calls'[s].op = b.op /\ calls'[s].kind = b.kind /\ calls'[s].del = b.del
               /\ calls'[s].from = b.from /\ calls'[s].res = res /\ calls'[s].data = data /\ calls'[s].dir = dir
               /\ ~calls'[s].left
    <2>1. PICK n \in Calls : n = Served(b, res, data, dir)
      BY <1>3, <1>6, ServedIsCall
    <2>2. /\ n.op = b.op /\ n.kind = b.kind /\ n.del = b.del
          /\ n.from = b.from /\ n.res = res /\ n.data = data /\ n.dir = dir /\ ~n.left
      BY <1>3, <1>6, <2>1, ServedIsCall
    <2>3. calls'[s] = n
      BY <1>6, <2>1 DEF TypeOK, CallsType
    <2>. QED BY <2>2, <2>3
  <1>7. ASSUME NEW n \in Calls, calls'[s] = n, ~n.left, n.op = b.op, n.from = b.from, b.op = "record" => n.dir = b.dir,
               local \subseteq local',
               settled /\ page = "files" /\ loginuser = 1 => AccountCall(n)',
               settled /\ page = "files" /\ loginuser = 0 => AnonymousCall(n)'
        PROVE  PageInv'
    <2>1. settled' => Open' = {s} /\ calls'[s] = n
      BY <1>2, <1>3, <1>7
    <2>2. settled' => UploadCall(n)'
      BY <1>2, <1>3, <1>7 DEF UploadCall, globals
    <2>3. settled' /\ page' = "files" /\ loginuser' = 1 => AccountCall(n)'
      BY <1>2, <1>7 DEF globals
    <2>4. settled' /\ page' = "files" /\ loginuser' = 0 =>
              table' \subseteq local' /\ (cookie' => n.op = "restart") /\ AnonymousCall(n)'
      BY <1>2, <1>5, <1>7 DEF globals, rows
    <2>. QED BY <2>1, <2>2, <2>3, <2>4, LoneCall
  <1>8. ASSUME UNCHANGED <<where, mark>>, Shows(table) PROVE Shows(table)' /\ Shows(table \cup {})'
    <2>1. Shows(table)'
      BY <1>2, <1>8, ShowsSame DEF globals, rows
    <2>2. table' \cup {} = table'
      OBVIOUS
    <2>. QED BY <2>1, <2>2
  <1>9. Buttons => Buttons'
    BY <1>2 DEF Buttons, globals, rows
  <1>10. CASE calls' = [calls EXCEPT ![s] = Served(b, "refused", {}, b.dir)] /\ UNCHANGED <<where, mark, valid, local>>
    <2>1. PICK n \in Calls : /\ calls'[s] = n /\ ~n.left /\ n.op = b.op /\ n.kind = b.kind /\ n.del = b.del
                             /\ n.from = b.from /\ n.res = "refused" /\ n.data = {} /\ n.dir = b.dir
      <3>1. /\ calls'[s] \in Calls /\ calls'[s].op = b.op /\ calls'[s].kind = b.kind /\ calls'[s].del = b.del
            /\ calls'[s].from = b.from /\ calls'[s].res = "refused" /\ calls'[s].data = {} /\ calls'[s].dir = b.dir
            /\ ~calls'[s].left
        BY <1>1, <1>6, <1>10
      <3>. QED BY <3>1
    <2>2. AnonymousCall(n)'
      BY <2>1 DEF AnonymousCall
    <2>3. ASSUME AccountCall(b) PROVE AccountCall(n)'
      <3>1. b.op = "mkdir" => Shows(table \cup n.data)'
        <4>1. table \cup b.data = table
          BY <1>1
        <4>. QED BY <1>8, <1>10, <2>1, <2>3, <4>1 DEF AccountCall
      <3>2. n.op # "list" => Buttons'
        BY <1>9, <2>1, <2>3 DEF AccountCall
      <3>3. n.op \notin {"list", "mkdir"} => Shows(table)'
        BY <1>1, <1>8, <1>10, <2>1, <2>3 DEF AccountCall
      <3>. QED BY <1>1, <1>2, <2>1, <2>3, <3>1, <3>2, <3>3 DEF AccountCall, globals
    <2>. QED BY <1>4, <1>7, <1>10, <2>1, <2>2, <2>3
  <1>11. ASSUME NEW r \in Answers, valid /\ cookie,
                calls' = [calls EXCEPT ![s] = Served(b, "ok", r.data, r.dir)], UNCHANGED <<valid, local>>,
                b.op \in {"list", "back", "mkdir", "record", "kill"},
                b.op \in {"mkdir", "record", "kill", "list"} => r.dir = b.dir,
                AccountCall(b) /\ b.op = "list" =>
                    /\ UNCHANGED <<where, mark>>
                    /\ r.data = Listed(b.kind, b.del, b.dir)
                    /\ \A i \in r.data : mark[i] = b.del,
                AccountCall(b) /\ b.op = "back" => UNCHANGED <<where, mark>> /\ r.data = Listed("*", b.del, r.dir),
                AccountCall(b) /\ b.op = "mkdir" => Shows(table \cup r.data)'
         PROVE  PageInv'
    <2>1. r.data \in SUBSET Items /\ r.dir \in Places
      BY DEF Answers, Places
    <2>2. PICK n \in Calls : /\ calls'[s] = n /\ ~n.left /\ n.op = b.op /\ n.kind = b.kind /\ n.del = b.del
                             /\ n.from = b.from /\ n.res = "ok" /\ n.data = r.data /\ n.dir = r.dir
      <3>1. /\ calls'[s] \in Calls /\ calls'[s].op = b.op /\ calls'[s].kind = b.kind /\ calls'[s].del = b.del
            /\ calls'[s].from = b.from /\ calls'[s].res = "ok" /\ calls'[s].data = r.data /\ calls'[s].dir = r.dir
            /\ ~calls'[s].left
        BY <1>1, <1>6, <1>11, <2>1
      <3>. QED BY <3>1
    <2>3. ~(settled /\ page = "files" /\ loginuser = 0)
      BY <1>5, <1>11
    <2>4. ASSUME AccountCall(b) PROVE AccountCall(n)'
      <3>1. n.op # "list" => Buttons'
        BY <1>9, <2>2, <2>4 DEF AccountCall
      <3>2. n.op = "list" => /\ trashButtons' = (n.del = 1)
                             /\ n.data = Listed(n.kind, n.del, n.dir)'
                             /\ \A i \in n.data : mark'[i] = n.del
        BY <1>2, <1>11, <2>2, <2>4 DEF AccountCall, Listed, globals
      <3>3. n.op = "back" => n.del = currentDelete' /\ n.data = Listed("*", n.del, n.dir)' /\ Shows(table)'
        BY <1>1, <1>2, <1>8, <1>11, <2>2, <2>4 DEF AccountCall, Listed, globals
      <3>4. n.op = "mkdir" => currentDelete' = 0 /\ n.dir = currentdir' /\ Shows(table \cup n.data)'
        BY <1>2, <1>11, <2>2, <2>4 DEF AccountCall, globals
      <3>. QED BY <1>11, <2>2, <3>1, <3>2, <3>3, <3>4 DEF AccountCall
    <2>. QED BY <1>4, <1>7, <1>11, <2>2, <2>3, <2>4
  <1>12. ASSUME NEW r \in Answers, valid /\ cookie,
                \/ b.op = "list" /\ ServeList(b, r)
                \/ b.op = "back" /\ ServeBack(b, r)
                \/ b.op = "mkdir" /\ ServeCreate(b, r, Unused(NewDirs))
                \/ b.op = "record" /\ ServeCreate(b, r, Unused(b.items))
                \/ b.op = "kill" /\ ServeKill(b, r),
                calls' = [calls EXCEPT ![s] = Served(b, "ok", r.data, r.dir)], UNCHANGED <<valid, local>>
         PROVE  PageInv'
    <2>1. b.op \in {"mkdir", "record", "kill", "list"} => r.dir = b.dir
      BY <1>12 DEF ServeList, ServeCreate, ServeKill
    <2>2. b.op = "list" => /\ UNCHANGED <<where, mark>>
                           /\ r.data = Listed(b.kind, b.del, b.dir)
                           /\ \A i \in r.data : mark[i] = b.del
      BY <1>12 DEF ServeList, Listed
    <2>3. b.op = "back" => UNCHANGED <<where, mark>> /\ r.data = Listed("*", b.del, r.dir)
      BY <1>12 DEF ServeBack
    <2>4. ASSUME AccountCall(b), b.op = "mkdir" PROVE Shows(table \cup r.data)'
      <3>1. PICK i \in Unused(NewDirs) : r.data = {i} /\ where' = [where EXCEPT ![i] = b.dir] /\ mark' = mark
        BY <1>12, <2>4 DEF ServeCreate
      <3>2. i \in Items /\ where[i] = None /\ mark[i] = 0
        BY <3>1 DEF Unused, Items, AllDirs, TypeOK, CentreType
      <3>3. currentDelete = 0 /\ b.dir = currentdir /\ Shows(table)
        <4>1. table \cup b.data = table
          BY <1>1
        <4>. QED BY <2>4, <4>1 DEF AccountCall
      <3>4. UNCHANGED <<table, currentDelete, currentdir, currentkind>>
        BY <1>2 DEF globals, rows
      <3>5. currentdir \in Places /\ where \in [Items -> Places \cup {None}] /\ mark \in [Items -> {0, 1}]
        BY DEF TypeOK, GlobalType, CentreType
      <3>6. ASSUME NEW t \in SUBSET Items
            PROVE  /\ t \subseteq Listed("*", 0, currentdir) => t \cup {i} \subseteq Listed("*", 0, currentdir)'
                   /\ t = Listed("*", 0, currentdir) => t \cup {i} = Listed("*", 0, currentdir)'
        <4>1. ASSUME NEW j \in Items PROVE where'[j] = IF j = i THEN currentdir ELSE where[j]
          BY <3>1, <3>3, <3>5
        <4>2. Listed("*", 0, currentdir)' = {j \in Items : where'[j] = currentdir /\ mark[j] = 0}
          BY <3>1, <3>4 DEF Listed
        <4>3. Listed("*", 0, currentdir) = {j \in Items : where[j] = currentdir /\ mark[j] = 0}
          BY DEF Listed
        <4>. QED BY <3>2, <4>1, <4>2, <4>3
      <3>. QED
        <4>1. table \subseteq Items
          BY DEF TypeOK, RowType
        <4>. QED BY <3>1, <3>2, <3>3, <3>4, <3>6, <4>1 DEF Shows
    <2>. QED BY <1>11, <1>12, <2>1, <2>2, <2>3, <2>4
  <1>13. CASE /\ calls' = [calls EXCEPT ![s] = Served(b, "ok", {}, b.dir)] /\ b.op \in {"logout", "leave", "restart"}
              /\ UNCHANGED <<where, mark, local>>
    <2>1. PICK n \in Calls : calls'[s] = n /\ ~n.left /\ n.op = b.op /\ n.from = b.from /\ n.res = "ok"
      <3>1. /\ calls'[s] \in Calls /\ calls'[s].op = b.op /\ calls'[s].kind = b.kind /\ calls'[s].del = b.del
            /\ calls'[s].from = b.from /\ calls'[s].res = "ok" /\ calls'[s].data = {} /\ calls'[s].dir = b.dir
            /\ ~calls'[s].left
        BY <1>1, <1>6, <1>13
      <3>. QED BY <3>1
    <2>2. AnonymousCall(n)'
      BY <1>13, <2>1 DEF AnonymousCall
    <2>3. AccountCall(b) => AccountCall(n)'
      BY <1>8, <1>9, <1>13, <2>1 DEF AccountCall
    <2>. QED BY <1>4, <1>7, <1>13, <2>1, <2>2, <2>3
  <1>14. CASE /\ calls' = [calls EXCEPT ![s] = Served(b, "ok", local \cup b.items, b.dir)] /\ b.op \in {"anon", "addfile"}
              /\ local' = local \cup b.items /\ UNCHANGED <<where, mark, valid>>
    <2>1. local \cup b.items \in SUBSET Items
      BY <1>1 DEF TypeOK, CentreType
    <2>2. PICK n \in Calls : calls'[s] = n /\ ~n.left /\ n.op = b.op /\ n.from = b.from /\ n.res = "ok" /\ n.data = local'
      <3>1. /\ calls'[s] \in Calls /\ calls'[s].op = b.op /\ calls'[s].kind = b.kind /\ calls'[s].del = b.del
            /\ calls'[s].from = b.from /\ calls'[s].res = "ok" /\ calls'[s].data = local \cup b.items /\ calls'[s].dir = b.dir
            /\ ~calls'[s].left
        BY <1>1, <1>6, <1>14, <2>1
      <3>. QED BY <1>14, <3>1
    <2>3. AnonymousCall(n)'
      BY <1>14, <2>2 DEF AnonymousCall
    <2>4. AccountCall(b) => AccountCall(n)'
      BY <1>8, <1>9, <1>14, <2>2 DEF AccountCall
    <2>. QED BY <1>4, <1>7, <1>14, <2>2, <2>3, <2>4
  <1>. QED BY <1>1, <1>3, <1>10, <1>12, <1>13, <1>14 DEF Serve

\* What a callback does with the answer of the only call of a settled page.
LEMMA CallbackInv ==
    ASSUME TypeOK, PageInv, NEW s \in Slots, Callback(s)
    PROVE  PageInv'
  <1>1. PICK b \in Calls : /\ b = calls[s] /\ calls[s] # None /\ s \in Open /\ b.res \in {"ok", "refused"}
                           /\ b.dir \in Places /\ b.from \in Places /\ b.kind \in Kinds /\ b.items \subseteq Items
    <2>1. calls[s] # None /\ calls[s].res # "sent"
      BY DEF Callback, Answered, ListAnswer, AnonAnswer, MkdirAnswer, BackAnswer, KillAnswer, AddfileAnswer,
          RecordAnswer, LogoutAnswer, LeaveAnswer
    <2>. QED BY <2>1, OpenType DEF TypeOK
  <1>2. settled => Open = {s} /\ UploadCall(b)
    BY <1>1 DEF PageInv, OneOpen, UploadInv
  <1>3. settled /\ page = "files" /\ loginuser = 1 => AccountCall(b)
    BY <1>1 DEF PageInv, AccountInv
  <1>4. settled /\ page = "files" /\ loginuser = 0 => table \subseteq local /\ (cookie => b.op = "restart") /\ AnonymousCall(b)
    BY <1>1, <1>2 DEF PageInv, AnonInv
  <1>5. ASSUME End(s), UNCHANGED <<page, loginuser, settled>>,
               settled /\ page = "files" /\ loginuser = 1 => Buttons' /\ Shows(table)',
               settled /\ page = "files" /\ loginuser = 0 => table' \subseteq local' /\ ~cookie'
        PROVE  PageInv'
    <2>1. settled' => Open' = {}
      BY <1>1, <1>2, <1>5, EndOpen DEF TypeOK
    <2>. QED BY <1>5, <2>1, NoCall
  <1>6. ASSUME NEW c \in Calls, Follow(s, c)
        PROVE  /\ settled' => Open' = {s} /\ calls'[s] = c /\ (settled \/ (c.op = "list" /\ loginuser = 1))
    <2>1. Open' = Open /\ calls'[s] = c /\ settled' = SettledAfter(Open \ {s}, c)
      BY <1>1, <1>6, FollowOpen DEF TypeOK
    <2>. QED BY <1>1, <2>1 DEF SettledAfter
  <1>7. ASSUME Relist(s), b.op \in {"kill", "record"}, b.res = "ok", UNCHANGED <<centre, page, cookie, rows>>
        PROVE  PageInv'
    <2>1. PICK c \in Calls : /\ c = ListCall(currentkind, currentDelete, currentdir)
                             /\ c.op = "list" /\ c.del = currentDelete /\ c.res = "sent" /\ ~c.left
      BY ListIsCall DEF TypeOK, GlobalType
    <2>2. Listing(currentkind, currentDelete) /\ Follow(s, c)
      BY <1>7, <2>1 DEF Relist
    <2>3. UploadCall(c)' /\ AccountCall(c)'
      BY <2>1, <2>2 DEF UploadCall, AccountCall, Listing
    <2>4. settled /\ page = "files" => loginuser # 0
      BY <1>4, <1>7 DEF AnonymousCall
    <2>5. loginuser' = loginuser /\ page' = page
      BY <1>7, <2>2 DEF Listing
    <2>. QED BY <1>6, <2>1, <2>2, <2>3, <2>4, <2>5, LoneCall
  <1>8. ASSUME End(s), UNCHANGED <<centre, cookie, page, globals, rows, settled>>, b.res = "refused",
               b.op \in {"kill", "record", "addfile", "logout", "back"}
        PROVE  PageInv'
    <2>1. AccountCall(b) => Buttons' /\ Shows(table)'
      <3>1. AccountCall(b) => Buttons /\ Shows(table)
        BY <1>8 DEF AccountCall
      <3>2. Shows(table) => Shows(table)'
        BY <1>8, ShowsSame DEF centre, globals, rows
      <3>3. Buttons => Buttons'
        BY <1>8 DEF Buttons, globals, rows
      <3>. QED BY <3>1, <3>2, <3>3
    <2>2. UNCHANGED <<page, loginuser, settled, table, local, cookie>>
      BY <1>8 DEF globals, rows, centre
    <2>. QED BY <1>3, <1>4, <1>5, <1>8, <2>1, <2>2
  <1>9. ASSUME Away(s) PROVE PageInv'
    <2>1. ~settled'
      BY <1>9, AwayType DEF TypeOK
    <2>. QED BY <2>1, NoCall
  <1>10. ASSUME NEW k \in BOOLEAN, FreshAnonymous(s, k), cookie' = k PROVE PageInv'
    <2>1. PICK c \in Calls : /\ FreshPage(s, 0, c) /\ c.op = (IF k THEN "restart" ELSE "anon") /\ c.data = {}
                             /\ c.res = "sent" /\ ~c.left
      <3>1. "restart" \in Ops /\ "anon" \in Ops
        BY DEF Ops
      <3>2. \A op \in {"restart", "anon"} : NewCall(op) \in Calls /\ NewCall(op).op = op
                                            /\ NewCall(op).res = "sent" /\ NewCall(op).data = {}
                                            /\ ~NewCall(op).left
        BY <3>1, NewIsCall
      <3>. QED BY <1>10, <3>2 DEF FreshAnonymous
    <2>2. page' = "files" /\ loginuser' = 0 /\ table' = {} /\ (settled' => Open' = {s}) /\ calls'[s] = c
      BY <2>1, FreshType DEF TypeOK
    <2>3. UploadCall(c)' /\ AnonymousCall(c)' /\ (cookie' => c.op = "restart")
      BY <1>10, <2>1 DEF UploadCall, AnonymousCall
    <2>. QED BY <2>2, <2>3, LoneCall
  <1>11. CASE ListAnswer(s)
    <2>1. CASE Away(s)
      BY <1>9, <2>1
    <2>2. CASE b.res = "ok" /\ ShowList(b) /\ End(s) /\ UNCHANGED <<page, settled>>
      <3>1. b.op = "list" /\ UNCHANGED <<centre, cookie, loginuser>>
        BY <1>1, <1>11, <2>2 DEF ListAnswer, Answered, ShowList
      <3>2. ASSUME AccountCall(b) PROVE Buttons' /\ Shows(table)'
        <4>1. UNCHANGED <<where, mark, trashButtons>> /\ table' = b.data /\ currentDelete' = b.del
              /\ currentdir' = b.dir /\ currentkind' = b.kind /\ (restorable' # {} => b.del = 1)
          BY <2>2, <3>1 DEF ShowList, centre
        <4>2. /\ trashButtons = (b.del = 1) /\ \A i \in b.data : mark[i] = b.del
              /\ b.data = Listed(b.kind, b.del, b.dir)
          BY <2>2, <3>1, <3>2 DEF AccountCall
        <4>3. Buttons'
          BY <4>1, <4>2 DEF Buttons
        <4>4. Listed("*", b.del, b.dir)' = Listed("*", b.del, b.dir)
          BY <4>1 DEF Listed
        <4>5. Listed(b.kind, b.del, b.dir) \subseteq Listed("*", b.del, b.dir)
          BY DEF Listed
        <4>6. Shows(table)'
          BY <4>1, <4>2, <4>4, <4>5 DEF Shows
        <4>. QED BY <4>3, <4>6
      <3>3. ~(settled /\ page = "files" /\ loginuser = 0)
        BY <1>4, <2>2, <3>1 DEF AnonymousCall
      <3>. QED BY <1>3, <1>5, <2>2, <3>1, <3>2, <3>3
    <2>. QED BY <1>1, <1>11, <2>1, <2>2 DEF ListAnswer
  <1>12. CASE AnonAnswer(s)
    <2>1. /\ b.op = "anon" /\ End(s) /\ UNCHANGED <<page, loginuser, settled, local, cookie>>
          /\ table' \subseteq table \cup b.data
      BY <1>1, <1>12 DEF AnonAnswer, Answered, globals, centre
    <2>2. ~AccountCall(b) /\ (AnonymousCall(b) => b.data \subseteq local)
      BY <2>1 DEF AccountCall, AnonymousCall
    <2>. QED BY <1>3, <1>4, <1>5, <2>1, <2>2
  <1>13. CASE MkdirAnswer(s)
    <2>1. /\ b.op = "mkdir" /\ End(s) /\ UNCHANGED <<page, settled, local, cookie, where, mark, globals, restorable>>
          /\ table' = table \cup b.data
      BY <1>1, <1>13 DEF MkdirAnswer, Answered, centre
    <2>2. AnonymousCall(b) => table' = table
      <3>1. AnonymousCall(b) => b.data = {}
        BY <1>1, <2>1 DEF AnonymousCall, Calls
      <3>. QED BY <2>1, <3>1
    <2>3. ASSUME AccountCall(b) PROVE Buttons' /\ Shows(table)'
      <3>1. Buttons /\ Shows(table')
        BY <2>1, <2>3 DEF AccountCall
      <3>2. Buttons'
        BY <2>1, <3>1 DEF Buttons, globals
      <3>3. PICK t : t = table'
        OBVIOUS
      <3>4. Shows(t)'
        BY <2>1, <3>1, <3>3, ShowsSame DEF globals
      <3>. QED BY <3>2, <3>3, <3>4 DEF Shows
    <2>. QED BY <1>3, <1>4, <1>5, <2>1, <2>2, <2>3 DEF globals
  <1>14. CASE BackAnswer(s)
    <2>1. b.op = "back" /\ End(s) /\ UNCHANGED <<centre, page, cookie, loginuser, currentkind, currentDelete, trashButtons, settled>>
      BY <1>1, <1>14 DEF BackAnswer, Answered
    <2>2. CASE b.res = "ok"
      <3>1. table' = b.data /\ restorable' = {} /\ currentdir' = b.dir
        BY <1>1, <1>14, <2>2 DEF BackAnswer
      <3>2. ASSUME AccountCall(b) PROVE Buttons' /\ Shows(table)'
        <4>1. Buttons /\ b.del = currentDelete /\ b.data = Listed("*", b.del, b.dir)
          BY <2>1, <2>2, <3>2 DEF AccountCall
        <4>2. Buttons'
          BY <2>1, <3>1, <4>1 DEF Buttons
        <4>3. Listed("*", currentDelete, currentdir)' = b.data
          BY <2>1, <3>1, <4>1 DEF Listed, centre
        <4>4. \A i \in b.data : mark[i] = currentDelete
          BY <4>1 DEF Listed
        <4>. QED BY <2>1, <3>1, <4>2, <4>3, <4>4 DEF Shows, centre
      <3>3. ~(settled /\ page = "files" /\ loginuser = 0)
        BY <1>4, <2>1, <2>2 DEF AnonymousCall
      <3>. QED BY <1>3, <1>5, <2>1, <3>2, <3>3
    <2>3. CASE b.res = "refused"
      BY <1>1, <1>8, <1>14, <2>1, <2>3 DEF BackAnswer, globals
    <2>. QED BY <1>1, <2>2, <2>3
  <1>15. CASE KillAnswer(s) \/ RecordAnswer(s)
    <2>1. b.op \in {"kill", "record"} /\ UNCHANGED <<centre, page, cookie, rows>>
      BY <1>1, <1>15 DEF KillAnswer, RecordAnswer, Answered
    <2>. QED BY <1>1, <1>7, <1>8, <1>15, <2>1 DEF KillAnswer, RecordAnswer
  <1>16. CASE AddfileAnswer(s)
    <2>1. b.op = "addfile" /\ UNCHANGED <<centre, page, cookie>>
      BY <1>1, <1>16 DEF AddfileAnswer, Answered
    <2>2. CASE b.res = "refused"
      BY <1>1, <1>8, <1>16, <2>1, <2>2 DEF AddfileAnswer
    <2>3. CASE b.res = "ok" /\ loginuser = 0
      <3>1. AnonListing /\ Follow(s, AnonCall("pic"))
        BY <1>1, <1>16, <2>3 DEF AddfileAnswer
      <3>2. PICK c \in Calls : c = AnonCall("pic") /\ c.op = "anon" /\ c.data = {} /\ ~c.left
        BY Values, AnonIsCall
      <3>3. UploadCall(c)' /\ AnonymousCall(c)'
        BY <3>2 DEF UploadCall, AnonymousCall
      <3>4. loginuser' = 0 /\ table' = {}
        BY <3>1 DEF AnonListing
      <3>5. settled /\ page = "files" => ~cookie
        BY <1>4, <2>1, <2>3
      <3>. QED BY <1>6, <2>1, <3>1, <3>2, <3>3, <3>4, <3>5, LoneCall
    <2>4. CASE b.res = "ok" /\ loginuser = 1
      <3>1. Follow(s, Call("record", "*", 0, currentdir, b.items, b.from)) /\ UNCHANGED <<globals, rows>>
        BY <1>1, <1>16, <2>4 DEF AddfileAnswer, UploadDir
      <3>2. PICK c \in Calls : /\ c = Call("record", "*", 0, currentdir, b.items, b.from)
                               /\ c.op = "record" /\ c.dir = currentdir /\ c.from = b.from /\ c.res = "sent"
                               /\ ~c.left
        <4>1. currentdir \in Places
          BY DEF TypeOK, GlobalType
        <4>2. Call("record", "*", 0, currentdir, b.items, b.from) \in CallType
          BY <1>1, <4>1, Values DEF Call, CallType, Places, Ops
        <4>. QED BY <4>2 DEF Call, Calls
      <3>3. settled' => settled /\ Open' = {s} /\ calls'[s] = c
        BY <1>6, <3>1, <3>2
      <3>4. settled => UploadCall(c)'
        BY <1>2, <2>1, <3>2 DEF UploadCall
      <3>5. AccountCall(b) => AccountCall(c)'
        <4>1. AccountCall(b) => Buttons /\ Shows(table)
          BY <2>1 DEF AccountCall
        <4>2. Shows(table) => Shows(table)'
          BY <2>1, <3>1, ShowsSame DEF centre, globals, rows
        <4>3. Buttons => Buttons'
          BY <3>1 DEF Buttons, globals, rows
        <4>. QED BY <3>2, <4>1, <4>2, <4>3 DEF AccountCall
      <3>6. loginuser' = 1 /\ page' = page
        BY <2>1, <2>4, <3>1 DEF globals
      <3>. QED BY <1>3, <2>4, <3>3, <3>4, <3>5, <3>6, LoneCall
    <2>5. loginuser \in {0, 1}
      BY DEF TypeOK, GlobalType
    <2>. QED BY <1>1, <2>2, <2>3, <2>4, <2>5
  <1>17. CASE LogoutAnswer(s)
    <2>1. b.op = "logout" /\ UNCHANGED <<centre, cookie>> /\ cookie \in BOOLEAN
      BY <1>1, <1>17 DEF LogoutAnswer, Answered, TypeOK, GlobalType
    <2>. QED BY <1>1, <1>8, <1>10, <1>17, <2>1 DEF LogoutAnswer
  <1>18. CASE LeaveAnswer(s)
    BY <1>9, <1>10, <1>18 DEF LeaveAnswer
  <1>. QED BY <1>11, <1>12, <1>13, <1>14, <1>15, <1>16, <1>17, <1>18 DEF Callback

-----------------------------------------------------------------------------
(* The theorems.                                                           *)

\* The first page waits for its first listing.
LEMMA PageInit == Init => PageInv
  <1>. SUFFICES ASSUME Init PROVE PageInv
    OBVIOUS
  <1>1. PICK c \in Calls : /\ c = ListCall("*", 0, Root) /\ c.op = "list" /\ c.del = 0 /\ c.res = "sent"
                           /\ ~c.left
    BY Values, ListIsCall
  <1>2. Open = {1} /\ calls[1] = c
    BY <1>1, CallNotNone, CallsAssumption DEF Init, Open
  <1>3. UploadCall(c) /\ AccountCall(c) /\ loginuser = 1
    <2>1. (c.del = 1) = FALSE /\ trashButtons = FALSE /\ loginuser = 1
      BY <1>1 DEF Init
    <2>. QED BY <1>1, <2>1, Zenon DEF UploadCall, AccountCall
  <1>. QED BY <1>2, <1>3 DEF PageInv, OneOpen, UploadInv, AccountInv, AnonInv

\* Every step keeps the invariant.
LEMMA PageStep == TypeOK /\ PageInv /\ [Next]_vars => PageInv'
  <1>. SUFFICES ASSUME TypeOK, PageInv, [Next]_vars PROVE PageInv'
    OBVIOUS
  <1>1. ASSUME NEW s \in Slots, Lose(s) PROVE PageInv'
    <2>1. ~settled'
      BY <1>1 DEF Lose
    <2>. QED BY <2>1, NoCall
  <1>2. ASSUME NEW s \in Slots, loginFunc(s) PROVE PageInv'
    <2>1. PICK c \in Calls : /\ c = ListCall("*", 0, Root) /\ c.op = "list" /\ c.del = 0 /\ c.res = "sent"
                             /\ ~c.left
      BY Values, ListIsCall
    <2>2. /\ loginuser' = 1 /\ trashButtons' = FALSE /\ (settled' => Open' = {s}) /\ calls'[s] = c
      BY <1>2, <2>1, FreshType DEF loginFunc, TypeOK
    <2>3. UploadCall(c)' /\ AccountCall(c)'
      <3>1. (c.del = 1) = FALSE
        BY <2>1
      <3>. QED BY <2>1, <2>2, <3>1, Zenon DEF UploadCall, AccountCall
    <2>. QED BY <2>2, <2>3, LoneCall
  <1>3. ASSUME UNCHANGED <<where, mark, local, page, globals, rows, calls, settled>>, cookie' => cookie
        PROVE  PageInv'
    <2>1. \A t : Shows(t) => Shows(t)'
      BY <1>3, ShowsSame DEF globals
    <2>2. Buttons' = Buttons /\ Open' = Open /\ UNCHANGED <<loginuser, table>>
      BY <1>3 DEF Buttons, Open, globals, rows
    <2>3. \A c : (AccountCall(c) => AccountCall(c)') /\ (UploadCall(c) => UploadCall(c)')
                 /\ (AnonymousCall(c) => AnonymousCall(c)')
      <3>1. \A c : UploadCall(c) => UploadCall(c)'
        BY <1>3 DEF UploadCall, globals
      <3>2. \A c : AnonymousCall(c) => AnonymousCall(c)'
        BY <1>3 DEF AnonymousCall
      <3>3. ASSUME NEW c, AccountCall(c) PROVE AccountCall(c)'
        <4>1. PICK t : t = table \cup c.data
          OBVIOUS
        <4>2. Shows(t) => Shows(t)'
          BY <2>1
        <4>3. c.op = "mkdir" => Shows(table \cup c.data)'
          BY <2>2, <3>3, <4>1, <4>2 DEF AccountCall, Shows
        <4>4. Shows(table) => Shows(table)'
          BY <1>3, ShowsSame DEF globals, rows
        <4>5. \A k, d, dir : Listed(k, d, dir)' = Listed(k, d, dir)
          BY <1>3 DEF Listed
        <4>. QED BY <1>3, <2>2, <3>3, <4>3, <4>4, <4>5 DEF AccountCall, globals
      <3>. QED BY <3>1, <3>2, <3>3
    <2>4. Shows(table) => Shows(table)'
      BY <1>3, ShowsSame DEF globals, rows
    <2>5. OneOpen' /\ UploadInv'
      BY <1>3, <2>2, <2>3 DEF PageInv, OneOpen, UploadInv
    <2>6. AccountInv'
      BY <1>3, <2>2, <2>3, <2>4 DEF PageInv, AccountInv
    <2>7. AnonInv'
      BY <1>3, <2>2, <2>3 DEF PageInv, AnonInv
    <2>. QED BY <2>5, <2>6, <2>7 DEF PageInv
  <1>4. CASE Expire
    BY <1>3, <1>4 DEF Expire
  <1>5. CASE UNCHANGED vars
    BY <1>3, <1>5 DEF vars, centre
  <1>6. ASSUME NEW s \in Slots, Serve(s), ~settled PROVE PageInv'
    <2>1. ~settled'
      BY <1>6 DEF Serve
    <2>. QED BY <2>1, NoCall
  <1>. QED BY <1>1, <1>2, <1>4, <1>5, <1>6, ClickInv, CallbackInv, ServeInv DEF Next

\* In every state the page is typed and its invariant holds.
THEOREM PageAlways == Spec => [](TypeOK /\ PageInv)
  <1>1. Init => TypeOK /\ PageInv
    BY TypeInit, PageInit
  <1>2. TypeOK /\ PageInv /\ [Next]_vars => (TypeOK /\ PageInv)'
    BY TypeStep, PageStep
  <1>. QED BY <1>1, <1>2, PTL DEF Spec

\* The account page that is calm shows what the centre has there: getFileList's late
\* answer and every callback that adds or takes rows keep the table and the globals
\* together when the user has waited.
THEOREM TableAlwaysMatches == Spec => []TableMatches
  <1>1. PageInv => TableMatches
    <2>. SUFFICES ASSUME PageInv, Calm, page = "files", loginuser = 1 PROVE Shows(table)
      BY DEF TableMatches, Shows
    <2>. QED BY DEF PageInv, AccountInv, Calm
  <1>. QED BY <1>1, PageAlways, PTL

\* The buttons set by getFileList before the answer belong to the rows that came with it.
THEOREM ButtonsAlwaysMatch == Spec => []ButtonsMatch
  <1>1. PageInv => ButtonsMatch
    BY DEF PageInv, AccountInv, Calm, ButtonsMatch, Buttons
  <1>. QED BY <1>1, PageAlways, PTL

\* The anonymous page that is calm shows no file of the account: useAnonymous comes back
\* to a page whose only call deletes the cookie, and no call is granted before.
THEOREM AnonymousAlwaysLocal == Spec => []AnonymousShowsLocal
  <1>1. PageInv => AnonymousShowsLocal
    BY DEF PageInv, AnonInv, Calm, AnonymousShowsLocal
  <1>. QED BY <1>1, PageAlways, PTL

\* addfile's callback reads currentdir late, and finds the directory the upload began in
\* as long as the user waits.
THEOREM UploadsAlwaysLand == Spec => []UploadsLand
  <1>1. PageInv => UploadsLand
    BY DEF PageInv, UploadInv, UploadsLand, UploadCall
  <1>. QED BY <1>1, PageAlways, PTL

\* On a calm account page only a click starts a removal, and it fits the rows: what
\* deleteAll, removeAll and reuseItem send is decided by globals that the table and
\* the buttons agree with.
LEMMA CalmKills ==
    ASSUME TypeOK, PageInv, [Next]_vars, NEW s \in Slots, Calm, loginuser = 1, calls[s] # calls'[s],
           calls'[s] # None, calls'[s].op = "kill", calls'[s].del \in {0, 2}
    PROVE  \A i \in calls'[s].items : mark[i] = 1
  <1>1. \A r \in Slots : calls[r] = None
    BY DEF Calm, Open
  <1>2. \A r \in Slots : ~Serve(r) /\ ~Callback(r) /\ ~Lose(r)
    BY <1>1 DEF Serve, Lose, Callback, Answered, ListAnswer, AnonAnswer, MkdirAnswer, BackAnswer, KillAnswer,
        AddfileAnswer, RecordAnswer, LogoutAnswer, LeaveAnswer
  <1>3. ~Expire /\ calls' # calls
    BY DEF Expire
  <1>4. ASSUME NEW r \in Slots, loginFunc(r) PROVE FALSE
    <2>1. PICK c \in Calls : c = ListCall("*", 0, Root) /\ c.op = "list"
      BY Values, ListIsCall
    <2>2. calls' = [q \in Slots |-> IF q = r THEN c ELSE Left(calls[q])]
      BY <1>4, <2>1 DEF loginFunc, FreshPage, Leave
    <2>3. calls'[s] \in {c, None}
      BY <1>1, <2>2 DEF Left
    <2>. QED BY <2>1, <2>3
  <1>5. PICK r \in Slots : Click(r)
    BY <1>2, <1>3, <1>4 DEF Next, vars
  <1>6. page = "files" => Buttons /\ Shows(table)
    BY DEF PageInv, AccountInv, Calm
  <1>7. ASSUME NEW c \in Calls, Start(r, c) PROVE calls'[s] = c
    <2>1. \A q \in Slots : q # r => calls'[q] = calls[q]
      BY <1>7 DEF Start, TypeOK, CallsType
    <2>. QED BY <1>7, <2>1, StartOpen DEF TypeOK
  <1>8. ASSUME NEW c \in Calls, Start(r, c), c.op # "kill" PROVE FALSE
    BY <1>7, <1>8
  <1>9. ASSUME NEW items \in SUBSET Items, NEW kill \in 0..2, dokillItem(r, items, kill)
        PROVE  calls'[s].items = items /\ calls'[s].del = kill
    <2>1. PICK c \in Calls : c = Call("kill", "*", kill, Root, items, Root) /\ c.items = items /\ c.del = kill
      <3>1. Call("kill", "*", kill, Root, items, Root) \in CallType
        BY Values DEF Call, CallType, Places, Ops
      <3>. QED BY <3>1 DEF Call, Calls
    <2>. QED BY <1>7, <1>9, <2>1 DEF dokillItem
  <1>10. ASSUME NEW i \in Items, reuseItem(r, i) PROVE \A j \in calls'[s].items : mark[j] = 1
    <2>1. calls'[s].items = {i}
      BY <1>9, <1>10 DEF reuseItem
    <2>2. Buttons /\ Shows(table) /\ i \in restorable /\ restorable \subseteq table
      BY <1>6, <1>10 DEF reuseItem, TypeOK, RowType
    <2>. QED BY <2>1, <2>2 DEF Buttons, Shows
  <1>11. ASSUME NEW i \in Items, killItem(r, i) PROVE FALSE
    <2>1. calls'[s].del = 1
      BY <1>9, <1>11 DEF killItem
    <2>. QED BY <2>1
  <1>12. ASSUME NEW sel \in Selections, deleteAll(r, sel) \/ removeAll(r, sel)
         PROVE  \A j \in calls'[s].items : mark[j] = 1
    <2>1. sel \in SUBSET Items /\ sel \subseteq table /\ DeleteMode \in 0..2 /\ currentDelete \in {0, 1}
      BY DEF Selections, DeleteMode, TypeOK, RowType, GlobalType
    <2>2. Buttons /\ Shows(table)
      BY <1>6, <1>12 DEF deleteAll, removeAll
    <2>3. CASE deleteAll(r, sel)
      <3>1. calls'[s].items = sel /\ calls'[s].del = DeleteMode
        BY <1>9, <2>1, <2>3 DEF deleteAll
      <3>2. currentDelete = 1
        BY <2>1, <3>1 DEF DeleteMode
      <3>. QED BY <2>1, <2>2, <3>1, <3>2 DEF Shows
    <2>4. CASE removeAll(r, sel)
      <3>1. calls'[s].items = sel /\ currentDelete = 1
        <4>1. calls'[s].items = sel /\ trashButtons
          BY <1>9, <2>1, <2>4 DEF removeAll
        <4>. QED BY <2>2, <4>1, Zenon DEF Buttons
      <3>. QED BY <2>1, <2>2, <3>1 DEF Shows
    <2>. QED BY <1>12, <2>3, <2>4
  <1>13. ASSUME NEW kind \in Kinds, NEW del \in {0, 1}, openFileList(r, kind, del) PROVE FALSE
    <2>1. PICK c \in Calls : Start(r, c) /\ c.op # "kill"
      BY <1>13, AnonIsCall, ListIsCall, Values DEF openFileList
    <2>. QED BY <1>8, <2>1
  <1>14. ASSUME NEW d \in Places, Start(r, ListCall(currentkind, currentDelete, d)) PROVE FALSE
    <2>1. PICK c \in Calls : Start(r, c) /\ c.op # "kill"
      BY <1>14, ListIsCall DEF TypeOK, GlobalType
    <2>. QED BY <1>8, <2>1
  <1>15. CASE \E d \in AllDirs : openThisFile(r, d)
    BY <1>14, <1>15 DEF openThisFile, Places
  <1>16. ASSUME NEW op \in Ops \ {"kill", "list"}, NEW del \in {0, 1}, NEW dir \in Places, NEW items \in SUBSET Items,
                NEW from \in Places, Start(r, Call(op, "*", del, dir, items, from))
         PROVE  FALSE
    <2>1. PICK c \in Calls : Start(r, c) /\ c.op # "kill"
      <3>1. Call(op, "*", del, dir, items, from) \in CallType
        BY Values DEF Call, CallType, Places
      <3>. QED BY <1>16, <3>1 DEF Call, Calls
    <2>. QED BY <1>8, <2>1
  <1>17. {} \in SUBSET Items /\ {"back", "mkdir", "addfile", "anon", "logout", "leave"} \subseteq Ops \ {"kill", "list"}
         /\ currentdir \in Places /\ currentDelete \in {0, 1}
    BY DEF Ops, TypeOK, GlobalType
  <1>18. ~backparentdir(r) /\ ~createNewDir(r)
    BY <1>16, <1>17, Values DEF backparentdir, createNewDir
  <1>19. ASSUME NEW f \in NewFiles, doUploadfile(r, f) PROVE FALSE
    <2>1. {f} \in SUBSET Items
      BY DEF Items
    <2>. QED BY <1>16, <1>17, <1>19, <2>1, Values DEF doUploadfile
  <1>20. ~useAnonymous(r) /\ ~logoutFunc(r)
    BY <1>16, <1>17, Values DEF useAnonymous, logoutFunc, NewCall
  <1>. QED BY <1>5, <1>10, <1>11, <1>12, <1>13, <1>15, <1>18, <1>19, <1>20 DEF Click

\* On a settled account page files are removed for good and restored only from the
\* recycle bin.
THEOREM KillsAlwaysFit == Spec => KillsFit
  <1>1. TypeOK /\ PageInv /\ [Next]_vars =>
            [\A s \in Slots :
                LET c == calls'[s]
                IN  Calm /\ loginuser = 1 /\ calls[s] # c /\ c # None /\ c.op = "kill" /\ c.del \in {0, 2}
                      => \A i \in c.items : mark[i] = 1]_vars
    BY CalmKills
  <1>. QED BY <1>1, PageAlways, PTL DEF Spec, KillsFit
=============================================================================
