------------------------------ MODULE FilePage ------------------------------
(***************************************************************************)
(* The file page of the web client (file-index.js, and the login and       *)
(* logout of user.js).  Every click starts an ajax call and returns; the   *)
(* answers come back in any order, or never, and their callbacks read and  *)
(* write the same globals (currentdir, currentkind, currentDelete,         *)
(* loginuser) and the same table.  The account's files are kept by the     *)
(* centre (external); anonymous files are those of the local node.         *)
(*                                                                         *)
(* currentpage is shown and never sent: limit and offset are commented     *)
(* out.  A selection of checkboxes is any non-empty set of rows.           *)
(***************************************************************************)
EXTENDS Naturals, FiniteSets

CONSTANTS Files,      \* the account's files at the start, all at the top
          Dirs,       \* its directories at the start, all at the top
          NewFiles,   \* files that may be uploaded
          NewDirs,    \* directories that may be made
          Root,       \* directory 0
          None,
          Slots,      \* bound: calls under way at the same time, those of a page that
                      \* was left included
          MaxClicks   \* bound: calls started by the user

AllDirs == Dirs \cup NewDirs
Items == Files \cup NewFiles \cup AllDirs
Places == {Root} \cup AllDirs
Kinds == {"*", "pic"}

VARIABLES
    \* the centre and the local node
    where,        \* item -> directory, None when it does not exist
    mark,         \* item -> 1 when in the recycle bin, 0 otherwise
    valid,        \* the centre knows the session
    local,        \* files in the store of the local node
    \* the browser
    page,         \* "files", or "away" on the login page
    cookie,       \* the cookie Sessionid is there
    loginuser, currentdir, currentkind, currentDelete,
    trashButtons, \* removeBT shown; uploadBT, downloadBT and newdirBT hidden
    table,        \* rows of mainTable
    restorable,   \* rows that were drawn with the button reuseItem
    clicks,       \* calls the user has started
    calls,        \* slot -> ajax call under way, None when free
    settled       \* history: since a listing or a page that was started alone, no call
                  \* was started while another was under way and none was lost

centre == <<where, mark, valid, local>>
globals == <<loginuser, currentdir, currentkind, currentDelete, trashButtons>>
rows == <<table, restorable>>
vars == <<centre, page, cookie, globals, rows, clicks, calls, settled>>

\* /api/file/mine, /store/getlist, /api/file/createDir, /api/file/backParent,
\* /api/file/kill, /store/addfile, /api/user/logout (from
\* useAnonymous, from doLogoutFunc to index.html, and from it to ?user=0).
Ops == {"list", "anon", "mkdir", "back", "kill", "addfile", "record", "logout", "leave", "restart"}

\* res: what the centre answered; left: the page that sent it is gone;
\* from: history, where an upload began.
Call(op, kind, del, dir, items, from) ==
    [op |-> op, kind |-> kind, del |-> del, dir |-> dir, items |-> items, from |-> from,
     res |-> "sent", data |-> {}, left |-> FALSE]
NewCall(op) == Call(op, "*", 0, Root, {}, Root)
\* None stands for no call; the first page lists in the first slot.
CallType ==
    [op : Ops, kind : Kinds, del : 0..2, dir : Places, items : SUBSET Items, from : Places,
     res : {"sent", "ok", "refused"}, data : SUBSET Items, left : BOOLEAN]

ASSUME CallsAssumption == None \notin CallType /\ 1 \in Slots /\ MaxClicks \in Nat

Open == {s \in Slots : calls[s] # None}
Calm == settled /\ Open = {}

\* History: a call that is started while another is under way unsettles the page;
\* a listing of the account that is started alone settles it.
SettledAfter(others, c) ==
    IF others # {} THEN FALSE ELSE settled \/ (c.op = "list" /\ loginuser = 1)

\* The first free slot.
Free(s) == calls[s] = None /\ \A r \in Slots : r < s => calls[r] # None

Start(s, c) ==
    /\ clicks < MaxClicks /\ clicks' = clicks + 1
    /\ Free(s)
    /\ calls' = [calls EXCEPT ![s] = c]
    /\ settled' = SettledAfter(Open, c)

\* The callback of slot s starts another call in its place.
Follow(s, c) ==
    /\ calls' = [calls EXCEPT ![s] = c]
    /\ settled' = SettledAfter(Open \ {s}, c)
End(s) == calls' = [calls EXCEPT ![s] = None]
-----------------------------------------------------------------------------
(* getFileList and getAnonymousFileList up to the ajax call.               *)

ListCall(kind, del, dir) == Call("list", kind, del, dir, {}, Root)
AnonCall(kind) == Call("anon", kind, 0, Root, {}, Root)

\* Mutant: the buttons are left as they are.
Listing_KeepsButtons(kind, del) == currentDelete' = del /\ UNCHANGED <<loginuser, currentdir, currentkind, trashButtons>>

\* What getFileList changes before the answer: the buttons and currentDelete.
Listing(kind, del) ==
    /\ trashButtons' = (del = 1)
    /\ currentDelete' = del
    /\ UNCHANGED <<loginuser, currentdir, currentkind>>

\* Mutant: the table is left as it is.
AnonListing_KeepsRows ==
    /\ loginuser' = 0
    /\ UNCHANGED <<rows, currentdir, currentkind, trashButtons>>

\* What getAnonymousFileList changes before the answer.
AnonListing ==
    /\ loginuser' = 0
    /\ table' = {} /\ restorable' = {}
    /\ UNCHANGED <<currentdir, currentkind, trashButtons>>

\* The document of the page is replaced: every global has its first value again. What
\* was sent is still handled by the centre, but no callback of the old page runs.
Left(c) == IF c # None /\ c.res = "sent" THEN [c EXCEPT !.left = TRUE] ELSE None
Leave(s, c) ==
    /\ calls' = [r \in Slots |-> IF r = s THEN c ELSE Left(calls[r])]
    /\ currentdir' = Root /\ currentkind' = "*" /\ currentDelete' = 0 /\ trashButtons' = FALSE
    /\ table' = {} /\ restorable' = {}

\* init, after the page was loaded for the user or with ?user=0; the call of slot s
\* that led to it makes room for the page's first. It is settled if that call is alone.
FreshPage(s, user, c) ==
    /\ Leave(s, c)
    /\ page' = "files"
    /\ loginuser' = user
    /\ settled' = \A r \in Slots \ {s} : Left(calls[r]) = None

\* The login page; nothing is settled before the next listing.
Away(s) ==
    /\ Leave(s, None)
    /\ page' = "away"
    /\ loginuser' = 1
    /\ settled' = FALSE

\* With ?user=0: a cookie k that is still there is logged out first.
FreshAnonymous(s, k) == FreshPage(s, 0, IF k THEN NewCall("restart") ELSE NewCall("anon"))

Init ==
    /\ where = [i \in Items |-> IF i \in Files \cup Dirs THEN Root ELSE None]
    /\ mark = [i \in Items |-> 0]
    /\ valid = TRUE /\ cookie = TRUE /\ local = {}
    /\ page = "files"
    /\ loginuser = 1 /\ currentdir = Root /\ currentkind = "*" /\ currentDelete = 0
    /\ trashButtons = FALSE
    /\ table = {} /\ restorable = {}
    /\ clicks = 0
    /\ calls = [s \in Slots |-> IF s = 1 THEN ListCall("*", 0, Root) ELSE None]
    /\ settled = TRUE
-----------------------------------------------------------------------------
(* Clicks.                                                                 *)

\* The recycle bin is hidden on the anonymous page.
openFileList(s, kind, del) ==
    /\ page = "files"
    /\ \/ /\ loginuser = 0 /\ del = 0
          /\ currentDelete' = del
          /\ AnonListing
          /\ Start(s, AnonCall(kind))
       \/ /\ loginuser = 1
          /\ Listing(kind, del)
          /\ Start(s, ListCall(kind, del, Root))
          /\ UNCHANGED rows
    /\ UNCHANGED <<centre, page, cookie>>

openThisFile(s, d) ==
    /\ page = "files"
    /\ d \in table
    /\ Listing(currentkind, currentDelete)
    /\ Start(s, ListCall(currentkind, currentDelete, d))
    /\ UNCHANGED <<centre, page, cookie, rows>>

backparentdir(s) ==
    /\ page = "files"
    /\ currentdir # Root
    /\ Start(s, Call("back", "*", currentDelete, currentdir, {}, Root))
    /\ UNCHANGED <<centre, page, cookie, globals, rows>>

\* Hidden on the anonymous page, until a late callback of the account lists there.
createNewDir(s) ==
    /\ page = "files" /\ ~trashButtons
    /\ Start(s, Call("mkdir", "*", 0, currentdir, {}, Root))
    /\ UNCHANGED <<centre, page, cookie, globals, rows>>

dokillItem(s, items, kill) ==
    Start(s, Call("kill", "*", kill, Root, items, Root))

reuseItem(s, i) ==
    /\ page = "files" /\ i \in restorable
    /\ currentDelete' = 1
    /\ dokillItem(s, {i}, 0)
    /\ UNCHANGED <<centre, page, cookie, loginuser, currentdir, currentkind, trashButtons, rows>>

\* A row of a local file has no id and dokillItem throws; a listing of the account that
\* came late gives the anonymous page rows that have one.
killItem(s, i) ==
    /\ page = "files" /\ i \in table
    /\ loginuser = 1 \/ i \notin local \/ where[i] # None
    /\ dokillItem(s, {i}, 1)
    /\ UNCHANGED <<centre, page, cookie, globals, rows>>

\* Mutant: the branches are swapped.
DeleteMode_Swapped == currentDelete
DeleteMode == 1 - currentDelete

deleteAll(s, items) ==
    /\ page = "files" /\ loginuser = 1
    /\ dokillItem(s, items, DeleteMode)
    /\ UNCHANGED <<centre, page, cookie, globals, rows>>

\* kill = -1 in the code.
removeAll(s, items) ==
    /\ page = "files" /\ trashButtons
    /\ dokillItem(s, items, 2)
    /\ UNCHANGED <<centre, page, cookie, globals, rows>>

doUploadfile(s, f) ==
    /\ page = "files" /\ ~trashButtons /\ f \notin local
    /\ Start(s, Call("addfile", "*", 0, Root, {f}, currentdir))
    /\ UNCHANGED <<centre, page, cookie, globals, rows>>

useAnonymous(s) ==
    /\ page = "files"
    /\ \/ /\ ~cookie
          /\ AnonListing /\ UNCHANGED currentDelete
          /\ Start(s, NewCall("anon"))
       \/ /\ cookie
          /\ Start(s, NewCall("logout"))
          /\ UNCHANGED <<globals, rows>>
    /\ UNCHANGED <<centre, page, cookie>>

logoutFunc(s) ==
    /\ page = "files"
    /\ Start(s, NewCall("leave"))
    /\ UNCHANGED <<centre, page, cookie, globals, rows>>

\* The login page: loginFunc answered with a session goes to file-index.html.
loginFunc(s) ==
    /\ page = "away" /\ Free(s)
    /\ cookie' = TRUE /\ valid' = TRUE
    /\ FreshPage(s, 1, ListCall("*", 0, Root))
    /\ UNCHANGED <<where, mark, local>>
-----------------------------------------------------------------------------
(* External: the centre and the local node handle a call; either may refuse. *)
(* A call that was left was sent with the cookie the page had then.         *)

Listed(kind, del, dir) ==
    {i \in Items : where[i] = dir /\ mark[i] = del /\ (kind = "pic" => i \notin AllDirs)}

Unused(ids) == {i \in ids : where[i] = None}

ServeList(c, r) ==
    /\ r.dir = c.dir
    /\ r.data = Listed(c.kind, c.del, c.dir)
    /\ UNCHANGED <<where, mark>>

ServeBack(c, r) ==
    /\ c.dir \in AllDirs /\ where[c.dir] # None
    /\ r.dir = where[c.dir]
    /\ r.data = Listed("*", c.del, where[c.dir])
    /\ UNCHANGED <<where, mark>>

ServeCreate(c, r, ids) ==
    /\ ids # {}
    /\ r.dir = c.dir
    /\ LET i == CHOOSE j \in ids : TRUE
       IN  /\ r.data = {i}
           /\ where' = [where EXCEPT ![i] = c.dir]
           /\ UNCHANGED mark

\* What was removed for good meanwhile cannot be marked.
ServeKill(c, r) ==
    /\ r.dir = c.dir /\ r.data = {}
    /\ where' = [i \in Items |-> IF i \in c.items /\ c.del = 2 THEN None ELSE where[i]]
    /\ mark' = [i \in Items |-> IF i \in c.items /\ where[i] # None THEN c.del % 2 ELSE mark[i]]

\* A call with its answer, which nobody waits for once the page is gone.
Served(c, res, data, dir) ==
    IF c.left THEN None
    ELSE [op |-> c.op, kind |-> c.kind, del |-> c.del, dir |-> dir, items |-> c.items,
          from |-> c.from, res |-> res, data |-> data, left |-> FALSE]
Answers == [data : SUBSET Items, dir : Places]

Serve(s) ==
    LET c == calls[s]
    IN  /\ c # None /\ c.res = "sent"
        /\ \/ \* refused, or the session is not known
              /\ calls' = [calls EXCEPT ![s] = Served(c, "refused", {}, c.dir)]
              /\ UNCHANGED <<where, mark, valid, local>>
           \/ /\ valid /\ (cookie \/ c.left)
              /\ \E r \in Answers :
                    /\ \/ c.op = "list" /\ ServeList(c, r)
                       \/ c.op = "back" /\ ServeBack(c, r)
                       \/ c.op = "mkdir" /\ ServeCreate(c, r, Unused(NewDirs))
                       \/ c.op = "record" /\ ServeCreate(c, r, Unused(c.items))
                       \/ c.op = "kill" /\ ServeKill(c, r)
                    /\ calls' = [calls EXCEPT ![s] = Served(c, "ok", r.data, r.dir)]
              /\ UNCHANGED <<valid, local>>
           \/ /\ c.op \in {"logout", "leave", "restart"}
              /\ valid' = FALSE
              /\ calls' = [calls EXCEPT ![s] = Served(c, "ok", {}, c.dir)]
              /\ UNCHANGED <<where, mark, local>>
           \/ /\ c.op \in {"anon", "addfile"}
              /\ local' = local \cup c.items
              /\ calls' = [calls EXCEPT ![s] = Served(c, "ok", local \cup c.items, c.dir)]
              /\ UNCHANGED <<where, mark, valid>>
        /\ UNCHANGED <<page, cookie, globals, rows, settled>>

\* No handler is given for an ajax error: nothing tells the page.
Lose(s) ==
    /\ calls[s] # None
    /\ End(s)
    /\ settled' = FALSE
    /\ UNCHANGED <<centre, page, cookie, globals, rows>>

\* The cookie and the session are given one day.
Expire ==
    /\ cookie
    /\ cookie' = FALSE /\ valid' = FALSE
    /\ UNCHANGED <<where, mark, local, page, globals, rows, calls, settled>>
-----------------------------------------------------------------------------
(* Callbacks.                                                              *)

Answered(s, op) == calls[s] # None /\ calls[s].op = op /\ calls[s].res # "sent"

\* The table and the globals are those of the call, whatever was clicked since.
ShowList(c) ==
    /\ table' = c.data
    /\ restorable' = IF c.del = 1 THEN c.data ELSE {}
    /\ currentkind' = c.kind /\ currentDelete' = c.del /\ currentdir' = c.dir
    /\ UNCHANGED <<loginuser, trashButtons>>

\* Any status but 200 leads to the login page.
ListAnswer(s) ==
    LET c == calls[s]
    IN  /\ Answered(s, "list")
        /\ \/ /\ c.res = "ok"
              /\ ShowList(c)
              /\ End(s)
              /\ UNCHANGED <<page, settled>>
           \/ /\ c.res = "refused"
              /\ Away(s)
        /\ UNCHANGED <<centre, cookie>>

\* The rows are added to whatever the table holds by now.
AnonAnswer(s) ==
    /\ Answered(s, "anon")
    /\ table' = IF calls[s].res = "ok" THEN table \cup calls[s].data ELSE table
    /\ End(s)
    /\ UNCHANGED <<centre, page, cookie, globals, restorable, settled>>

MkdirAnswer(s) ==
    /\ Answered(s, "mkdir")
    /\ table' = table \cup calls[s].data
    /\ End(s)
    /\ UNCHANGED <<centre, page, cookie, globals, restorable, settled>>

BackAnswer(s) ==
    /\ Answered(s, "back")
    /\ \/ /\ calls[s].res = "ok"
          /\ table' = calls[s].data /\ restorable' = {}
          /\ currentdir' = calls[s].dir
       \/ /\ calls[s].res = "refused"
          /\ UNCHANGED <<rows, currentdir>>
    /\ End(s)
    /\ UNCHANGED <<centre, page, cookie, loginuser, currentkind, currentDelete, trashButtons, settled>>

\* Mutant: the page is not listed again.
Relist_Never(s) == End(s) /\ UNCHANGED <<globals, settled>>

\* getFileList(currentpage, currentkind, currentDelete, currentdir).
Relist(s) ==
    /\ Listing(currentkind, currentDelete)
    /\ Follow(s, ListCall(currentkind, currentDelete, currentdir))

KillAnswer(s) ==
    /\ Answered(s, "kill")
    /\ \/ calls[s].res = "ok" /\ Relist(s)
       \/ calls[s].res = "refused" /\ End(s) /\ UNCHANGED <<globals, settled>>
    /\ UNCHANGED <<centre, page, cookie, rows>>

\* Mutant: the file is recorded at the top.
UploadDir_Root == Root

\* The directory is read when the file has been stored, not when it was chosen.
UploadDir == currentdir

AddfileAnswer(s) ==
    LET c == calls[s]
    IN  /\ Answered(s, "addfile")
        /\ \/ /\ c.res = "refused"
              /\ End(s)
              /\ UNCHANGED <<globals, rows, settled>>
           \/ /\ c.res = "ok" /\ loginuser = 0
              /\ AnonListing /\ UNCHANGED currentDelete
              /\ Follow(s, AnonCall("pic"))
           \/ /\ c.res = "ok" /\ loginuser = 1
              /\ Follow(s, Call("record", "*", 0, UploadDir, c.items, c.from))
              /\ UNCHANGED <<globals, rows>>
        /\ UNCHANGED <<centre, page, cookie>>

RecordAnswer(s) ==
    /\ Answered(s, "record")
    /\ \/ calls[s].res = "ok" /\ Relist(s)
       \/ calls[s].res = "refused" /\ End(s) /\ UNCHANGED <<globals, settled>>
    /\ UNCHANGED <<centre, page, cookie, rows>>

\* useAnonymous: the page is loaded again with ?user=0, the cookie still there.
LogoutAnswer(s) ==
    /\ Answered(s, "logout")
    /\ \/ calls[s].res = "ok" /\ FreshAnonymous(s, cookie)
       \/ calls[s].res = "refused" /\ End(s) /\ UNCHANGED <<page, globals, rows, settled>>
    /\ UNCHANGED <<centre, cookie>>

\* doLogoutFunc deletes the cookie whatever the answer is.
LeaveAnswer(s) ==
    /\ \/ /\ Answered(s, "restart")
          /\ FreshAnonymous(s, FALSE)
       \/ /\ Answered(s, "leave")
          /\ Away(s)
    /\ cookie' = FALSE
    /\ UNCHANGED centre
-----------------------------------------------------------------------------
Selections == (SUBSET table) \ {{}}

Click(s) ==
    \/ \E kind \in Kinds, del \in {0, 1} : openFileList(s, kind, del)
    \/ \E d \in AllDirs : openThisFile(s, d)
    \/ backparentdir(s) \/ createNewDir(s)
    \/ \E i \in Items : reuseItem(s, i) \/ killItem(s, i)
    \/ \E sel \in Selections : deleteAll(s, sel) \/ removeAll(s, sel)
    \/ \E f \in NewFiles : doUploadfile(s, f)
    \/ useAnonymous(s) \/ logoutFunc(s)

Callback(s) ==
    \/ ListAnswer(s) \/ AnonAnswer(s) \/ MkdirAnswer(s) \/ BackAnswer(s) \/ KillAnswer(s)
    \/ AddfileAnswer(s) \/ RecordAnswer(s) \/ LogoutAnswer(s) \/ LeaveAnswer(s)

Next ==
    \/ \E s \in Slots : Click(s)
    \/ /\ \/ \E s \in Slots : Serve(s) \/ Callback(s) \/ Lose(s) \/ loginFunc(s)
          \/ Expire
       /\ UNCHANGED clicks

Spec == Init /\ [][Next]_vars
-----------------------------------------------------------------------------
\* The account page, once nothing is under way and the user has waited for each
\* answer since the last listing that came back alone, shows what the centre has:
\* every row is an item of the directory and of the side (live or recycle bin)
\* the globals name, and with kind "*" none is missing.  This is what every
\* later click, upload and refresh relies on.
TableMatches ==
    Calm /\ page = "files" /\ loginuser = 1
        => /\ table \subseteq Listed("*", currentDelete, currentdir)
           /\ currentkind = "*" => table = Listed("*", currentDelete, currentdir)

\* The buttons belong to the table: removeAll is offered for the recycle bin only.
ButtonsMatch == Calm /\ page = "files" /\ loginuser = 1 => trashButtons = (currentDelete = 1)

\* The anonymous page shows files of the local node only, never the account's.
AnonymousShowsLocal == Calm /\ page = "files" /\ loginuser = 0 => table \subseteq local

\* On a page that is settled, files are removed for good and restored only from
\* the recycle bin.
KillsFit ==
    [][\A s \in Slots :
          LET c == calls'[s]
          IN  Calm /\ loginuser = 1 /\ calls[s] # c /\ c # None /\ c.op = "kill" /\ c.del \in {0, 2}
                => \A i \in c.items : mark[i] = 1]_vars

\* An upload of a user who waits for it is recorded in the directory it began in.
UploadsLand ==
    \A s \in Open : settled /\ Open = {s} /\ calls[s].op = "record" => calls[s].dir = calls[s].from
=============================================================================
