# polarcloud in TLA+

polarcloud is a peer-to-peer network in Go with a wallet and a block chain on
top of it, and web pages in JavaScript to use it. This directory holds TLA+
models of its core, the TLC configurations that check them on small instances,
and TLAPS proofs of the results that hold for every instance.

## 1. The system

| Part (directory) | State it keeps | Operations | Hard behaviour |
|---|---|---|---|
| Block pipeline (`wallet/mining/sync.go`, `chain.go`, `load.go`, `mining.go`, `handlers.go`, `wallet/manager.go`) | LevelDB blocks and transactions, list of blocks in memory, `unpackedTransactions`, three heights, the channel `syncSaveBlockHead` | `AddBlockHead`, `saveBlockHead`, `AddBlock`, `Mining`/`BuildBlockForPOW`, `LoadBlockChain`, `SyncBlockHead`, broadcasts received | a one-slot channel whose reader also writes to it, two goroutines on one chain without a lock, blocks out of order or twice, crashes between puts, forks |
| Balances and transactions (`balance.go`, `transaction*.go`, `operation.go`, `tx_history.go`) | unspent outputs per address, `unpackedTransactions`, history | `CountBalanceForBlock`/`count`, `CreateTxPay`, `SendToAddress`, `CreateTxDepositIn`, `PayDeposit` | blocks counted before their height is tested, outputs offered again while a payment waits, broadcast before pooling, 64-bit sums |
| Witnesses and election (`witness*.go`, `miner_backup.go`, `election.go`) | candidates, votes, witness groups | `addWitness`, `BuildWitness`, votes | the witness group is never installed in this revision, so blocks are always built by proof of work |
| Request/reply (`core/message_center/waitrecv.go`) | class -> tag -> channel | `WaitRequest`, `ResponseWait` | a reply before the registration, a timeout racing a late reply, two first callers of a class |
| Message centre (`core/message_center`) | hashes of the last minute, routes | `SendToSuperAll`, `IsSendOther`, `CheckHash`, find-node handlers | duplicates, forwarding loops |
| Timers (`core/utils/timetask.go`) | ordered list of due tasks | `Add`, `Remove`, `start` | the runner reads the head outside the lock, also while `Add` sorts the list, and deletes it in a section of its own |
| Sessions (`core/engine`, `core/auth.go`) | session store by name, one receive goroutine per connection, `OutCloseConnName` | dial, accept, handshake, `addSession`, receive loop, `Close` | the receive goroutine starts before the session is stored, `Close` removes a name and not a connection, a channel nobody reads, reads without a deadline, a loop that can spin |
| Routing table (`core/nodeStore`) | super nodes, proxies, logic ids | `AddNode`, `DelNode`, `FindNearInSuper`, `GetIdsForFar` | limits of the table, nearest-node arithmetic on ids |
| Team cache (`core/cache/raft`, `core/cache/cachedata`) | team role, term index, votes, cached data | election, heartbeat, `syncData` | several candidates at once, late votes, deletes travelling with saves |
| File store (`store`) | file index, chunk tables, local, cached and shared files | add, share, download, keep-alive | chunks from several nodes, expiry |
| Names, addresses, proxies (`core/*.go`, `core/addr_manager`, `core/cache_store`, `core/socks5`, `core/persistence`, `core/proto`) | name records, reachable super nodes, tunnels | registration, lookup, ageing | |
| Keys (`wallet/keystore`, `core/engine/crypto`) | seeds, keys, signatures | derive, sign, verify | cryptography, not a state machine |
| Web client (`web/static/assets/js/model`) | globals, cookies, the table on the page, ajax calls under way, intervals | listing, directories, recycle bin, upload, logout, anonymous use; login, registration | answers in any order or never, callbacks that read globals and fields again, a timer per click |
| Controllers, commands, configuration (`web/controllers`, `boot`, `wallet/rpc`, `config`) | beego controllers, command line | forms and RPC calls onto the parts above | |

How they interact: a broadcast reaches a handler through a session and the
message centre (which drops hashes it has seen); the block handler starts a
goroutine that sends the block into the pipeline's channel; the pipeline reads
and writes LevelDB, updates the chain in memory, the balance and the pool, and
mines; `Register` loads and synchronises in the main goroutine and asks its
neighbours through the request/reply table. A handshake writes the node tables
that routing reads, and `Close` takes out of them again. The web client talks to
a centre, which is not in this repository, and to the local node.

## 2. Modules

| Module | Models |
|---|---|
| `ChainNode`, `MCChainNode` | the block pipeline of one node, and its TLC instance |
| `ChainNode_proofs` | type correctness, the inductive invariants and all safety theorems of `ChainNode` |
| `WaitRecv`, `MCWaitRecv` | requests that wait for a reply (`core/message_center/waitrecv.go`) |
| `RequestReply` | what a caller of `WaitRequest` is promised; `WaitRecv` implements it |
| `WaitRecv_proofs` | that it does |
| `TimeTask`, `TimeTask_proofs` | the timer (`core/utils/timetask.go`) |
| `Alarm` | what a caller of `Add` is promised; `TimeTask` implements it |
| `Wallet`, `MCWallet`, `Wallet_proofs` | the unspent outputs of a wallet, payments, deposits, rewards and the pool (`wallet/mining/balance.go`, `transaction_pay.go`, `transaction_deposit.go`, `operation.go`) |
| `Sessions`, `Sessions_proofs` | connections, handshakes, receive goroutines and the session store (`core/engine`, `core/auth.go`) |
| `FilePage`, `FilePage_proofs` | the file page of the web client (`file-index.js`, login and logout of `user.js`) |
| `LoginPage`, `LoginPage_proofs` | the login and registration pages (`user.js`, `register.js`, `gVerify.js`) |
| `Routing`, `MCRouting`, `Routing_proofs` | a message and its reply over node tables that change (`core/message_center`, `core/auth.go`, `core/manager.go`, `core/nodeStore/nodeManager.go`) |

`PROJECT.json` maps every definition to the lines it models and names, for every
property, a mutant of one definition that breaks it. Mutants stand in the
modules in front of the definition they change, marked "Mutant".

### ChainNode

A block is its index in `made`, the sequence of all blocks the network ever
built; its record holds the fields the pipeline reads (height, group height,
predecessor, transactions, whether this node mined it). `next` is the block
table of LevelDB with each block's `Nextblockhash`, `txdb` the blocks whose
transactions were saved, `keyStart` the key of the first block. `chain` is the
list of `Block`s reached from `chain.group`, `counted` the blocks the balance
was counted for, `pool` is `unpackedTransactions`. `pc`, `blk`, `seen` and
`built` are the program counters and locals of the two goroutines that run
`AddBlock`: `saveBlockHead` ("saver") and `Register` ("main"). One action is a
stretch of code between two points where the other goroutine, a handler or a
crash can be noticed: the saver's loop body is `TakeBlock`, `SaveTxs`,
`LinkPrevious`, `SaveBlock`, then `AddBlock` (`CheckHeight`, `InsertBlock`,
`SkipMining` or `BuildBlockForPOW` and `SendOwn`), then `RaiseHighest`.
`SyncBlockHead` and `SyncFetched` are the requests that were answered, or whose
answer names nothing; one that is not answered is parsed as nil and ends the
process (`Panic`), after which only a restart (`Crash`) goes on. Both lose the
memory and keep the database (`LoseMemory`). A goroutine may find behind the tail
the block that the other one is inserting (`Found`): `NextBlock` is written before
the block has its group, and who inserts behind such a block reads the height of no
group, which is a panic too (`Ungrouped`).

Abstractions: the reward transaction of a block and signatures are left out;
every broadcast transaction is valid; errors of JSON and of LevelDB itself
(the `return`s that end `saveBlockHead`) do not happen; a miner does not get its
own block back, since relays send away from the sender (`GetIdsForFar`); the
three reads of the tail in `BuildBlockForPOW` see one tail; a read of a
`Nextblockhash` list and the write that appends to it are one step; the writes of
`AddBlock` after the comparison of heights (`chain.go:328-343`) are one step, later
than the read of the tail, but for the half-made state that `Found` lets the other
goroutine see.

### WaitRecv

A request, the tag it is registered under (the hash of its message), the channel
of the tag and the right answer share one name, since a message hash is fresh.
`waitRequest` is the outer `sync.Map` (class -> tag map), `tagMap` the inner
ones, named after the request that created them. Every call on a `sync.Map` is
an action: `LoadClass`, `StoreClass` or `StoreTag` for the caller, then the
`select` as `Receive` or `Timeout`; `ResponseWait` and `SendReply` for the
handler. A handler may hold a tag map that has been replaced since. Replies may
be absent, late or repeated (`MaxReplies`).

### TimeTask

`task` and `taskMap` of the code are one function `ticks` from a second to the
tasks due then; the slice is its support. `start` takes the lock to test
the length and to delete the head only; its other reads of `task[0]`
(`ReadHead`, `ArmTicker`, `RunHead`) are steps of their own, so an `Add` can fall
between any two, or a read into the middle of its sort. `Plan` is the caller's
`time.Now().Unix() + n`, `Insert` the append under the lock, `Unlock` the end of
`sort.Sort`, `Notify` the non-blocking send after it. What a read may find while an
`Add` sorts is `Front`: `sort.Sort` sorts up to 12 entries by insertion (`Small`),
where `task[0]` is the old head or the new one; with more it moves its pivots
through `task[0]`, and a read may find any entry. A caller may be overtaken by the
clock between `Plan` and `Unlock`, which the history variable `late` remembers;
`misled` remembers that a read during a sort found an entry that was not the head.
The properties that need prompt callers and no such read say so (`Prompt`).

`Alarm` is the timer without a list, a lock or a loop: tasks wait for their second,
and while no task was added late all that wait for the earliest second are called in
one step once it has come (`OnTime`). Once a task was added late, any tasks of one
second that has come may be called again, or never. `KeepsTime` maps the inserted
tasks to `set`, the one that is being sorted in to `setting` and `ran` to `calls`;
everything else `start` does stutters. It holds up to the first read that misleads
`start`: from there on `Alarm` is not kept (section 5, `timer_crowd`).

### Routing

State: each node's `IsSuper`, `Nodes`, `Proxys`, `SuperPeerId` and session
names, and one message (`MessageHead`, where it is, the session it came from).
Messages do not change tables, so one message stands for all. `Send` is
`NewMessageHead` with `Message.Send`, `IsSendOther` the routing of
`IsSendToOtherSuperToo` at each hop, `Reply` the answer of the node that handles
it. `Handshake` is `SendKey` and `RecvKey` in one step, with what the node that
has dialled does to its `SuperPeerId` afterwards (`Dialled`), `CloseConn` the close
callback at one end. An id whose digest starts with a zero byte (`Short`) is
returned by `FindNearInSuper` under a name no session has, because
`big.Int.Bytes` drops leading zeros. Which slots of the table a new id takes is
left open (`Tables`). `visited` and `strayed` are history.

### Wallet

`txs` are all transactions, `blocks` all blocks; a block is its predecessor, its
height and its transactions, with the history field `packed` of what its chain
holds. `balance` is the set of outputs in `balanceM`, `pool` is
`unpackedTransactions`. `count` is exact as a relation: `count` of the code goes
through a block in order, and where a transaction stands before the one whose
output it spends, the output stays. `Taken` gives every set of outputs the
unordered `Range` may have collected when it stops. `SendToAddress` broadcasts
first and pools later, so it is two actions (`SendToAddress`, `StorePay`). `Sum` is the
sum of the outputs' values, `Total` what the code has of it in a word: it is tested after every
output, and `Taken` follows it where it wraps and becomes less. `saveBlockHead` is one action here; its interleavings are
those of `ChainNode`. The wallet has the miner's address and one other. Left out:
withdrawals and votes (nothing creates one), signatures, the history.

### Sessions

A connection goes through the positions of `AddClientConn` or `newConnect`
(`pc`) while its receive goroutine goes through its own (`recv`): the goroutine is
started in the handshake and the session stored afterwards, so a close can come
before the store. `CloseCallback` and `CloseConn` use the name the session has at
that moment (`label`), which for a dialled connection is the engine's own name at
first. A close asked for by the other node (`ask ...`) happens inside a handler,
after which the loop closes once more. `AddNode` leaves open whether the id finds
a slot and which ones it replaces; they are deleted and reported to the channel one by
one (`Evict`, `Report`). The reads of the handshake have no deadline: they end
when the other node answers or the read fails (`Hear`), which nothing makes it do
(`Waits`). The receive loop may stop coming back to its socket (`Stick`): a panic that
`RecvPackage` recovers leaves the bytes where they are and no error, so the loop
spins; a handler, or the other side of `WaitChan`, may not return. `hasty` (closed before stored) and `shared`
(two connections of one name at a time) are history; the properties are
stated for names that were neither, and the two cases are real (section 5).

### FilePage

A click is an action that changes the globals and fills a slot with an ajax call;
the centre serves the call (`Serve...`, external) in any order, and the callback is
an action of its own, or the call is lost. A call of a page that was left since is
still served, but its callback never runs (`left`). The globals, the table and the visible
buttons are variables under the names of the script. `settled` is history: since
a listing or a page that was started alone, no call was started while another was
under way, a call of a page that was left included, and none was lost. `TableMatches`, `ButtonsMatch`, `AnonymousShowsLocal` and
`KillsFit` are promises to a user who waits for answers; a user who does not can see
the rows of one listing under the buttons of another.

### LoginPage

Cookies, fields, the checkbox, the global `cryptoPassword` and the picture code of
the login page; SMS codes, the cookie `smscode` and the intervals of the
registration page. A password is `[of, n]`: whose it is and how often it was
hashed. `Kept` is what `setCookie` does with less than a day. `touched` (the form
was used while a login was under way) and `expired` (the cookies ran out under an
open page) are history and name the two cases in which the properties may fail.
Every SMS code that is asked for is a new one (`asked`), with an interval of its own.

## 3. Runs

| Run | Instance | What it shows |
|---|---|---|
| `chain_genesis` | first node, miner, 3 blocks, every block up to twice, 1 crash | database and chain stay consistent through repeated deliveries and a kill and restart at every point; the chain follows hashes while there is no fork; a restart counts the stored successors the first block lists |
| `chain_join` | joining node, 1 transaction, 3 blocks | `StoreInv` and `HighestCovers` for synchronisation racing broadcasts; every broadcast gets through the channel and the saver always returns, unless an unanswered request has ended the process |
| `wait_requests` | 3 requests, 2 of one class, 2 replies each | a waiting caller is found unless it was raced; the refinement of `RequestReply`; every request ends |
| `timer` | 3 tasks, 3 due seconds, `Small` = 2, the clock to 1 and on while `start` sleeps | the refinement of `Alarm` as long as no sort misleads `start`: nothing early, seconds in order; with prompt callers each task once and no panic; nothing stays listed |
| `routing` | 3 nodes (one `Short`), 1 key, 3 changes of the tables | every hop of a super node is nearer; who handles a message knows no nearer node; accurate messages are handled by their node only; no loop among super nodes |
| `wallet` | 4 transactions, 3 blocks, 1 repeated delivery or restart, amounts modulo 8 | nothing unspent is lost; the balance is exact while nothing is counted twice; packed once unless pooled late; payments add up unless a sum does not fit the word |
| `sessions` | 2 connections, 2 names, one place in `OutCloseConnName` | the store holds the living connections, nodes have sessions, handshakes end unless the other node is silent or the channel full, broken connections are closed unless the loop is stuck |
| `file_page` | 1 file, 1 upload, 1 new directory, 2 calls at once, 4 clicks | the table, the buttons and what clicks do agree with the centre for a user who waits |
| `login` | 2 users, 2 calls at once, 3 codes, countdown from 2 | passwords are never sent in the clear, and hashed once unless a cookie ran out; remembered ones work, a countdown that runs alone ends |
| `chain_miner_blocks` (violation) | miner, 4 blocks | the saver blocks on the channel only it reads |
| `wallet_fork` (violation) | as `wallet`, 4 blocks, no fault | a rejected block of another fork puts spent outputs back |
| `timer_crowd` (violation) | as `timer`, the clock to 3 | a read of `task[0]` during the sort of a long list runs a second before it has come |

Why the bounds are enough: three blocks give a chain, a fork and a block before
its predecessor, and a fourth a fork with a block on each side; one slot is the
code's own queue capacity; a second delivery and a second request of a class are
where their hazards start; three seconds and three tasks give a head, a successor and
one that is added between any two steps, two in one second, and with `Small` = 2 a
list that is sorted the long way; three nodes give a
sender, a relay and a target, and three changes a handshake chain, or a link, a
second role and a closed end. Four transactions are the first reward, a payment,
a deposit or received payment, and a further reward; modulo 8 an amount and its
fee can wrap, and so can the sum of the reward and another output. Two connections are a session and the one that replaces it, and a
full channel needs one replacement when it has one place; the report of several
replacements waits at the second. Two calls are what an
answer can overtake; four clicks are a listing, a change of directory or side, an
action on it and one more while it is under way. A countdown from 2 has a
second that is not its last, and two codes give two intervals. The theorems below
hold for every bound.

Deadlock is not checked: a node that has handled all blocks, a caller that has
returned, a message that was handled or a page nobody clicks rests, and the bounds
end the rest.

Fairness. Goroutines that can run do run: weak fairness of the saver, of the
main goroutine and of each pending `AddBlockHead`; of each caller of
`WaitRequest` (its ticker fires, so the `select` ends) and of a handler once it
started; of the timer's loop, its clock and the sort and notification of each `Add`; of
the receive loop that hands a packet to its handler; of each handshake, as long as
it does not read from the other node, and of each receive goroutine of `Sessions`
that reads, which then meets the end of a socket that is closed; of the
browser's intervals in `LoginPage`. Nothing is assumed of neighbours, users, the
centre, the network, crashes or the 24 hour ticker: a handshake whose other end is
silent, a receive loop that is stuck and a process that has ended stay so.

## 4. Proofs

All theorems hold for every value of the constants under the named assumptions
of the modules (`ConstantsAssumption`, `WaitAssumption`, `TimeAssumption`,
`RoutingAssumption`, `WalletAssumption`, `SessionsAssumption`, `CallsAssumption`:
types, distinct special values, and of the metric only that it tells two ids apart
seen from one key, as xor does).

* `ChainNode_proofs`: `TypeCorrect` proves `TypeOK` together with `Control`,
  what a goroutine has in hand at each position; neither is inductive alone,
  since an action indexes `made` by what it has in hand.
  `StoreInv` is inductive relative to those (`StoreAlways`).
  To `PrevStored`, `LinksAreChildren`, `TxsStored` and `ChainContiguous` it adds that
  a goroutine past its database steps has a stored block in hand (`HandStored`),
  that the synchronisation's work list holds children of stored blocks
  (`WalkStored`) and that the tail a goroutine read before inserting still fits
  (`SeenFits`): the three places where state read earlier is used later. `Grows`
  (blocks and stored blocks are never removed) carries the facts across the other
  actor's steps. `ChainAlwaysFollows` needs that a block is one higher than its
  predecessor (`ParentHeights`): without two stored blocks of one height, comparing
  heights is comparing hashes.
* `AlwaysCovers` (`HighestCovers`): `HighestBlock` is raised by the saver after
  `AddBlock` only, so a block is covered, or it is the one the saver has in hand.
  This is not inductive for the chain alone: the main goroutine takes blocks out of
  the database into the chain and raises nothing, so `CoverInv` says it of every
  stored block as long as the main goroutine may still load, and of the tails both
  have read. It ends with a restart: `HighestBlock` is 0 again, and
  loading adds blocks without raising it.
* `AlwaysCounted` (`SuccessorsCounted`): the loader reads the first block's list once
  and then walks what it read, while the saver stores blocks and appends to that list.
  `LoadInv` says where a stored successor is from that moment on: counted in the
  balance, in what is left of the walk, or in the hands of the saver, which will count
  it (`Loaded`, `Awaited`). Counted is not added: of two successors `AddBlock` counts
  both and adds one, and their own successors are not loaded at all (section 5).
* `AlwaysLinked` (`LinkedFromParent`): a block stored again has an empty list, so a
  predecessor must have been stored once, before its successors. `PlacesInv` follows
  a block that was delivered once: it is in one place only (waiting for the
  channel, in it, in the hands of one goroutine, stored), from the delivery on
  (`Single`), and nowhere before (`Nowhere`); `ListInv` then has the list.
* `WaitRecv_proofs`: `WaitInv` (`TypeOK`, `Standing`, and in `OwnAnswer` what a
  channel and a result hold) is inductive;
  `KeepsPromise` maps every step to a step or a stutter of `RequestReply`.
  `AlwaysReachable` adds `ReachInv`: a registered caller's tag map is the one of its
  class unless a second first caller replaced it (`Raced`).
* `TimeTask_proofs`: `TimerInv` needs nothing of the callers and gives
  `NeverEarly`; its part `Position` says that a head that was seen can only be
  replaced by an earlier one, as long as no sort has misled `start`: then a read
  finds the head of `Sorted`, the list without the entry that is on its way to its
  place. `PromptInv` adds `Armed` and `Accounted` for
  prompt callers and gives `AlwaysOnce` and `NeverPanics`. `TimeIsKept` maps every
  step up to the first misled read to a step or a stutter of `Alarm`; the one step that needs the invariant is the
  run of the head (`AlarmRun`): `Accounted` makes the waiting tasks of `Alarm` the
  listed ones, `Filed` makes a task's second its place in the list, and `Position` says
  that this second has come.
* `Routing_proofs`: `RoutingInv`. `Nearer` is preserved because the node itself
  is a candidate (`NearIsNearer`), so a super node passes a message only to a
  node nearer than itself; `NotSelf` and `Answerable` make the addresses of the
  hops comparable. `AlwaysNearest` (`NearestHandles`) compares the handling node with
  all of its table: with the candidates, because the first of the sorted list is
  nearest, and with the node the message came from, which is no candidate, because
  that one has passed it on (`CameFrom`) and `Nearer` holds. The sender is excepted:
  it may have sent the message as a node that is not super.
* `Wallet_proofs`: `NothingLost` is inductive with `Ledger`, since `count` never
  removes what no counted transaction spends. `BalanceExact` needs `Backed` (the
  balance comes from counted transactions) and `KnownInputs` (a transaction
  spends only outputs counted before it), which exclude an input deleted
  before it was stored. `PacksOnce` needs `PoolLate` and `PackedStored`: a waiting
  transaction that a stored block has was pooled late, and everything a stored
  chain packs is in stored blocks.
* `AlwaysPaysExactly` (`PaysExactly`), in the same module, is about sums over sets of
  outputs. `SumFunction` of the community modules is a recursive function, of which one
  knows nothing before it is shown to exist: `SumExists` takes a smallest subset for which it does
  not (`Smallest`, from the well-founded order of finite sets, in place of the induction
  theorems) and puts it together from those of the smaller subsets, which agree
  (`SumUnique`). From there on come the empty sum, one value more, sums of one and two values,
  and that a sum of natural numbers is one. `Exactness` is the invariant: outputs have values, an
  own transaction takes in outputs of transactions that exist (from `WalletInv`), which never
  change, so its sum stays what it was when it was made; and then the change makes up for
  the rest (`PayOutputsExact`, `DepositOutputsExact`).
* `LoginPage_proofs`: `Hashes` says of every place a password can be in whether it
  is a hash; `Alone` that the login under way is that of the form.
* `Sessions_proofs`: `SessionInv`. `Named` and `Hasted` tie the position of the
  receive goroutine to that of the handshake; `Alone` says that an undisturbed name
  belongs to one connection at a time, because the test of the name sees every
  connection under way; with it, `Stored` and `LiveStored` survive the closes of other
  connections, and `NodesKept` names the connection that keeps a node in the tables.

* `FilePage_proofs`: the four invariants speak of a page with no call under way, and
  say nothing of what the calls before it will bring. `PageInv` adds, of the one call
  a settled page may have (`OneOpen`), what its callback will find: a listing was
  sent for the side whose buttons are shown and its answer is what the centre has;
  any other call finds the rows still right (`Shows`); a new directory belongs to the
  rows; only what the centre granted of a removal or an upload makes the rows wrong, and
  that is listed again (`AccountCall`). On the anonymous page no call of the account
  is granted, because the cookie is gone or its deletion is the call under way
  (`AnonInv`), and an upload's directory is still the one shown (`UploadCall`).
  `KillsAlwaysFit` follows with no invariant of its own: on a calm page only a click
  starts a removal, and what it sends is decided by globals that agree with the rows.

Some statements became more exact on the way. `PaysExactly` used to sum the inputs without
a bound, where the code adds them up in 64 bits; it is now said of inputs that fit the word, and
`Taken` and `Change` see the sum the code sees. `HighestCovers` holds until a
restart, and says so. `ServeKill` used to mark items whose removal for good had
been done meanwhile, and a new item under that name would have been born in the
recycle bin, after more clicks than the run makes: the centre has no such row to
mark, and the model has none either now.

Only model-checked: the liveness properties (`EveryBlockQueued`, `SaverReturns`,
`EveryRequestEnds`, `EveryTickLeaves`, `SettlesAmongSupers`, `CountdownEnds`,
`HandshakeEnds`, `BrokenIsClosed`) and the three violations. Liveness and `ENABLED` are
beyond the prover.

## 5. Disagreements between code and documentation

The violation runs (`chain_miner_blocks`, `wallet_fork`, `timer_crowd`), with the
quoted lines, are the findings of `PROJECT.json`.
Other behaviours met while modelling, without a run of their own:

* a block of another fork is linked behind the tail when its height fits
  (`chain.go:322`), and a block that is rejected has been counted (`chain.go:285`);
* a block delivered twice is stored again with an empty `Nextblockhash`
  (`sync.go:111`), so its successors are no longer linked;
* the test in `deepCycleLoadBlock` is inverted (`load.go:104`), against its comment
  (`load.go:97-98`, all branches, "加载到出错或者加载完成为止", until an error or the end):
  a restart loads the first block and its direct successors only;
* a request to the neighbours that nobody answers ends the process: the nil answer is
  parsed (`sync.go:277-278` with `block.go:220`, `operation.go:187-189` with
  `transaction.go:144`);
* `AddBlock` links a block behind the tail before it gives it a group
  (`chain.go:328-343`): the other goroutine, adding behind it at once, reads the height
  of no group and panics;
* the first of several successors is followed, not the longest branch;
* `CurrentBlock` is not set by loading and advances only by exactly one
  (`sync.go:124`);
* outputs that a pooled payment spends are offered to the next payment
  (`transaction_pay.go:98`), and `amount+gas` may wrap (`transaction_pay.go:137`);
* two first callers of a class replace each other's tag map (`waitrecv.go:60`); a
  reply handled before its request has registered is dropped, and the caller
  waits for its timeout (`waitrecv.go:147`); the maps only grow (`waitrecv.go:76`);
* a timer task inserted when its second has come may be deleted unrun, or make
  `NewTicker` panic (`timetask.go:70`); with more than 12 seconds in the list, and
  one name of `AddBuildName` makes 15, a read during a sort may do the same to tasks
  that were added in time;
* ids with a leading zero byte cannot be routed to (`nodeManager.go:261`), and two
  nodes that are each other's `SuperPeerId` pass a message back and forth
  (`message_id.go:936`);
* a session that closes before it was stored stays in the store for ever; a close
  removes a newer session of the same name (`clientConn.go:209`); `RecvKey`'s test
  of the name is overwritten (`auth.go:191`); a handshake that fails after `AddNode`
  leaves the node; nothing reads `OutCloseConnName` (`nodeManager.go:186`), so a full
  channel blocks handshakes for ever, and so does a node that never answers: the reads
  of the handshake have no deadline (`auth.go:79`, `118`, `142`, `311`);
* a panic of `RecvPackage` is recovered in it and returns no error, with the bytes
  still there (`package.go:81`, `110`): the receive loop handles its last packet again
  and again and never sees that the connection broke;
* a new picture code is appended to the old ones (`gVerify.js:70`), so after a
  click on the picture the code that is shown is refused;
* the button of a row in the recycle bin (`file-index.js:399`) sends
  `kill=1`, which marks the item and does not remove it;
* the cookie `smscode` is kept for 0.1 day, which `setDate` truncates (`register.js:64`),
  so it is gone at once: the code that was sent is refused (`register.js:103`), and an
  empty field passes;
* a password that fills the field from a cookie which runs out under the open page
  is the hash, and is hashed again (`user.js:69-74`).

## 6. Not modelled, and the plan

Not modelled for good: key derivation and signatures, multihash and base58, the
reliable UDP taken from elsewhere, proxy tunnels, SQLite and LevelDB themselves,
command line and configuration: pure functions or pure input and output.

The JavaScript in the tree is some 44,500 lines, of which about 1,700 are the
project's own (`web/static/assets/js/model`). The rest is Amaze UI, jQuery and its
plugins, and a page mock-up exported by Axure RP with its runtime
(`web/static/assets/resources`): other people's programs, which are not modelled.
Of the project's own scripts the message box, the address book, batch download and
the pages of the user's data are left out; they fill a table or send a form once
and share no state between steps.

`core/cache` (team election and team data) is registered by the programs under
`test/` only; the network does not run it. A witness group is never installed, so
the election does not reach the block pipeline.

Next, in this order:

1. `NodeTable`: the slots of `logic_id.go` and Kademlia against a reference
   definition; `Routing`'s `Tables` and `Sessions`' `AddNode` become its abstraction.
2. `Sessions` under `Routing`, instead of `Reaches`, and `Wallet` under `ChainNode`,
   instead of its one-step `saveBlockHead`.
3. `Broadcast`: `CheckHash` (load, then store) with the one minute of
   `common.go`, and the handlers of `message_id.go`.
4. `Poll` (`core/utils/vote.go`), names and LRU caches.
5. `RaftTeam` and `CacheData` (`core/cache`), `Witness`, `FileStore` (`store`).
