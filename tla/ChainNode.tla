----------------------------- MODULE ChainNode -----------------------------
(***************************************************************************)
(* The block pipeline of one wallet node (wallet/mining): blocks arrive by *)
(* broadcast, each in a goroutine that sends it into the one-slot channel  *)
(* syncSaveBlockHead; the goroutine saveBlockHead is the only reader.  It  *)
(* saves transactions, links the previous block, saves the block, adds it  *)
(* to the chain in memory and, on a miner, builds the next block and sends *)
(* it into the channel it reads itself.  The main goroutine loads the      *)
(* database at start-up, adding blocks to the same chain without a lock,   *)
(* and then synchronises with its neighbours.  A crash, or a panic, loses  *)
(* the memory and keeps the database.                                      *)
(*                                                                         *)
(* A block is its index in made.  The reward transaction of every block is *)
(* left out; what a transaction spends is the subject of another module.   *)
(***************************************************************************)
EXTENDS Naturals, Sequences, FiniteSets

CONSTANTS Txs,        \* transactions that may be submitted
          Miner,      \* config.Miner
          Genesis,    \* the node is started with "init" (config.InitNode)
          QueueCap,   \* capacity of syncSaveBlockHead
          MaxBlocks,  \* bound: blocks made in the whole network
          MaxDup,     \* bound: extra deliveries of one block
          MaxCrash    \* bound: crashes of the node

ASSUME ConstantsAssumption ==
    /\ Miner \in BOOLEAN /\ Genesis \in BOOLEAN
    /\ QueueCap \in Nat \ {0} /\ MaxBlocks \in Nat \ {0}
    /\ MaxDup \in Nat /\ MaxCrash \in Nat

VARIABLES
    made,           \* the network's blocks: [height, group, prev, own, txs]
    sent,           \* transactions that were broadcast
    heard,          \* block -> how often its broadcast was delivered
    \* the database (LevelDB)
    next,           \* stored block -> its Nextblockhash list
    txdb,           \* blocks whose transactions were all saved
    keyStart,       \* Key_block_start: the first block's hash, 0 when absent
    \* memory
    chain,          \* the list of Blocks behind chain.group, oldest first
    counted,        \* blocks that went through CountBalanceForBlock
    pool,           \* unpackedTransactions
    startingBlock, currentBlock, highestBlock,
    initNode,       \* config.InitNode of the running process
    \* channel and goroutines
    queue,          \* syncSaveBlockHead
    pending,        \* goroutines inside AddBlockHead: <<block, delivery>>
    pc, blk, seen,  \* per goroutine: position, block in hand, tail read
    built,          \* per goroutine: the block it mined and has to send
    todo,           \* main: blocks still to load or to synchronise
    crashes

dbVars == <<next, txdb, keyStart>>
netVars == <<made, sent, heard>>
heightVars == <<startingBlock, currentBlock, highestBlock>>
memVars == <<chain, counted, pool, heightVars, initNode>>
goVars == <<pc, blk, seen, built, todo>>
vars == <<netVars, dbVars, memVars, queue, pending, goVars, crashes>>

Actors == {"saver", "main"}
SaverPcs == {"recv", "txs", "link", "save", "check", "insert", "mine", "send", "after", "ended"}
MainPcs == {"load", "next", "sync", "deep", "fetch", "done",
            "check", "insert", "mine", "send", "after", "ended"}
Running == pc["main"] # "ended"
Stored == DOMAIN next
Range(s) == {s[i] : i \in DOMAIN s}
Last(s) == s[Len(s)]
Children(b) == {c \in DOMAIN made : made[c].prev = b}

\* BuildFirstBlock: height 1, group 1, no predecessor.
GenesisBlock == [height |-> 1, group |-> 1, prev |-> 0, own |-> TRUE, txs |-> {}]

Init ==
    /\ made = <<GenesisBlock>>
    /\ sent = {}
    /\ heard = [b \in 1..MaxBlocks |-> 0]
    /\ next = IF Genesis THEN [b \in {1} |-> <<>>] ELSE [b \in {} |-> <<>>]
    /\ txdb = IF Genesis THEN {1} ELSE {}
    /\ keyStart = IF Genesis THEN 1 ELSE 0
    /\ chain = <<>> /\ counted = {} /\ pool = {}
    /\ startingBlock = 0 /\ currentBlock = 0
    /\ highestBlock = IF Genesis THEN 1 ELSE 0
    /\ initNode = Genesis
    /\ queue = <<>> /\ pending = {}
    /\ pc = [a \in Actors |-> IF a = "saver" THEN "recv" ELSE "load"]
    /\ blk = [a \in Actors |-> 0]
    /\ seen = [a \in Actors |-> <<>>]
    /\ built = [a \in Actors |-> 0]
    /\ todo = <<>>
    /\ crashes = 0
-----------------------------------------------------------------------------
(* The network: other miners, their broadcasts, and transactions.          *)

NewBlock(p, own, ts) ==
    [height |-> made[p].height + 1, group |-> made[p].group + 1,
     prev |-> p, own |-> own, txs |-> ts]

\* External: another miner extends any block of the network (BuildBlockForPOW there).
PeerBuild(p, ts) ==
    /\ Len(made) < MaxBlocks
    /\ made' = Append(made, NewBlock(p, FALSE, ts))
    /\ UNCHANGED <<sent, heard, dbVars, memVars, queue, pending, goVars, crashes>>

\* The message hash keeps a broadcast from being handled twice, except for two
\* copies that both pass the unlocked test in CheckHash, or one that comes after
\* the hash expired: at most MaxDup extra deliveries.
MulticastBlockHead_recv(b) ==
    /\ Running /\ ~made[b].own
    /\ heard[b] <= MaxDup
    /\ heard' = [heard EXCEPT ![b] = @ + 1]
    /\ pending' = pending \cup {<<b, heard[b]>>}
    /\ UNCHANGED <<made, sent, dbVars, memVars, queue, goVars, crashes>>

\* Mutant: the handler appends to an unbounded queue.
AddBlockHead_Unbounded(e) ==
    /\ queue' = Append(queue, e[1])
    /\ pending' = pending \ {e}
    /\ UNCHANGED <<netVars, dbVars, memVars, goVars, crashes>>

\* Mutant: one slot has to stay free.
AddBlockHead_OneFree(e) ==
    /\ Len(queue) + 1 < QueueCap
    /\ queue' = Append(queue, e[1])
    /\ pending' = pending \ {e}
    /\ UNCHANGED <<netVars, dbVars, memVars, goVars, crashes>>

\* The goroutine started by MulticastBlockHead_recv gets its block into the channel.
AddBlockHead(e) ==
    /\ Len(queue) < QueueCap
    /\ queue' = Append(queue, e[1])
    /\ pending' = pending \ {e}
    /\ UNCHANGED <<netVars, dbVars, memVars, goVars, crashes>>

\* External: a transaction is broadcast by some other node.
PeerTx(t) ==
    /\ t \notin sent
    /\ sent' = sent \cup {t}
    /\ UNCHANGED <<made, heard, dbVars, memVars, queue, pending, goVars, crashes>>

\* Stores the transaction whether or not some block already contains it.
MulticastTransaction_recv(t) ==
    /\ Running /\ t \in sent
    /\ pool' = pool \cup {t}
    /\ UNCHANGED <<netVars, dbVars, chain, counted, heightVars, initNode,
                   queue, pending, goVars, crashes>>

SendToAddress(t) ==
    /\ Running /\ t \notin sent
    /\ sent' = sent \cup {t}
    /\ pool' = pool \cup {t}
    /\ UNCHANGED <<made, heard, dbVars, chain, counted, heightVars, initNode,
                   queue, pending, goVars, crashes>>
-----------------------------------------------------------------------------
(* saveBlockHead, the only reader of the channel.                          *)

Goto(a, l) == pc' = [pc EXCEPT ![a] = l]

TakeBlock ==
    /\ pc["saver"] = "recv"
    /\ queue # <<>>
    /\ blk' = [blk EXCEPT !["saver"] = Head(queue)]
    /\ queue' = Tail(queue)
    /\ Goto("saver", "txs")
    /\ UNCHANGED <<netVars, dbVars, memVars, pending, seen, built, todo, crashes>>

\* Mutant: the transactions are not saved.
SaveTxs_Skips ==
    /\ pc["saver"] = "txs"
    /\ Goto("saver", "link")
    /\ UNCHANGED <<netVars, dbVars, memVars, queue, pending, blk, seen, built, todo, crashes>>

SaveTxs ==
    /\ pc["saver"] = "txs"
    /\ txdb' = txdb \cup {blk["saver"]}
    /\ Goto("saver", "link")
    /\ UNCHANGED <<netVars, next, keyStart, memVars, queue, pending, blk, seen, built, todo, crashes>>

\* Mutant: a block above the starting height is saved without its predecessor.
NeedsPrevious_Never(b) == FALSE
NeedsPrevious(b) == made[b].height > startingBlock /\ made[b].height > 1

\* Mutants: the list gets the predecessor's own hash; the list is overwritten.
Linked_OwnHash(p, b) == [next EXCEPT ![p] = Append(@, p)]
Linked_Overwrites(p, b) == [next EXCEPT ![p] = <<b>>]
Linked(p, b) == [next EXCEPT ![p] = Append(@, b)]

\* A block whose predecessor is not stored is dropped, its transactions stay saved.
\* Mutant: the goroutine returns, as it does on a block it cannot parse.
AfterMissing_Returns == "end"
AfterMissing == "recv"

LinkPrevious ==
    LET b == blk["saver"]
        p == made[b].prev
    IN  /\ pc["saver"] = "link"
        /\ \/ /\ ~NeedsPrevious(b)
              /\ Goto("saver", "save")
              /\ UNCHANGED next
           \/ /\ NeedsPrevious(b) /\ p \in Stored
              /\ next' = Linked(p, b)
              /\ Goto("saver", "save")
           \/ /\ NeedsPrevious(b) /\ p \notin Stored
              /\ Goto("saver", AfterMissing)
              /\ UNCHANGED next
        /\ UNCHANGED <<netVars, txdb, keyStart, memVars, queue, pending, blk, seen, built, todo, crashes>>

\* db.Put of the block as it was broadcast, that is with an empty Nextblockhash.
Put(b, links) == [c \in Stored \cup {b} |-> IF c = b THEN links ELSE next[c]]

SaveBlock ==
    LET b == blk["saver"]
        h == made[b].height
    IN  /\ pc["saver"] = "save"
        /\ next' = Put(b, <<>>)
        /\ pool' = pool \ made[b].txs
        /\ keyStart' = IF h = startingBlock THEN b ELSE keyStart
        /\ currentBlock' = IF currentBlock + 1 = h THEN h ELSE currentBlock
        /\ Goto("saver", "check")
        /\ UNCHANGED <<netVars, txdb, chain, counted, startingBlock, highestBlock, initNode,
                       queue, pending, blk, seen, built, todo, crashes>>

\* Mutant: the comparison is off by one.
Higher_OffByOne(h) == h > highestBlock + 1
Higher(h) == h > highestBlock

RaiseHighest ==
    LET h == made[blk["saver"]].height
    IN  /\ pc["saver"] = "after"
        /\ highestBlock' = IF Higher(h) THEN h ELSE highestBlock
        /\ Goto("saver", "recv")
        /\ UNCHANGED <<netVars, dbVars, chain, counted, pool, startingBlock, currentBlock, initNode,
                       queue, pending, blk, seen, built, todo, crashes>>
-----------------------------------------------------------------------------
(* Chain.AddBlock and Mining, run by saveBlockHead and by the loader.      *)

\* Mutants: any greater height fits; a height that is already there fits.
HeightFits_Higher(s, b) == s # <<>> => made[Last(s)].height < made[b].height
HeightFits_Same(s, b) == s # <<>> => made[Last(s)].height + 1 >= made[b].height

\* The first block may have any height.
HeightFits(s, b) == s # <<>> => made[Last(s)].height + 1 = made[b].height

\* The chains that a goroutine may find: the tail's NextBlock already names the block
\* that the other one is about to insert behind it.
Found(a) ==
    {chain} \cup {Append(chain, blk[o]) :
        o \in {x \in Actors \ {a} : pc[x] = "insert" /\ seen[x] = chain /\ chain # <<>>}}

\* CountBalanceForBlock comes first; then the tail is read and the height compared.
CheckHeight(a) ==
    LET b == blk[a]
    IN  /\ pc[a] = "check"
        /\ counted' = counted \cup {b}
        /\ \E s \in Found(a) :
              /\ seen' = [seen EXCEPT ![a] = s]
              /\ \/ HeightFits(s, b) /\ Goto(a, "insert")
                 \/ ~HeightFits(s, b) /\ Goto(a, "after")
        /\ UNCHANGED <<netVars, dbVars, chain, pool, heightVars, initNode,
                       queue, pending, blk, built, todo, crashes>>

\* The tail that was read is the block of the other goroutine, which has no group yet.
Ungrouped(a) == \E o \in Actors \ {a} : pc[o] = "insert" /\ seen[a] = Append(seen[o], blk[o])

\* The new block becomes the tail after the one that was read, whatever the
\* other goroutine has linked in the meantime.
InsertBlock(a) ==
    /\ pc[a] = "insert" /\ ~Ungrouped(a)
    /\ chain' = Append(seen[a], blk[a])
    /\ seen' = [seen EXCEPT ![a] = <<>>]
    /\ Goto(a, "mine")
    /\ UNCHANGED <<netVars, dbVars, counted, pool, heightVars, initNode,
                   queue, pending, blk, built, todo, crashes>>

\* Mining's early returns; MaxBlocks bounds what is built.
Mines == Miner /\ highestBlock > 0 /\ Len(made) < MaxBlocks

SkipMining(a) ==
    /\ pc[a] = "mine"
    /\ ~Mines
    /\ Goto(a, "after")
    /\ UNCHANGED <<netVars, dbVars, memVars, queue, pending, blk, seen, built, todo, crashes>>

\* Deposit submits at most one deposit transaction; BuildBlockForPOW packs the
\* whole pool on top of the tail.  No witness group is ever installed, so this is
\* the only way of building.
BuildBlockForPOW(a) ==
    /\ pc[a] = "mine"
    /\ Mines
    /\ \E d \in {{}} \cup {{t} : t \in Txs \ sent} :
          /\ sent' = sent \cup d
          /\ pool' = pool \cup d
          /\ made' = Append(made, NewBlock(Last(chain), TRUE, pool \cup d))
    /\ built' = [built EXCEPT ![a] = Len(made) + 1]
    /\ Goto(a, "send")
    /\ UNCHANGED <<heard, dbVars, chain, counted, heightVars, initNode,
                   queue, pending, blk, seen, todo, crashes>>

\* AddBlockHead at the end of BuildBlockForPOW: the miner waits for a free slot.
SendOwn(a) ==
    /\ pc[a] = "send"
    /\ Len(queue) < QueueCap
    /\ queue' = Append(queue, built[a])
    /\ Goto(a, "after")
    /\ UNCHANGED <<netVars, dbVars, memVars, pending, blk, seen, built, todo, crashes>>
-----------------------------------------------------------------------------
(* Register: LoadBlockChain, then SyncBlockHead, in the main goroutine.    *)

AfterLoading == IF initNode THEN "done" ELSE "sync"

\* loadBlockForDB: the block and every transaction it lists are in the database.
Loadable(b) == b \in Stored /\ b \in txdb

\* LoadBlockChain up to the first loadBlockForDB; todo is the Nextblockhash list
\* as it was read then.
LoadFirst ==
    /\ pc["main"] = "load"
    /\ \/ /\ ~Loadable(keyStart)
          /\ Goto("main", AfterLoading)
          /\ UNCHANGED <<blk, todo>>
       \/ /\ Loadable(keyStart)
          /\ blk' = [blk EXCEPT !["main"] = keyStart]
          /\ todo' = next[keyStart]
          /\ Goto("main", "check")
    /\ UNCHANGED <<netVars, dbVars, memVars, queue, pending, seen, built, crashes>>

\* Mutant: loading ends with the first block.
AddedFirst_Returns ==
    /\ pc["main"] = "after"
    /\ startingBlock' = IF blk["main"] = keyStart THEN made[keyStart].height ELSE startingBlock
    /\ Goto("main", AfterLoading)
    /\ UNCHANGED <<netVars, dbVars, chain, counted, pool, currentBlock, highestBlock, initNode,
                   queue, pending, blk, seen, built, todo, crashes>>

\* After AddBlock: SetStartingBlock for the first block, the next one otherwise.
AddedFirst ==
    /\ pc["main"] = "after"
    /\ startingBlock' = IF blk["main"] = keyStart THEN made[keyStart].height ELSE startingBlock
    /\ Goto("main", "next")
    /\ UNCHANGED <<netVars, dbVars, chain, counted, pool, currentBlock, highestBlock, initNode,
                   queue, pending, blk, seen, built, todo, crashes>>

\* deepCycleLoadBlock: a block that has successors makes it return, and one that
\* has none leaves nothing to load, so it never goes deeper.
LoadNext ==
    /\ pc["main"] = "next"
    /\ \/ /\ todo = <<>>
          /\ Goto("main", AfterLoading)
          /\ UNCHANGED <<blk, todo>>
       \/ /\ todo # <<>>
          /\ todo' = Tail(todo)
          /\ \/ /\ Loadable(Head(todo))
                /\ blk' = [blk EXCEPT !["main"] = Head(todo)]
                /\ Goto("main", "check")
             \/ /\ ~Loadable(Head(todo))
                /\ UNCHANGED <<blk, pc>>
    /\ UNCHANGED <<netVars, dbVars, memVars, queue, pending, seen, built, crashes>>

\* What a neighbour may answer as the Nextblockhash list of block b.
Answers(b) == UNION {{s \in [1..n -> Children(b)] : \A i, j \in 1..n : s[i] = s[j] => i = j}
                        : n \in 0..Cardinality(Children(b))}

\* SyncBlockHead: the tail, or the first block, is fetched and overwritten.  It ends
\* when no neighbour names a first block, and before anything is saved when the answer
\* has no successors; without an answer it panics.
SyncBlockHead ==
    LET b == IF chain = <<>> THEN 1 ELSE Last(chain)
    IN  /\ pc["main"] = "sync"
        /\ \/ /\ Goto("main", "done")
              /\ UNCHANGED <<next, todo>>
           \/ \E s \in Answers(b) :
                /\ s # <<>>
                /\ next' = Put(b, s)
                /\ todo' = s
                /\ Goto("main", "deep")
        /\ UNCHANGED <<netVars, txdb, keyStart, memVars, queue, pending, blk, seen, built, crashes>>

\* deepCycleSyncBlock: the next block of the walk.  One that is stored is followed
\* along its own list; any other one is requested from the neighbours.
SyncNext ==
    /\ pc["main"] = "deep"
    /\ \/ /\ todo = <<>>
          /\ Goto("main", "done")
          /\ UNCHANGED todo
       \/ /\ todo # <<>> /\ Head(todo) \in Stored
          /\ todo' = next[Head(todo)] \o Tail(todo)
          /\ UNCHANGED pc
       \/ /\ todo # <<>> /\ Head(todo) \notin Stored
          /\ Goto("main", "fetch")
          /\ UNCHANGED todo
    /\ UNCHANGED <<netVars, dbVars, memVars, queue, pending, blk, seen, built, crashes>>

\* The transactions of Txs spend the reward of the first block, so their inputs
\* are found when the transactions of that block were saved.
InputsKnown(b) == made[b].txs # {} => 1 \in txdb

\* syncBlockForDBAndNeighbor after FindBlockForNeighbor: no answer for the block, an
\* input or the predecessor missing (the transactions up to there stay saved), or saved
\* as the neighbour had it.
SyncFetched ==
    LET b == Head(todo)
        p == made[b].prev
        linked == startingBlock > 0
    IN  /\ pc["main"] = "fetch"
        /\ Goto("main", "deep")
        /\ \/ /\ todo' = Tail(todo)
              /\ UNCHANGED <<next, txdb>>
           \/ /\ ~InputsKnown(b) \/ (linked /\ p \notin Stored)
              /\ todo' = Tail(todo)
              /\ txdb' \in {txdb, txdb \cup {b}}
              /\ UNCHANGED next
           \/ /\ InputsKnown(b) /\ (linked => p \in Stored)
              /\ \E s \in Answers(b) :
                    /\ next' = [c \in Stored \cup {b} |->
                                  IF c = b THEN s
                                  ELSE IF c = p /\ linked THEN Append(next[c], b)
                                  ELSE next[c]]
                    /\ todo' = s \o Tail(todo)
              /\ txdb' = txdb \cup {b}
        /\ UNCHANGED <<netVars, keyStart, memVars, queue, pending, blk, seen, built, crashes>>

\* What the end of the process leaves: the database.
LoseMemory ==
    /\ chain' = <<>> /\ counted' = {} /\ pool' = {}
    /\ startingBlock' = 0 /\ currentBlock' = 0 /\ highestBlock' = 0
    /\ initNode' = FALSE
    /\ queue' = <<>> /\ pending' = {}
    /\ blk' = [a \in Actors |-> 0]
    /\ seen' = [a \in Actors |-> <<>>]
    /\ built' = [a \in Actors |-> 0]
    /\ todo' = <<>>
    /\ UNCHANGED <<netVars, dbVars>>

\* A panic ends the process: ParseBlockHead or ParseTxBase of an answer that did not
\* come (every block has a transaction), or the height of a group that is not set yet.
Panic ==
    /\ pc["main"] \in {"sync", "fetch"} \/ \E a \in Actors : pc[a] = "insert" /\ Ungrouped(a)
    /\ LoseMemory
    /\ pc' = [a \in Actors |-> "ended"]
    /\ UNCHANGED crashes

\* The process ends at any point, or has ended, and is started again without "init".
Crash ==
    /\ crashes < MaxCrash
    /\ crashes' = crashes + 1
    /\ LoseMemory
    /\ pc' = [a \in Actors |-> IF a = "saver" THEN "recv" ELSE "load"]
-----------------------------------------------------------------------------
Saver == TakeBlock \/ SaveTxs \/ LinkPrevious \/ SaveBlock \/ RaiseHighest
Main == LoadFirst \/ AddedFirst \/ LoadNext \/ SyncBlockHead \/ SyncNext \/ SyncFetched
AddBlock(a) == CheckHeight(a) \/ InsertBlock(a) \/ SkipMining(a) \/ BuildBlockForPOW(a) \/ SendOwn(a)

Network ==
    \/ \E p \in DOMAIN made, ts \in SUBSET sent : PeerBuild(p, ts)
    \/ \E b \in DOMAIN made : MulticastBlockHead_recv(b)
    \/ \E t \in Txs : PeerTx(t) \/ MulticastTransaction_recv(t) \/ SendToAddress(t)

Next ==
    \/ Network
    \/ \E e \in pending : AddBlockHead(e)
    \/ Saver
    \/ Main
    \/ \E a \in Actors : AddBlock(a)
    \/ Panic \/ Crash

Spec == Init /\ [][Next]_vars

\* The Go scheduler runs every goroutine that can run; nothing makes a peer, a
\* user or a crash act.
Fairness ==
    /\ WF_vars(\E e \in pending : AddBlockHead(e))
    /\ WF_vars(Saver \/ AddBlock("saver"))
    /\ WF_vars(Main \/ AddBlock("main"))

FairSpec == Spec /\ Fairness
-----------------------------------------------------------------------------
Ids == 1..MaxBlocks

BlockType == [height : Nat \ {0}, group : Nat, prev : Nat, own : BOOLEAN, txs : SUBSET Txs]

NetType ==
    /\ made \in Seq(BlockType) /\ Len(made) \in Ids
    /\ sent \subseteq Txs
    /\ heard \in [Ids -> 0..MaxDup + 1]

DbType ==
    /\ Stored \subseteq DOMAIN made
    /\ next \in [Stored -> Seq(DOMAIN made)]
    /\ txdb \subseteq DOMAIN made
    /\ keyStart \in {0} \cup DOMAIN made

MemType ==
    /\ chain \in Seq(DOMAIN made)
    /\ counted \subseteq DOMAIN made
    /\ pool \subseteq Txs
    /\ startingBlock \in Nat /\ currentBlock \in Nat /\ highestBlock \in Nat
    /\ initNode \in BOOLEAN

QueueType ==
    /\ queue \in Seq(DOMAIN made) /\ Len(queue) <= QueueCap
    /\ pending \subseteq (DOMAIN made) \X (0..MaxDup)

GoType ==
    /\ pc \in [Actors -> SaverPcs \cup MainPcs]
    /\ pc["saver"] \in SaverPcs /\ pc["main"] \in MainPcs
    /\ blk \in [Actors -> {0} \cup DOMAIN made]
    /\ built \in [Actors -> {0} \cup DOMAIN made]
    /\ seen \in [Actors -> Seq(DOMAIN made)]
    /\ todo \in Seq(DOMAIN made)

TypeOK == NetType /\ DbType /\ MemType /\ QueueType /\ GoType /\ crashes \in 0..MaxCrash

\* What a goroutine has in hand at each position.
Control ==
    /\ pc["saver"] \notin {"recv", "ended"} => blk["saver"] # 0
    /\ pc["main"] \in {"check", "insert", "mine", "send", "after"} => blk["main"] # 0
    /\ \A a \in Actors : pc[a] = "send" => built[a] # 0
    /\ \A a \in Actors : pc[a] = "mine" => chain # <<>>
    /\ pc["main"] = "fetch" => todo # <<>>
-----------------------------------------------------------------------------
(* The database.                                                           *)

\* Every stored block but the first has its predecessor stored: saveBlockHead
\* drops a block with an unknown predecessor, and the synchronisation walks down
\* from stored blocks.
PrevStored == \A b \in Stored : b = 1 \/ made[b].prev \in Stored

\* Every hash in a Nextblockhash list is the hash of a block that names the
\* owner of the list as its predecessor.
LinksAreChildren == \A b \in Stored : \A i \in DOMAIN next[b] : made[next[b][i]].prev = b

\* The transactions of a stored block were saved before it, at whatever point
\* the process was killed.  Only the first block of a node that joined is stored
\* without them: SyncBlockHead saves the block head alone.
TxsStored == \A b \in Stored : b \in txdb \/ (b = 1 /\ ~Genesis)

\* As long as the first node runs, every stored block, forks included, can be found
\* from its predecessor: it is in that block's Nextblockhash list.  A predecessor
\* that is delivered again is stored over itself with an empty list.
LinkedFromParent ==
    initNode => \A c \in Stored \ {1} :
        heard[made[c].prev] <= 1 => c \in Range(next[made[c].prev])

-----------------------------------------------------------------------------
(* The chain in memory.                                                    *)

Contiguous(s) == \A i \in 1..Len(s) - 1 : made[s[i + 1]].height = made[s[i]].height + 1

\* Blocks of the chain have consecutive heights and are all in the database,
\* although two goroutines add to the chain without a lock.
ChainContiguous == Contiguous(chain) /\ Range(chain) \subseteq Stored

\* Where no two stored blocks have one height, each block of the chain is the
\* predecessor that the next one names, although AddBlock compares heights only.
ChainFollowsHashes ==
    (\A b, c \in Stored : made[b].height = made[c].height => b = c)
        => \A i \in 1..Len(chain) - 1 : made[chain[i + 1]].prev = chain[i]

\* Once a block is handled HighestBlock is at least the height of every block of the
\* chain, until a restart: loading adds blocks without raising HighestBlock.
HighestCovers ==
    crashes = 0 /\ pc["saver"] = "recv" => \A i \in DOMAIN chain : made[chain[i]].height <= highestBlock

\* When loading ends after a restart, the balance has counted the first block and all its
\* stored successors, by the loader or by saveBlockHead, also those that AddBlock then
\* refuses; their own successors are left to the synchronisation.
SuccessorsCounted ==
    pc["main"] = "sync" /\ pc["saver"] = "recv" /\ startingBlock > 0
        => {keyStart} \cup (Range(next[keyStart]) \cap Stored) \subseteq counted
-----------------------------------------------------------------------------
(* The inductive strengthening of the safety properties.                   *)

\* Heights and predecessors of the network's blocks; only block 1 has height 1.
Heights ==
    /\ made[1].height = 1
    /\ \A b \in (DOMAIN made) \ {1} : made[b].height > 1 /\ made[b].prev \in DOMAIN made

\* The first block is the only one the node may start from.
Starts == keyStart \in {0, 1} /\ startingBlock \in {0, 1} /\ (Genesis => 1 \in txdb)

\* Past "check" a goroutine has a stored block in hand; on its way there the
\* saver has saved the transactions and then looked up the predecessor.
HandStored ==
    /\ \A a \in Actors : pc[a] \in {"check", "insert", "mine", "send", "after"} => blk[a] \in Stored
    /\ pc["saver"] \in {"link", "save"} => blk["saver"] \in txdb
    /\ pc["saver"] = "save" => blk["saver"] = 1 \/ made[blk["saver"]].prev \in Stored

\* The walk of the synchronisation only holds children of stored blocks.
WalkStored ==
    pc["main"] \in {"deep", "fetch"} => \A i \in DOMAIN todo : made[todo[i]].prev \in Stored

\* What a goroutine read of the chain before it inserts is contiguous too, and its
\* block fits behind it.
SeenFits ==
    \A a \in Actors :
        /\ Contiguous(seen[a]) /\ Range(seen[a]) \subseteq Stored
        /\ pc[a] = "insert" /\ seen[a] # <<>>
             => made[Last(seen[a])].height + 1 = made[blk[a]].height

StoreInv ==
    /\ Heights /\ Starts
    /\ PrevStored /\ LinksAreChildren /\ TxsStored
    /\ HandStored /\ WalkStored
    /\ ChainContiguous /\ SeenFits
-----------------------------------------------------------------------------
(* Progress.                                                               *)

\* Every block handed to AddBlockHead, by a handler or by the miner, gets into
\* the queue.
EveryBlockQueued ==
    /\ \A b \in Ids, n \in 0..MaxDup : <<b, n>> \in pending ~> <<b, n>> \notin pending
    /\ \A a \in Actors : pc[a] = "send" ~> pc[a] # "send"

\* saveBlockHead always comes back to its channel, unless the process ends.
SaverReturns == pc["saver"] # "recv" ~> pc["saver"] \in {"recv", "ended"}
=============================================================================
