------------------------------- MODULE Wallet -------------------------------
(***************************************************************************)
(* The unspent outputs of one wallet (balance.go) and what reads and       *)
(* changes them: payments (CreateTxPay, SendToAddress), the deposit and    *)
(* the block of a miner (CreateTxDepositIn, PayDeposit, BuildBlockForPOW), *)
(* transactions that are broadcast, and blocks that are saved and counted  *)
(* (saveBlockHead, AddBlock, count).  How blocks find their place is       *)
(* ChainNode; here a block is its predecessor, its height and its          *)
(* transactions, and it may be delivered again.                            *)
(*                                                                         *)
(* A transaction is its place in txs: its hash covers random signatures,   *)
(* or the second of its creation, and stays the same when SetTxid saves it *)
(* again.  The wallet has the miner's address and one other.               *)
(***************************************************************************)
EXTENDS Integers, Sequences, FiniteSets, Functions

CONSTANTS
    Coinbase, Second,  \* the wallet's addresses
    Peer,              \* an address of somebody else
    Reward, Deposit, Gas,
    Payments,          \* what the user may pay: <<address, amount>>
    Received,          \* what somebody else pays to the wallet
    Word,              \* amounts are computed modulo Word, 2^64 in the code
    MaxTxs, MaxBlocks, \* bounds
    MaxFaults          \* bound: blocks delivered again, restarts

ASSUME WalletAssumption ==
    /\ Coinbase # Second /\ Peer \notin {Coinbase, Second}
    /\ Reward \in Nat /\ Deposit \in Nat /\ Gas \in Nat /\ Received \in Nat /\ Payments \subseteq {Coinbase, Second, Peer} \X Nat
    /\ Word \in Nat \ {0}

Mine == {Coinbase, Second}

VARIABLES
    txs,       \* all transactions: [class, vins, vouts, gas]
    blocks,    \* all blocks: [prev, height, txs]
    heard,     \* blocks that were delivered
    dups,      \* deliveries of blocks that had been delivered
    stored,    \* blocks in LevelDB
    balance,   \* balanceM.balance: outputs [tx, out] of all addresses
    pool,      \* unpackedTransactions
    sending,   \* payments that were broadcast and are not in the pool yet
    tail,      \* last block of the chain in memory
    pc,        \* saveBlockHead: "idle", or in Mining at "deposit" or "build"
    counted,   \* history: transactions counted since the start
    again,     \* history: those counted more than once
    late,      \* history: those put into the pool when a stored block had them
    restarts

vars == <<txs, blocks, heard, dups, stored, balance, pool, sending, tail, pc, counted, again, late, restarts>>

Txs == 1..Len(txs)
Output(t, n) == [tx |-> t, out |-> n]
Vout(addr, value) == [addr |-> addr, value |-> value]
Tx(class, vins, vouts, gas) == [class |-> class, vins |-> vins, vouts |-> vouts, gas |-> gas]

Foreign(t) == Output(0, t)
FromPeer(t) == Foreign(t) \in txs[t].vins

Value(o) == txs[o.tx].vouts[o.out].value
Sum(outputs) == SumFunction([o \in outputs |-> Value(o)])

\* total, to which the values are added in a word.
Total(outputs) == Sum(outputs) % Word
-----------------------------------------------------------------------------
(* balance.go                                                              *)

IsMine(addr) == addr \in Mine

\* Mutant: the change of a deposit is locked too.
Locked_Change(class, n) == class = "deposit_in" /\ n >= 1

\* The first output of a deposit is not in the balance.
Locked(class, n) == class = "deposit_in" /\ n = 1

\* Outputs of t that count stores, by their place.
Kept(t) ==
    {n \in 1..Len(txs[t].vouts) : IsMine(txs[t].vouts[n].addr) /\ ~Locked(txs[t].class, n)}

\* Mutant: the inputs of deposits are left.
Deletes_Pay(t) == IF txs[t].class = "pay" THEN txs[t].vins ELSE {}

\* Only the owner spends an output, so every input of the wallet is in vins.
Deletes(t) == txs[t].vins

Spent(ts) == UNION {Deletes(t) : t \in ts}
Stores(ts) == UNION {{Output(t, n) : n \in Kept(t)} : t \in ts}

\* count goes through the transactions in the order of the block: when one spends an
\* output of another and comes first, the output stays.
count(ts, before) ==
    {(before \ Spent(ts)) \cup (Stores(ts) \ Spent(ts)) \cup stay :
        stay \in SUBSET (Stores(ts) \cap Spent(ts))}

FindBalance(addr) == {o \in balance : txs[o.tx].vouts[o.out].addr = addr}
-----------------------------------------------------------------------------
(* Payments.                                                               *)

\* Outputs Range may have taken from an address when it stops: because the sum is
\* reached, or because there are no more.  It is tested after every output, and cut to
\* a word it may become less.  Their transactions are in LevelDB.
Taken(addr, before, target) ==
    LET all == FindBalance(addr)
        Below(s) == (before + Sum(s)) % Word < target
        ranged[s \in SUBSET all] ==
            s = {} \/ \E o \in s : ranged[s \ {o}] /\ (s = {o} \/ Below(s \ {o}))
    IN  {s \in SUBSET all : ranged[s] /\ (s = all \/ (s # {} /\ ~Below(s)))}

\* Mutant: the miner's fee is paid out as change.
Change_NoGas(total, amount) == (total - amount) % Word
Change(total, amount) == (total - amount - Gas) % Word

PayOutputs(dst, amount, total) ==
    <<Vout(dst, amount)>>
    \o IF total > (amount + Gas) % Word THEN <<Vout(Coinbase, Change(total, amount))>> ELSE <<>>

\* SendToAddress up to MulticastTx.  The miner's own address is used last, and outputs
\* that a waiting transaction spends are not left out.
SendToAddress(dst, amount) ==
    LET target == (amount + Gas) % Word
    IN  /\ Len(txs) < MaxTxs
        /\ \E first \in Taken(Second, 0, target) :
           \E more \in IF Total(first) < target THEN Taken(Coinbase, Total(first), target) ELSE {{}} :
              LET vins  == first \cup more
                  total == Total(vins)
              IN  /\ total >= target
                  /\ txs' = Append(txs, Tx("pay", vins, PayOutputs(dst, amount, total), Gas))
                  /\ sending' = sending \cup {Len(txs) + 1}
        /\ UNCHANGED <<blocks, heard, dups, stored, balance, pool, tail, pc, counted, again, late, restarts>>

Pool(t) ==
    /\ pool' = pool \cup {t}
    /\ late' = IF \E b \in stored : t \in blocks[b].txs THEN late \cup {t} ELSE late

\* The rest of SendToAddress: Check is always true.
StorePay(t) ==
    /\ t \in sending
    /\ sending' = sending \ {t}
    /\ Pool(t)
    /\ UNCHANGED <<txs, blocks, heard, dups, stored, balance, tail, pc, counted, again, restarts>>

\* External: somebody pays to the wallet, from an output that is not the wallet's.
PeerPay ==
    /\ Len(txs) < MaxTxs
    /\ txs' = Append(txs, Tx("pay", {Foreign(Len(txs) + 1)}, <<Vout(Second, Received)>>, Gas))
    /\ UNCHANGED <<blocks, heard, dups, stored, balance, pool, sending, tail, pc, counted, again, late, restarts>>

\* A broadcast comes at any time, also when its transaction has been packed.  Nobody
\* relays a transaction back to where it came from.
MulticastTransaction_recv(t) ==
    /\ t \in Txs /\ FromPeer(t) /\ t \notin pool
    /\ Pool(t)
    /\ UNCHANGED <<txs, blocks, heard, dups, stored, balance, sending, tail, pc, counted, again, restarts>>
-----------------------------------------------------------------------------
(* Mining, in the goroutine of saveBlockHead.                              *)

DepositOutputs(total) ==
    <<Vout(Coinbase, Deposit)>> \o IF total > Deposit THEN <<Vout(Coinbase, total - Deposit)>> ELSE <<>>

\* Deposit and PayDeposit; without the money the miner goes on.
PayDeposit ==
    /\ pc = "deposit" /\ pc' = "build"
    /\ \/ /\ Len(txs) + 1 < MaxTxs
          /\ \E vins \in Taken(Coinbase, 0, Deposit) :
                /\ Total(vins) >= Deposit
                /\ txs' = Append(txs, Tx("deposit_in", vins, DepositOutputs(Total(vins)), 0))
                /\ pool' = pool \cup {Len(txs) + 1}
       \/ /\ \E vins \in Taken(Coinbase, 0, Deposit) : Total(vins) < Deposit
          /\ UNCHANGED <<txs, pool>>
    /\ UNCHANGED <<blocks, heard, dups, stored, balance, sending, tail, counted, again, late, restarts>>

\* packed: history, all transactions of the block and of the blocks it follows.
NewBlock(prev, ts) ==
    [prev |-> prev, height |-> blocks[prev].height + 1, txs |-> ts, packed |-> ts \cup blocks[prev].packed]

\* The reward and the whole pool.
BuildBlockForPOW ==
    /\ pc = "build" /\ pc' = "idle"
    /\ Len(txs) < MaxTxs /\ Len(blocks) < MaxBlocks
    /\ txs' = Append(txs, Tx("mining", {}, <<Vout(Coinbase, Reward)>>, 0))
    /\ blocks' = Append(blocks, NewBlock(tail, pool \cup {Len(txs) + 1}))
    /\ UNCHANGED <<heard, dups, stored, balance, pool, sending, tail, counted, again, late, restarts>>

\* External: another miner builds on any block with transactions that were broadcast
\* and that its chain does not have.
PeerBuild(prev, ts) ==
    /\ Len(blocks) < MaxBlocks
    /\ ts \cap blocks[prev].packed = {}
    /\ \A t \in ts : txs[t].class # "mining"
    /\ blocks' = Append(blocks, NewBlock(prev, ts))
    /\ UNCHANGED <<txs, heard, dups, stored, balance, pool, sending, tail, pc, counted, again, late, restarts>>
-----------------------------------------------------------------------------
(* saveBlockHead and AddBlock.                                             *)

\* Mutant: the pool is left as it is.
Unpack_Never(ts) == pool
Unpack(ts) == pool \ ts

\* The balance is counted before the height is tested.  Whether a miner mines depends
\* on HighestBlock, which ChainNode models.
AddBlock(b) ==
    LET ts == blocks[b].txs
    IN  /\ balance' \in count(ts, balance)
        /\ counted' = counted \cup ts
        /\ again' = again \cup (counted \cap ts)
        /\ \/ /\ blocks[b].height = blocks[tail].height + 1
              /\ tail' = b
              /\ pc' \in {"idle", "deposit"}
           \/ /\ blocks[b].height # blocks[tail].height + 1
              /\ UNCHANGED <<tail, pc>>

\* The transactions are saved whether or not the predecessor is there; what the chain
\* knows of them is not changed by that.
saveBlockHead(b) ==
    /\ pc = "idle"
    /\ \/ b \notin heard /\ heard' = heard \cup {b} /\ UNCHANGED dups
       \/ b \in heard /\ dups + restarts < MaxFaults /\ dups' = dups + 1 /\ UNCHANGED heard
    /\ \/ /\ blocks[b].prev # 0 /\ blocks[b].prev \notin stored
          /\ UNCHANGED <<stored, pool, balance, counted, again, tail, pc>>
       \/ /\ blocks[b].prev = 0 \/ blocks[b].prev \in stored
          /\ stored' = stored \cup {b}
          /\ pool' = Unpack(blocks[b].txs)
          /\ AddBlock(b)
    /\ UNCHANGED <<txs, blocks, sending, late, restarts>>

\* LoadBlockChain after the process was ended: the first block and those of its
\* successors that it still lists, from the transactions in the database. A block that
\* is saved meanwhile may already let AddBlock mine.
Restart ==
    /\ dups + restarts < MaxFaults
    /\ restarts' = restarts + 1
    /\ pool' = {} /\ sending' = {} /\ pc' \in {"idle", "deposit"}
    /\ \E next \in SUBSET {b \in stored : blocks[b].prev = 1} :
        LET ts == UNION {blocks[b].txs : b \in next}
        IN  /\ tail' \in IF next = {} THEN {1} ELSE next
            /\ \E one \in count(blocks[1].txs, {}) : balance' \in count(ts, one)
            /\ counted' = blocks[1].txs \cup ts
            /\ again' = {t \in ts : \E b, c \in next : b # c /\ t \in blocks[b].txs \cap blocks[c].txs}
    /\ UNCHANGED <<txs, blocks, heard, dups, stored, late>>
-----------------------------------------------------------------------------
\* The first node of the network after BuildFirstBlock and LoadBlockChain, whose
\* AddBlock may lead to Mining too.
Init ==
    /\ txs = <<Tx("mining", {}, <<Vout(Coinbase, 3 * Reward)>>, 0)>>
    /\ blocks = <<[prev |-> 0, height |-> 1, txs |-> {1}, packed |-> {1}]>>
    /\ heard = {1} /\ dups = 0
    /\ stored = {1} /\ tail = 1
    /\ balance = {Output(1, 1)}
    /\ pool = {} /\ sending = {}
    /\ pc \in {"idle", "deposit"}
    /\ counted = {1} /\ again = {} /\ late = {}
    /\ restarts = 0

Pay == \E p \in Payments : SendToAddress(p[1], p[2])
Pooling == \E t \in Txs : StorePay(t) \/ MulticastTransaction_recv(t)
Build == \E prev \in 1..Len(blocks), ts \in SUBSET Txs : PeerBuild(prev, ts)
Save == \E b \in 1..Len(blocks) : saveBlockHead(b)

Next == Pay \/ PeerPay \/ Pooling \/ PayDeposit \/ BuildBlockForPOW \/ Build \/ Save \/ Restart

Spec == Init /\ [][Next]_vars
-----------------------------------------------------------------------------
\* Outputs of t that belong to the wallet and are free to be spent.
Free(t) ==
    {Output(t, n) : n \in {m \in 1..Len(txs[t].vouts) :
        txs[t].vouts[m].addr \in Mine /\ (txs[t].class = "deposit_in" => m # 1)}}
Inputs(ts) == UNION {txs[t].vins : t \in ts}
Unspent(ts) == (UNION {Free(t) : t \in ts}) \ Inputs(ts)

\* Whatever was delivered again, packed twice, put on another fork or loaded after a
\* restart: an output of the wallet that no counted transaction spends is in the balance.
NothingLost == Unspent(counted) \subseteq balance

\* Since a start without earlier blocks, as long as no transaction was counted twice,
\* the balance is exactly what the counted transactions leave.
BalanceExact == restarts = 0 /\ again = {} => balance = Unspent(counted)

\* A block packs again what the chain it is built on has already only when that
\* transaction was put into the pool, by a broadcast or at the end of SendToAddress,
\* after a block with it was stored.
PacksOnce ==
    \A b \in 2..Len(blocks) : blocks[b].txs \cap blocks[blocks[b].prev].packed \subseteq late

\* What a transaction of this wallet takes in is what it gives out and the fee,
\* unless its inputs, or the amount and the fee together, do not fit the word.
PaysExactly ==
    \A t \in Txs :
        /\ ~FromPeer(t) /\ txs[t].class # "mining"
        /\ Sum(txs[t].vins) < Word
        /\ txs[t].class = "pay" => txs[t].vouts[1].value + Gas < Word
        => Sum(txs[t].vins) = txs[t].gas + SumFunction([n \in DOMAIN txs[t].vouts |-> txs[t].vouts[n].value])

\* count: an output that was used is deleted from the balance, so none stays that a
\* counted transaction spends.
UsedAreDeleted == balance \cap Inputs(counted) = {}
=============================================================================
