---------------------------- MODULE Wallet_proofs ----------------------------
(***************************************************************************)
(* Proofs about the balance, for any addresses, amounts, number of blocks, *)
(* forks, repeated deliveries and restarts.  For the balance only sets of  *)
(* outputs matter; what a payment takes in and gives out needs sums.       *)
(***************************************************************************)
EXTENDS Wallet, SequenceTheorems, FiniteSetTheorems, TLAPS

IsSeq(s) == \E S : s \in Seq(S)

Blocks == 1..Len(blocks)

\* Transactions and blocks, and that a block packs what its predecessor packs too.
Ledger ==
    /\ IsSeq(txs) /\ IsSeq(blocks)
    /\ 1 \in Txs /\ 1 \in Blocks
    /\ \A b \in Blocks : blocks[b].txs \subseteq blocks[b].packed /\ blocks[b].packed \subseteq Txs
    /\ blocks[1].prev = 0 /\ blocks[1].packed = blocks[1].txs
    /\ \A b \in Blocks \ {1} :
        /\ blocks[b].prev \in Blocks
        /\ blocks[b].packed = blocks[b].txs \cup blocks[blocks[b].prev].packed

\* What the node keeps is among them, and the predecessor of a stored block is stored.
Held ==
    /\ stored \subseteq Blocks /\ 1 \in stored /\ tail \in stored
    /\ pool \subseteq Txs /\ sending \subseteq Txs /\ counted \subseteq Txs
    /\ \A b \in stored \ {1} : blocks[b].prev \in stored
    /\ restarts \in Nat

\* The balance comes from counted transactions.
Backed == balance \subseteq Stores(counted)

\* Before a restart a transaction spends outputs of counted transactions only.
KnownInputs ==
    restarts = 0 => \A t \in Txs : \A o \in txs[t].vins : o.tx = 0 \/ o.tx \in counted

\* A waiting transaction that a stored block has was put into the pool late.
PoolLate == \A b \in stored : pool \cap blocks[b].txs \subseteq late

\* What the chain of a stored block packs is in stored blocks.
PackedStored == \A b \in stored : \A t \in blocks[b].packed : \E c \in stored : t \in blocks[c].txs

-----------------------------------------------------------------------------
(* Sequences that grow, and what count and the reference definition say.   *)

LEMMA AppendAny ==
    ASSUME NEW s, IsSeq(s), NEW x
    PROVE  /\ IsSeq(Append(s, x))
           /\ Len(s) \in Nat
           /\ Len(Append(s, x)) = Len(s) + 1
           /\ \A i \in 1..Len(s) : Append(s, x)[i] = s[i]
           /\ Append(s, x)[Len(s) + 1] = x
<1>1. PICK S : s \in Seq(S) BY DEF IsSeq
<1>2. s \in Seq(S \cup {x}) BY <1>1
<1>3. Append(s, x) \in Seq(S \cup {x}) BY <1>2, AppendProperties
<1>q. QED BY <1>2, <1>3, AppendProperties DEF IsSeq

\* count, in terms of what a set of transactions stores and spends.
LEMMA CountFacts ==
    ASSUME NEW ts, NEW before, NEW after \in count(ts, before)
    PROVE  /\ after \subseteq (before \ Spent(ts)) \cup Stores(ts)
           /\ before \ Spent(ts) \subseteq after
           /\ Stores(ts) \ Spent(ts) \subseteq after
           /\ Stores(ts) \cap Spent(ts) = {} => after = (before \ Spent(ts)) \cup Stores(ts)
BY DEF count

LEMMA StoresUnion ==
    ASSUME NEW ts, NEW us
    PROVE  Stores(ts \cup us) = Stores(ts) \cup Stores(us) /\ Spent(ts \cup us) = Spent(ts) \cup Spent(us)
BY DEF Stores, Spent

\* The reference definition and count agree on one set of transactions.
LEMMA UnspentIs == ASSUME NEW ts PROVE Unspent(ts) = Stores(ts) \ Spent(ts)
<1>1. \A t : Free(t) = {Output(t, n) : n \in Kept(t)}
  BY DEF Free, Kept, IsMine, Locked
<1>2. Inputs(ts) = Spent(ts) BY DEF Inputs, Spent, Deletes
<1>q. QED BY <1>1, <1>2 DEF Unspent, Stores

\* What is stored is an output of one of the transactions.
LEMMA StoresTx == ASSUME NEW ts, NEW o \in Stores(ts) PROVE o.tx \in ts
BY DEF Stores, Output

\* What is spent is an input of one of them.
LEMMA SpentTx == ASSUME NEW ts, NEW o \in Spent(ts) PROVE \E t \in ts : o \in txs[t].vins
BY DEF Spent, Deletes

\* Transactions do not change once they are made.
LEMMA Frozen ==
    ASSUME \A t \in Txs : txs'[t] = txs[t], NEW ts, ts \subseteq Txs
    PROVE  Stores(ts)' = Stores(ts) /\ Spent(ts)' = Spent(ts) /\ Unspent(ts)' = Unspent(ts)
<1>1. \A t \in ts : txs'[t] = txs[t] OBVIOUS
<1>2. \A t \in ts : Kept(t)' = Kept(t) /\ Deletes(t)' = Deletes(t) BY <1>1 DEF Kept, IsMine, Locked, Deletes
<1>3. Stores(ts)' = Stores(ts) BY <1>2 DEF Stores
<1>4. Spent(ts)' = Spent(ts) BY <1>2 DEF Spent
<1>5. \A t \in ts : Free(t)' = Free(t) BY <1>1 DEF Free
<1>6. Inputs(ts)' = Inputs(ts) BY <1>1 DEF Inputs
<1>q. QED BY <1>3, <1>4, <1>5, <1>6 DEF Unspent
-----------------------------------------------------------------------------
(* The balance.                                                            *)

Money == Backed /\ KnownInputs /\ NothingLost /\ BalanceExact
moneyVars == <<balance, counted, again, restarts>>

\* Nothing of the balance depends on the other variables.
LEMMA MoneySame == ASSUME Money, UNCHANGED <<txs, moneyVars>> PROVE Money'
BY DEF Money, moneyVars, Backed, KnownInputs, NothingLost, BalanceExact, Stores, Kept, IsMine, Locked,
       Unspent, Free, Inputs, Txs, Output

\* A new transaction changes nothing that was counted; before a restart it spends
\* outputs of counted transactions.
LEMMA MoneyNewTx ==
    ASSUME Ledger, Held, Money, NEW x, txs' = Append(txs, x), UNCHANGED moneyVars,
           \A o \in x.vins : o.tx = 0 \/ o.tx \in counted
    PROVE  /\ Money'
           /\ IsSeq(txs') /\ Txs' = Txs \cup {Len(txs) + 1} /\ Len(txs) + 1 \notin Txs
<1>0. IsSeq(txs) BY DEF Ledger
<1>1. /\ IsSeq(txs') /\ Len(txs) \in Nat /\ Len(txs') = Len(txs) + 1
      /\ \A t \in Txs : txs'[t] = txs[t]
      /\ txs'[Len(txs) + 1] = x
  BY <1>0, AppendAny DEF Txs
<1>2. Txs' = Txs \cup {Len(txs) + 1} /\ Len(txs) + 1 \notin Txs BY <1>1 DEF Txs
<1>3. /\ balance' = balance /\ counted' = counted /\ again' = again /\ restarts' = restarts
  BY DEF moneyVars
<1>4. counted \subseteq Txs BY DEF Held
<1>5. Stores(counted)' = Stores(counted) /\ Unspent(counted)' = Unspent(counted)
  <2>1. \A ts \in SUBSET Txs : Stores(ts)' = Stores(ts) /\ Unspent(ts)' = Unspent(ts)
    BY <1>1, Frozen
  <2>q. QED BY <2>1, <1>3, <1>4 DEF Stores, Unspent, Inputs
<1>6. Backed' BY <1>3, <1>5 DEF Money, Backed
<1>7. KnownInputs'
  <2>. SUFFICES ASSUME restarts = 0, NEW t \in Txs', NEW o \in txs'[t].vins PROVE o.tx = 0 \/ o.tx \in counted
    BY <1>3 DEF KnownInputs
  <2>1. CASE t \in Txs BY <2>1, <1>1 DEF Money, KnownInputs
  <2>2. CASE t = Len(txs) + 1 BY <2>2, <1>1
  <2>q. QED BY <2>1, <2>2, <1>2
<1>8. NothingLost' BY <1>3, <1>5 DEF Money, NothingLost
<1>9. BalanceExact' BY <1>3, <1>5 DEF Money, BalanceExact
<1>q. QED BY <1>1, <1>2, <1>6, <1>7, <1>8, <1>9 DEF Money

\* A block is counted, whether or not its height fits.
LEMMA MoneyCount ==
    ASSUME Held, Money, NEW ts, ts \subseteq Txs, UNCHANGED <<txs, restarts>>,
           balance' \in count(ts, balance), counted' = counted \cup ts, again' = again \cup (counted \cap ts)
    PROVE  Money'
<1>1. /\ \A us : Stores(us)' = Stores(us) /\ Spent(us)' = Spent(us)
      /\ Txs' = Txs /\ restarts' = restarts
  BY DEF Stores, Spent, Kept, Deletes, IsMine, Locked, Output, Txs
<1>2. Stores(counted)' = Stores(counted) \cup Stores(ts) /\ Spent(counted)' = Spent(counted) \cup Spent(ts)
  <2>1. Stores(counted)' = Stores(counted \cup ts) /\ Spent(counted)' = Spent(counted \cup ts)
    BY DEF Stores, Spent, Kept, Deletes, IsMine, Locked, Output
  <2>q. QED BY <2>1, StoresUnion
<1>3. Unspent(counted) = Stores(counted) \ Spent(counted) BY UnspentIs
<1>4. Unspent(counted)' = Stores(counted)' \ Spent(counted)'
  <2>1. \A us : Unspent(us) = Stores(us) \ Spent(us) BY UnspentIs
  <2>2. Unspent(counted)' = Unspent(counted \cup ts) BY DEF Unspent, Free, Inputs, Output
  <2>q. QED BY <2>1, <2>2, <1>2, StoresUnion
<1>5. /\ balance' \subseteq (balance \ Spent(ts)) \cup Stores(ts)
      /\ balance \ Spent(ts) \subseteq balance'
      /\ Stores(ts) \ Spent(ts) \subseteq balance'
      /\ Stores(ts) \cap Spent(ts) = {} => balance' = (balance \ Spent(ts)) \cup Stores(ts)
  BY CountFacts
<1>6. Backed' BY <1>2, <1>5 DEF Money, Backed
<1>7. KnownInputs' BY <1>1 DEF Money, KnownInputs
<1>8. NothingLost' BY <1>2, <1>3, <1>4, <1>5 DEF Money, NothingLost
<1>9. BalanceExact'
  <2>. SUFFICES ASSUME restarts = 0, again = {}, counted \cap ts = {} PROVE balance' = Unspent(counted)'
    BY <1>1 DEF BalanceExact
  <2>1. counted \subseteq Txs /\ 0 \notin Txs BY DEF Held, Txs
  <2>2. \A us \in SUBSET Txs : Stores(ts) \cap Spent(us) = {}
    <3>. SUFFICES ASSUME NEW us \in SUBSET Txs, NEW o \in Stores(ts), o \in Spent(us) PROVE FALSE
      OBVIOUS
    <3>1. o.tx \in ts BY StoresTx
    <3>2. PICK t \in us : o \in txs[t].vins BY SpentTx
    <3>3. o.tx = 0 \/ o.tx \in counted BY <3>2 DEF Money, KnownInputs
    <3>q. QED BY <3>1, <3>3, <2>1
  <2>3. Stores(ts) \cap Spent(ts) = {} /\ Stores(ts) \cap Spent(counted) = {} BY <2>1, <2>2
  <2>4. balance = Stores(counted) \ Spent(counted) BY <1>3 DEF Money, BalanceExact
  <2>5. balance' = (balance \ Spent(ts)) \cup Stores(ts) BY <1>5, <2>3
  <2>q. QED BY <2>3, <2>4, <2>5, <1>2, <1>4
<1>q. QED BY <1>6, <1>7, <1>8, <1>9 DEF Money

\* After a restart the balance is counted anew: the first block, then others.
LEMMA MoneyRestart ==
    ASSUME Held, NEW one, NEW first, NEW ts, first \subseteq Txs, ts \subseteq Txs, UNCHANGED txs,
           one \in count(first, {}), balance' \in count(ts, one),
           counted' = first \cup ts, restarts \in Nat, restarts' = restarts + 1
    PROVE  Money'
<1>1. Stores(counted)' = Stores(first) \cup Stores(ts) /\ Spent(counted)' = Spent(first) \cup Spent(ts)
  <2>1. Stores(counted)' = Stores(first \cup ts) /\ Spent(counted)' = Spent(first \cup ts)
    BY DEF Stores, Spent, Kept, Deletes, IsMine, Locked, Output
  <2>q. QED BY <2>1, StoresUnion
<1>2. Unspent(counted)' = Stores(counted)' \ Spent(counted)'
  <2>1. \A us : Unspent(us) = Stores(us) \ Spent(us) BY UnspentIs
  <2>2. Unspent(counted)' = Unspent(first \cup ts) BY DEF Unspent, Free, Inputs, Output
  <2>q. QED BY <2>1, <2>2, <1>1, StoresUnion
<1>3. one \subseteq Stores(first) /\ Stores(first) \ Spent(first) \subseteq one
  BY CountFacts
<1>4. /\ balance' \subseteq (one \ Spent(ts)) \cup Stores(ts)
      /\ one \ Spent(ts) \subseteq balance'
      /\ Stores(ts) \ Spent(ts) \subseteq balance'
  BY CountFacts
<1>5. Backed' BY <1>1, <1>3, <1>4 DEF Backed
<1>6. NothingLost' BY <1>1, <1>2, <1>3, <1>4 DEF NothingLost
<1>7. restarts' # 0 OBVIOUS
<1>q. QED BY <1>5, <1>6, <1>7 DEF Money, KnownInputs, BalanceExact
-----------------------------------------------------------------------------
(* Packing.                                                                *)

Packing == PoolLate /\ PackedStored /\ PacksOnce
WalletInv == Ledger /\ Held /\ Money /\ Packing

\* The blocks stay what they are when transactions are made.
LEMMA LedgerSame ==
    ASSUME Ledger, blocks' = blocks, IsSeq(txs'), Txs \subseteq Txs' PROVE Ledger'
BY DEF Ledger, Blocks

\* A new block on one that exists, with transactions that exist by then.
LEMMA LedgerNewBlock ==
    ASSUME Ledger, NEW prev \in Blocks, NEW ts, blocks' = Append(blocks, NewBlock(prev, ts)),
           IsSeq(txs'), Txs \subseteq Txs', ts \subseteq Txs'
    PROVE  /\ Ledger' /\ Blocks \subseteq Blocks'
           /\ \A b \in Blocks : blocks'[b] = blocks[b]
           /\ \A b \in Blocks' \ Blocks : blocks'[b] = NewBlock(prev, ts)
<1>1. /\ IsSeq(blocks') /\ Len(blocks) \in Nat /\ Len(blocks') = Len(blocks) + 1
      /\ \A b \in Blocks : blocks'[b] = blocks[b]
      /\ blocks'[Len(blocks) + 1] = NewBlock(prev, ts)
  BY AppendAny DEF Ledger, Blocks
<1>2. Blocks' = Blocks \cup {Len(blocks) + 1} /\ Len(blocks) + 1 \notin Blocks BY <1>1 DEF Blocks
<1>3. /\ blocks'[Len(blocks) + 1].prev = prev
      /\ blocks'[Len(blocks) + 1].txs = ts
      /\ blocks'[Len(blocks) + 1].packed = ts \cup blocks[prev].packed
  BY <1>1 DEF NewBlock
<1>4. 1 \in Txs' /\ 1 \in Blocks' BY <1>2 DEF Ledger
<1>5. \A b \in Blocks' : blocks'[b].txs \subseteq blocks'[b].packed /\ blocks'[b].packed \subseteq Txs'
  BY <1>1, <1>2, <1>3 DEF Ledger
<1>6. blocks'[1].prev = 0 /\ blocks'[1].packed = blocks'[1].txs BY <1>1 DEF Ledger
<1>7. ASSUME NEW b \in Blocks' \ {1}
      PROVE  /\ blocks'[b].prev \in Blocks'
             /\ blocks'[b].packed = blocks'[b].txs \cup blocks'[blocks'[b].prev].packed
  <2>1. CASE b \in Blocks BY <2>1, <1>1, <1>2 DEF Ledger
  <2>2. CASE b = Len(blocks) + 1 BY <2>2, <1>1, <1>2, <1>3
  <2>q. QED BY <2>1, <2>2, <1>2
<1>q. QED BY <1>1, <1>2, <1>4, <1>5, <1>6, <1>7 DEF Ledger

\* A block on prev whose transactions are in the chain of prev only if they are late.
LEMMA PackingNewBlock ==
    ASSUME Ledger, Ledger', Held, Packing, NEW prev \in Blocks, NEW ts,
           Blocks \subseteq Blocks', \A b \in Blocks : blocks'[b] = blocks[b],
           \A b \in Blocks' \ Blocks : blocks'[b] = NewBlock(prev, ts),
           ts \cap blocks[prev].packed \subseteq late, UNCHANGED <<stored, late, pool>>
    PROVE  Packing'
<1>1. \A b \in stored : b \in Blocks /\ blocks'[b] = blocks[b] BY DEF Held
<1>2. PoolLate' BY <1>1 DEF Packing, PoolLate
<1>3. PackedStored' BY <1>1 DEF Packing, PackedStored
<1>4. ASSUME NEW b \in 2..Len(blocks')
      PROVE  blocks'[b].txs \cap blocks'[blocks'[b].prev].packed \subseteq late'
  <2>1. b \in Blocks' /\ b # 1 BY DEF Blocks
  <2>2. CASE b \in Blocks
    <3>1. b \in 2..Len(blocks) BY <2>1, <2>2 DEF Blocks
    <3>2. blocks[b].prev \in Blocks BY <2>1, <2>2 DEF Ledger
    <3>q. QED BY <3>1, <3>2, <2>2 DEF Packing, PacksOnce
  <2>3. CASE b \notin Blocks
    <3>1. blocks'[b].txs = ts /\ blocks'[b].prev = prev BY <2>1, <2>3 DEF NewBlock
    <3>q. QED BY <3>1
  <2>q. QED BY <2>2, <2>3
<1>5. PacksOnce' BY <1>4 DEF PacksOnce
<1>q. QED BY <1>2, <1>3, <1>5 DEF Packing

\* A transaction enters the pool from a broadcast or at the end of SendToAddress.
LEMMA PackingPool ==
    ASSUME Packing, NEW t, Pool(t), UNCHANGED <<blocks, stored>> PROVE Packing'
<1>1. late \subseteq late' /\ pool' = pool \cup {t} BY DEF Pool
<1>2. \A b \in stored : t \in blocks[b].txs => t \in late' BY DEF Pool
<1>q. QED BY <1>1, <1>2 DEF Packing, PoolLate, PackedStored, PacksOnce

\* The pool loses transactions and nothing else changes.
LEMMA PackingLess ==
    ASSUME Packing, pool' \subseteq pool, UNCHANGED <<blocks, stored, late>> PROVE Packing'
BY DEF Packing, PoolLate, PackedStored, PacksOnce

\* A block is stored: its transactions leave the pool.
LEMMA PackingStore ==
    ASSUME Ledger, Packing, NEW b \in Blocks, b = 1 \/ blocks[b].prev \in stored,
           stored' = stored \cup {b}, pool' = Unpack(blocks[b].txs), UNCHANGED <<blocks, late>>
    PROVE  Packing'
<1>1. PoolLate' BY DEF Packing, PoolLate, Unpack
<1>2. ASSUME NEW t \in blocks[b].packed PROVE \E c \in stored' : t \in blocks[c].txs
  <2>1. CASE t \in blocks[b].txs BY <2>1
  <2>2. CASE t \notin blocks[b].txs
    <3>1. b # 1 /\ t \in blocks[blocks[b].prev].packed BY <1>2, <2>2 DEF Ledger
    <3>q. QED BY <3>1 DEF Packing, PackedStored
  <2>q. QED BY <2>1, <2>2
<1>3. PackedStored' BY <1>2 DEF Packing, PackedStored
<1>4. PacksOnce' BY DEF Packing, PacksOnce
<1>q. QED BY <1>1, <1>3, <1>4 DEF Packing
-----------------------------------------------------------------------------
(* The inductive invariant.                                                *)

\* Outputs that a payment may take are in the balance.
LEMMA TakenFree == ASSUME NEW addr, NEW before, NEW target, NEW s \in Taken(addr, before, target) PROVE s \subseteq balance
BY DEF Taken, FindBalance

LEMMA WalletInit == Init => WalletInv
<1>. SUFFICES ASSUME Init PROVE WalletInv OBVIOUS
<1>1. txs = <<Tx("mining", {}, <<Vout(Coinbase, 3 * Reward)>>, 0)>> /\ Len(txs) = 1 /\ Txs = {1} BY DEF Init, Txs
<1>2. blocks = <<[prev |-> 0, height |-> 1, txs |-> {1}, packed |-> {1}]>> /\ Len(blocks) = 1 /\ Blocks = {1}
  BY DEF Init, Blocks
<1>3. IsSeq(txs)
  <2>1. txs \in Seq({txs[1]}) BY <1>1
  <2>q. QED BY <2>1 DEF IsSeq
<1>4. IsSeq(blocks)
  <2>1. blocks \in Seq({blocks[1]}) BY <1>2
  <2>q. QED BY <2>1 DEF IsSeq
<1>5. blocks[1].prev = 0 /\ blocks[1].txs = {1} /\ blocks[1].packed = {1} BY <1>2
<1>6. Ledger BY <1>1, <1>2, <1>3, <1>4, <1>5 DEF Ledger
<1>7. Held BY <1>1, <1>2 DEF Init, Held
<1>8. Stores({1}) = {Output(1, 1)} /\ Spent({1}) = {}
  <2>1. txs[1].class = "mining" /\ txs[1].vins = {} /\ txs[1].vouts = <<Vout(Coinbase, 3 * Reward)>>
    BY <1>1 DEF Tx
  <2>2. Len(txs[1].vouts) = 1 /\ txs[1].vouts[1].addr = Coinbase BY <2>1 DEF Vout
  <2>3. Kept(1) = {1} BY <2>1, <2>2 DEF Kept, IsMine, Mine, Locked
  <2>q. QED BY <2>1, <2>3 DEF Stores, Spent, Deletes
<1>9. Unspent({1}) = {Output(1, 1)} BY <1>8, UnspentIs
<1>10. \A t \in Txs : txs[t].vins = {} BY <1>1 DEF Tx
<1>11. Money BY <1>8, <1>9, <1>10 DEF Init, Money, Backed, KnownInputs, NothingLost, BalanceExact
<1>12. Packing BY <1>2, <1>5 DEF Init, Packing, PoolLate, PackedStored, PacksOnce
<1>q. QED BY <1>6, <1>7, <1>11, <1>12 DEF WalletInv

\* Every step keeps the invariant.
LEMMA WalletStep == WalletInv /\ [Next]_vars => WalletInv'
<1>. SUFFICES ASSUME Ledger, Held, Money, Packing, [Next]_vars PROVE Ledger' /\ Held' /\ Money' /\ Packing'
  BY DEF WalletInv
<1>0. \A o \in balance : o.tx \in counted BY StoresTx DEF Money, Backed
<1>1. ASSUME NEW dst, NEW amount, SendToAddress(dst, amount) PROVE Ledger' /\ Held' /\ Money' /\ Packing'
  <2>1. PICK x : /\ txs' = Append(txs, x) /\ x.vins \subseteq balance /\ sending' = sending \cup {Len(txs) + 1}
    <3>1. PICK first \in Taken(Second, 0, (amount + Gas) % Word) :
          \E more \in IF Total(first) < (amount + Gas) % Word
                      THEN Taken(Coinbase, Total(first), (amount + Gas) % Word) ELSE {{}} :
            LET vins == first \cup more
                total == Total(vins)
            IN  /\ txs' = Append(txs, Tx("pay", vins, PayOutputs(dst, amount, total), Gas))
                /\ sending' = sending \cup {Len(txs) + 1}
      BY <1>1 DEF SendToAddress
    <3>2. PICK more \in IF Total(first) < (amount + Gas) % Word
                        THEN Taken(Coinbase, Total(first), (amount + Gas) % Word) ELSE {{}} :
            /\ txs' = Append(txs, Tx("pay", first \cup more, PayOutputs(dst, amount, Total(first \cup more)), Gas))
            /\ sending' = sending \cup {Len(txs) + 1}
      BY <3>1
    <3>3. first \subseteq balance BY TakenFree
    <3>4. more \subseteq balance BY TakenFree
    <3>5. Tx("pay", first \cup more, PayOutputs(dst, amount, Total(first \cup more)), Gas).vins \subseteq balance
      BY <3>3, <3>4 DEF Tx
    <3>q. QED BY <3>2, <3>5
  <2>2. UNCHANGED <<blocks, stored, balance, pool, tail, counted, again, late, restarts>>
    BY <1>1 DEF SendToAddress
  <2>3. /\ Money' /\ IsSeq(txs') /\ Txs' = Txs \cup {Len(txs) + 1}
    BY <1>0, <2>1, <2>2, MoneyNewTx DEF moneyVars
  <2>4. Ledger' BY <2>2, <2>3, LedgerSame
  <2>5. Held' BY <2>1, <2>2, <2>3 DEF Held, Blocks
  <2>6. Packing' BY <2>2, PackingLess
  <2>q. QED BY <2>3, <2>4, <2>5, <2>6
<1>2. ASSUME PeerPay PROVE Ledger' /\ Held' /\ Money' /\ Packing'
  <2>1. PICK x : txs' = Append(txs, x) /\ \A o \in x.vins : o.tx = 0
    <3>1. \A o \in Tx("pay", {Foreign(Len(txs) + 1)}, <<Vout(Second, Received)>>, Gas).vins : o.tx = 0
      BY DEF Tx, Foreign, Output
    <3>q. QED BY <1>2, <3>1 DEF PeerPay
  <2>2. UNCHANGED <<blocks, stored, balance, pool, sending, tail, counted, again, late, restarts>>
    BY <1>2 DEF PeerPay
  <2>3. /\ Money' /\ IsSeq(txs') /\ Txs' = Txs \cup {Len(txs) + 1}
    BY <2>1, <2>2, MoneyNewTx DEF moneyVars
  <2>4. Ledger' BY <2>2, <2>3, LedgerSame
  <2>5. Held' BY <2>2, <2>3 DEF Held, Blocks
  <2>6. Packing' BY <2>2, PackingLess
  <2>q. QED BY <2>3, <2>4, <2>5, <2>6
<1>3. ASSUME NEW t \in Txs, StorePay(t) \/ MulticastTransaction_recv(t) PROVE Ledger' /\ Held' /\ Money' /\ Packing'
  <2>1. /\ Pool(t) /\ sending' \subseteq sending
        /\ UNCHANGED <<txs, blocks, stored, balance, tail, counted, again, restarts>>
    BY <1>3 DEF StorePay, MulticastTransaction_recv
  <2>2. Ledger' BY <2>1 DEF Ledger, Blocks, Txs
  <2>3. Held' BY <2>1 DEF Held, Pool, Blocks, Txs
  <2>4. Money' BY <2>1, MoneySame DEF moneyVars
  <2>5. Packing' BY <2>1, PackingPool
  <2>q. QED BY <2>2, <2>3, <2>4, <2>5
<1>4. ASSUME PayDeposit PROVE Ledger' /\ Held' /\ Money' /\ Packing'
  <2>1. UNCHANGED <<blocks, stored, balance, sending, tail, counted, again, late, restarts>>
    BY <1>4 DEF PayDeposit
  <2>2. CASE UNCHANGED <<txs, pool>>
    <3>1. Ledger' /\ Held' BY <2>1, <2>2 DEF Ledger, Held, Blocks, Txs
    <3>2. Money' BY <2>1, <2>2, MoneySame DEF moneyVars
    <3>3. Packing' BY <2>1, <2>2, PackingLess
    <3>q. QED BY <3>1, <3>2, <3>3
  <2>3. CASE \E vins \in Taken(Coinbase, 0, Deposit) :
                /\ txs' = Append(txs, Tx("deposit_in", vins, DepositOutputs(Total(vins)), 0))
                /\ pool' = pool \cup {Len(txs) + 1}
    <3>1. PICK x : txs' = Append(txs, x) /\ x.vins \subseteq balance /\ pool' = pool \cup {Len(txs) + 1}
      <4>1. PICK vins \in Taken(Coinbase, 0, Deposit) :
                /\ txs' = Append(txs, Tx("deposit_in", vins, DepositOutputs(Total(vins)), 0))
                /\ pool' = pool \cup {Len(txs) + 1}
        BY <2>3
      <4>2. Tx("deposit_in", vins, DepositOutputs(Total(vins)), 0).vins \subseteq balance BY TakenFree DEF Tx
      <4>q. QED BY <4>1, <4>2
    <3>2. /\ Money' /\ IsSeq(txs') /\ Txs' = Txs \cup {Len(txs) + 1} /\ Len(txs) + 1 \notin Txs
      BY <1>0, <2>1, <3>1, MoneyNewTx DEF moneyVars
    <3>3. Ledger' BY <2>1, <3>2, LedgerSame
    <3>4. Held' BY <2>1, <3>1, <3>2 DEF Held, Blocks
    <3>5. \A b \in stored : Len(txs) + 1 \notin blocks[b].txs BY <3>2 DEF Ledger, Held
    <3>6. Packing' BY <2>1, <3>1, <3>5 DEF Packing, PoolLate, PackedStored, PacksOnce
    <3>q. QED BY <3>2, <3>3, <3>4, <3>6
  <2>q. QED BY <2>2, <2>3, <1>4 DEF PayDeposit
<1>5. ASSUME BuildBlockForPOW PROVE Ledger' /\ Held' /\ Money' /\ Packing'
  <2>1. /\ UNCHANGED <<stored, balance, pool, sending, tail, counted, again, late, restarts>>
        /\ txs' = Append(txs, Tx("mining", {}, <<Vout(Coinbase, Reward)>>, 0))
        /\ blocks' = Append(blocks, NewBlock(tail, pool \cup {Len(txs) + 1}))
    BY <1>5 DEF BuildBlockForPOW
  <2>2. Tx("mining", {}, <<Vout(Coinbase, Reward)>>, 0).vins = {} BY DEF Tx
  <2>3. /\ Money' /\ IsSeq(txs') /\ Txs' = Txs \cup {Len(txs) + 1} /\ Len(txs) + 1 \notin Txs
    BY <2>1, <2>2, MoneyNewTx DEF moneyVars
  <2>4. tail \in Blocks /\ tail \in stored /\ pool \cup {Len(txs) + 1} \subseteq Txs' BY <2>3 DEF Held
  <2>5. /\ Ledger' /\ Blocks \subseteq Blocks'
        /\ \A b \in Blocks : blocks'[b] = blocks[b]
        /\ \A b \in Blocks' \ Blocks : blocks'[b] = NewBlock(tail, pool \cup {Len(txs) + 1})
    BY <2>1, <2>3, <2>4, LedgerNewBlock
  <2>6. Held' BY <2>1, <2>3, <2>5 DEF Held
  <2>7. (pool \cup {Len(txs) + 1}) \cap blocks[tail].packed \subseteq late
    <3>1. Len(txs) + 1 \notin blocks[tail].packed BY <2>3, <2>4 DEF Ledger
    <3>2. \A t \in pool : t \in blocks[tail].packed => t \in late
      BY <2>4 DEF Packing, PoolLate, PackedStored
    <3>q. QED BY <3>1, <3>2
  <2>8. Packing' BY <2>1, <2>4, <2>5, <2>7, PackingNewBlock
  <2>q. QED BY <2>3, <2>5, <2>6, <2>8
<1>6. ASSUME NEW prev \in 1..Len(blocks), NEW ts \in SUBSET Txs, PeerBuild(prev, ts)
      PROVE  Ledger' /\ Held' /\ Money' /\ Packing'
  <2>1. /\ UNCHANGED <<txs, stored, balance, pool, sending, tail, counted, again, late, restarts>>
        /\ ts \cap blocks[prev].packed = {}
        /\ blocks' = Append(blocks, NewBlock(prev, ts))
    BY <1>6 DEF PeerBuild
  <2>2. prev \in Blocks /\ IsSeq(txs') /\ Txs' = Txs BY <2>1 DEF Ledger, Blocks, Txs
  <2>3. Money' BY <2>1, MoneySame DEF moneyVars
  <2>4. /\ Ledger' /\ Blocks \subseteq Blocks'
        /\ \A b \in Blocks : blocks'[b] = blocks[b]
        /\ \A b \in Blocks' \ Blocks : blocks'[b] = NewBlock(prev, ts)
    BY <2>1, <2>2, LedgerNewBlock
  <2>5. Held' BY <2>1, <2>2, <2>4 DEF Held
  <2>6. Packing' BY <2>1, <2>2, <2>4, PackingNewBlock
  <2>q. QED BY <2>3, <2>4, <2>5, <2>6
<1>7. ASSUME NEW b \in 1..Len(blocks), saveBlockHead(b) PROVE Ledger' /\ Held' /\ Money' /\ Packing'
  <2>1. UNCHANGED <<txs, blocks, sending, late, restarts>> BY <1>7 DEF saveBlockHead
  <2>2. Ledger' BY <2>1 DEF Ledger, Blocks, Txs
  <2>3. CASE UNCHANGED <<stored, pool, balance, counted, again, tail, pc>>
    <3>1. Held' BY <2>1, <2>3 DEF Held, Blocks, Txs
    <3>2. Money' BY <2>1, <2>3, MoneySame DEF moneyVars
    <3>3. Packing' BY <2>1, <2>3, PackingLess
    <3>q. QED BY <2>2, <3>1, <3>2, <3>3
  <2>4. CASE /\ blocks[b].prev = 0 \/ blocks[b].prev \in stored
             /\ stored' = stored \cup {b}
             /\ pool' = Unpack(blocks[b].txs)
             /\ AddBlock(b)
    <3>1. b \in Blocks /\ blocks[b].txs \subseteq Txs BY DEF Blocks, Ledger
    <3>2. b = 1 \/ blocks[b].prev \in stored BY <2>4, <3>1 DEF Ledger, Blocks
    <3>3. /\ balance' \in count(blocks[b].txs, balance)
          /\ counted' = counted \cup blocks[b].txs
          /\ again' = again \cup (counted \cap blocks[b].txs)
          /\ tail' \in {tail, b}
      BY <2>4 DEF AddBlock
    <3>4. Held' BY <2>1, <2>4, <3>1, <3>2, <3>3 DEF Held, Unpack, Blocks, Txs
    <3>5. Money' BY <2>1, <3>1, <3>3, MoneyCount
    <3>6. Packing' BY <2>1, <2>4, <3>1, <3>2, PackingStore
    <3>q. QED BY <2>2, <3>4, <3>5, <3>6
  <2>q. QED BY <2>3, <2>4, <1>7 DEF saveBlockHead
<1>8. ASSUME Restart PROVE Ledger' /\ Held' /\ Money' /\ Packing'
  <2>1. /\ UNCHANGED <<txs, blocks, stored, late>>
        /\ restarts' = restarts + 1 /\ pool' = {} /\ sending' = {}
    BY <1>8 DEF Restart
  <2>2. PICK next \in SUBSET {b \in stored : blocks[b].prev = 1} :
          /\ tail' \in IF next = {} THEN {1} ELSE next
          /\ \E one \in count(blocks[1].txs, {}) : balance' \in count(UNION {blocks[b].txs : b \in next}, one)
          /\ counted' = blocks[1].txs \cup UNION {blocks[b].txs : b \in next}
    BY <1>8 DEF Restart
  <2>3. /\ blocks[1].txs \subseteq Txs /\ UNION {blocks[b].txs : b \in next} \subseteq Txs
        /\ restarts \in Nat /\ tail' \in stored
    <3>1. \A b \in stored : blocks[b].txs \subseteq Txs BY DEF Ledger, Held
    <3>q. QED BY <3>1, <2>2 DEF Held
  <2>4. Ledger' BY <2>1 DEF Ledger, Blocks, Txs
  <2>5. Held' BY <2>1, <2>2, <2>3 DEF Held, Blocks, Txs
  <2>6. PICK one \in count(blocks[1].txs, {}) : balance' \in count(UNION {blocks[b].txs : b \in next}, one)
    BY <2>2
  <2>7. Money' BY <2>1, <2>2, <2>3, <2>6, MoneyRestart
  <2>8. Packing' BY <2>1, PackingLess
  <2>q. QED BY <2>4, <2>5, <2>7, <2>8
<1>9. CASE UNCHANGED vars
  <2>1. Ledger' /\ Held' BY <1>9 DEF vars, Ledger, Held, Blocks, Txs
  <2>2. Money' BY <1>9, MoneySame DEF vars, moneyVars
  <2>3. Packing' BY <1>9, PackingLess DEF vars
  <2>q. QED BY <2>1, <2>2, <2>3
<1>q. QED BY <1>1, <1>2, <1>3, <1>4, <1>5, <1>6, <1>7, <1>8, <1>9 DEF Next, Pay, Pooling, Build, Save

\* BalanceManager.count, AddBlock and BuildBlockForPOW keep the invariant of the wallet
\* through forks, repeated deliveries and restarts.
THEOREM WalletAlways == Spec => []WalletInv
BY WalletInit, WalletStep, PTL DEF Spec

\* No output of the wallet that the counted transactions leave unspent is ever missing
\* from the balance (count), whatever blocks are delivered again or loaded.
THEOREM AlwaysNothingLost == Spec => []NothingLost
<1>1. WalletInv => NothingLost BY DEF WalletInv, Money
<1>q. QED BY WalletAlways, <1>1, PTL

\* Without a restart and while no transaction is counted twice, count keeps exactly
\* the unspent outputs.
THEOREM AlwaysExact == Spec => []BalanceExact
<1>1. WalletInv => BalanceExact BY DEF WalletInv, Money
<1>q. QED BY WalletAlways, <1>1, PTL

\* A block that is built on a chain packs a transaction of that chain again only if it
\* entered the pool after a block with it was stored (saveBlockHead empties the pool).
THEOREM AlwaysPacksOnce == Spec => []PacksOnce
<1>1. WalletInv => PacksOnce BY DEF WalletInv, Packing
<1>q. QED BY WalletAlways, <1>1, PTL
-----------------------------------------------------------------------------
(* Sums over a finite set.  An induction over its subsets is the choice of *)
(* a smallest one that would be an exception.                              *)

\* The element that the fold takes next.
Any(s) == CHOOSE x \in s : TRUE

\* g is the sum of f over every subset of S, as the fold computes it.
IsSum(g, f, S) == g = [s \in SUBSET S |-> IF s = {} THEN 0 ELSE f[Any(s)] + g[s \ {Any(s)}]]

\* SumFunctionOnSet is a fold: the value at S of a function on the subsets of S.
LEMMA SumDef == ASSUME NEW f, NEW S PROVE SumFunctionOnSet(f, S) = (CHOOSE g : IsSum(g, f, S))[S]
BY DEF SumFunctionOnSet, FoldFunctionOnSet, MapThenFoldSet, IsSum, Any

\* It is one.
LEMMA AnyElement == ASSUME NEW s, s # {} PROVE Any(s) \in s
BY DEF Any

\* A set of subsets of a finite set has one that contains no other.
LEMMA Smallest ==
    ASSUME NEW S, IsFiniteSet(S), NEW T, T \subseteq SUBSET S, T # {}
    PROVE  \E s \in T : \A u \in SUBSET s : u # s => u \notin T
<1>1. FiniteSubsetsOf(S) = SUBSET S BY FS_FiniteSubsetsOfFinite
<1>2. IsWellFoundedOn(StrictSubsetOrdering(S), SUBSET S) BY <1>1, FS_StrictSubsetOrderingWellFounded
<1>3. PICK s \in T : \A u \in T : <<u, s>> \notin StrictSubsetOrdering(S) BY <1>2, WFMin
<1>q. QED BY <1>3 DEF StrictSubsetOrdering

\* On a subset of both sets, two such functions are equal.
LEMMA SumUnique ==
    ASSUME NEW f, NEW S, NEW R, IsFiniteSet(S), NEW g, IsSum(g, f, S), NEW h, IsSum(h, f, R),
           NEW s \in SUBSET (S \cap R)
    PROVE  g[s] = h[s]
<1>. DEFINE T == {u \in SUBSET (S \cap R) : g[u] # h[u]}
<1>. SUFFICES ASSUME T # {} PROVE FALSE OBVIOUS
<1>0. T \subseteq SUBSET S OBVIOUS
<1>. HIDE DEF T
<1>1. PICK u \in T : \A v \in SUBSET u : v # u => v \notin T BY <1>0, Smallest
<1>2. u \in SUBSET (S \cap R) /\ g[u] # h[u] BY DEF T
<1>3. /\ g[u] = IF u = {} THEN 0 ELSE f[Any(u)] + g[u \ {Any(u)}]
      /\ h[u] = IF u = {} THEN 0 ELSE f[Any(u)] + h[u \ {Any(u)}]
  BY <1>2 DEF IsSum
<1>4. u # {} BY <1>2, <1>3
<1>5. u \ {Any(u)} \in SUBSET u /\ u \ {Any(u)} # u BY <1>4, AnyElement
<1>6. g[u \ {Any(u)}] = h[u \ {Any(u)}] BY <1>1, <1>2, <1>5 DEF T
<1>q. QED BY <1>2, <1>3, <1>6

\* There is one for every finite set: for a smallest set without, it is put together
\* from those of the smaller sets.
LEMMA SumExists == ASSUME NEW f, NEW S, IsFiniteSet(S) PROVE \E g : IsSum(g, f, S)
<1>. DEFINE T == {R \in SUBSET S : ~ \E g : IsSum(g, f, R)}
<1>. SUFFICES ASSUME T # {} PROVE FALSE OBVIOUS
<1>0. T \subseteq SUBSET S OBVIOUS
<1>. HIDE DEF T
<1>1. PICK R \in T : \A u \in SUBSET R : u # R => u \notin T BY <1>0, Smallest
<1>2. R \in SUBSET S /\ ~ \E g : IsSum(g, f, R) BY DEF T
<1>3. \A u \in SUBSET R : u # R => \E g : IsSum(g, f, u) BY <1>1, <1>2 DEF T
<1>. DEFINE H(u) == CHOOSE g : IsSum(g, f, u)
            N(u) == H(u)[u]
            G == [s \in SUBSET R |-> IF s = {} THEN 0 ELSE f[Any(s)] + N(s \ {Any(s)})]
<1>4. ASSUME NEW u \in SUBSET R, u # R PROVE IsSum(H(u), f, u) BY <1>3, <1>4
<1>5. ASSUME NEW u \in SUBSET R, u # R PROVE G[u] = N(u)
  <2>1. N(u) = IF u = {} THEN 0 ELSE f[Any(u)] + H(u)[u \ {Any(u)}]
    <3>. HIDE DEF H
    <3>q. QED BY <1>4, <1>5 DEF IsSum
  <2>2. CASE u = {} BY <2>1, <2>2
  <2>3. CASE u # {}
    <3>. DEFINE v == u \ {Any(u)}
    <3>1. v \in SUBSET R /\ v # R BY <1>5
    <3>2. IsSum(H(v), f, v) BY <3>1, <1>4
    <3>3. IsSum(H(u), f, u) BY <1>4, <1>5
    <3>4. IsFiniteSet(u) BY <1>2, FS_Subset
    <3>5. v \in SUBSET (u \cap v) OBVIOUS
    <3>. HIDE DEF v, H
    <3>6. H(u)[v] = H(v)[v] BY <3>2, <3>3, <3>4, <3>5, SumUnique
    <3>q. QED BY <3>6, <2>1, <2>3 DEF v
  <2>q. QED BY <2>2, <2>3
<1>6. ASSUME NEW s \in SUBSET R, s # {} PROVE G[s \ {Any(s)}] = N(s \ {Any(s)})
  <2>1. s \ {Any(s)} \in SUBSET R /\ s \ {Any(s)} # R BY <1>6, AnyElement
  <2>q. QED BY <2>1, <1>5
<1>7. G = [s \in SUBSET R |-> IF s = {} THEN 0 ELSE f[Any(s)] + G[s \ {Any(s)}]]
  <2>. DEFINE K == [s \in SUBSET R |-> IF s = {} THEN 0 ELSE f[Any(s)] + G[s \ {Any(s)}]]
  <2>1. ASSUME NEW s \in SUBSET R PROVE G[s] = K[s]
    <3>1. CASE s = {} BY <3>1
    <3>2. CASE s # {}
      <4>1. G[s] = f[Any(s)] + N(s \ {Any(s)}) BY <3>2
      <4>2. K[s] = f[Any(s)] + G[s \ {Any(s)}] BY <3>2
      <4>q. QED BY <4>1, <4>2, <3>2, <1>6
    <3>q. QED BY <3>1, <3>2
  <2>q. QED BY <2>1
<1>8. IsSum(G, f, R)
  <2>. HIDE DEF G
  <2>q. QED BY <1>7 DEF IsSum
<1>q. QED BY <1>2, <1>8

\* The empty sum is 0.
LEMMA SumEmpty == ASSUME NEW f PROVE SumFunctionOnSet(f, {}) = 0
<1>. DEFINE g == CHOOSE h : IsSum(h, f, {})
<1>1. IsSum(g, f, {}) BY SumExists, FS_EmptySet
<1>. HIDE DEF g
<1>2. g[{}] = 0 BY <1>1 DEF IsSum
<1>q. QED BY <1>2, SumDef DEF g

\* Another sum is a value and the sum of the others.
LEMMA SumNonempty ==
    ASSUME NEW f, NEW S, IsFiniteSet(S), S # {}
    PROVE  SumFunctionOnSet(f, S) = f[Any(S)] + SumFunctionOnSet(f, S \ {Any(S)})
<1>. DEFINE g(u) == CHOOSE h : IsSum(h, f, u)
            R == S \ {Any(S)}
<1>1. IsFiniteSet(R) BY FS_Subset
<1>2. IsSum(g(S), f, S) /\ IsSum(g(R), f, R) BY <1>1, SumExists
<1>3. SumFunctionOnSet(f, S) = g(S)[S] /\ SumFunctionOnSet(f, R) = g(R)[R] BY SumDef
<1>4. R \in SUBSET (S \cap R) OBVIOUS
<1>. HIDE DEF g
<1>5. g(S)[R] = g(R)[R] BY <1>2, <1>4, SumUnique
<1>6. g(S)[S] = f[Any(S)] + g(S)[R] BY <1>2 DEF IsSum
<1>q. QED BY <1>3, <1>5, <1>6

\* A sum of natural numbers is one.
LEMMA SumIsNat ==
    ASSUME NEW f, NEW S, IsFiniteSet(S), \A x \in S : f[x] \in Nat
    PROVE  SumFunctionOnSet(f, S) \in Nat
<1>. DEFINE T == {R \in SUBSET S : SumFunctionOnSet(f, R) \notin Nat}
<1>. SUFFICES ASSUME T # {} PROVE FALSE OBVIOUS
<1>0. T \subseteq SUBSET S OBVIOUS
<1>. HIDE DEF T
<1>1. PICK R \in T : \A u \in SUBSET R : u # R => u \notin T BY <1>0, Smallest
<1>2. R \in SUBSET S /\ SumFunctionOnSet(f, R) \notin Nat /\ R # {} BY SumEmpty DEF T
<1>3. IsFiniteSet(R) BY <1>2, FS_Subset
<1>4. SumFunctionOnSet(f, R) = f[Any(R)] + SumFunctionOnSet(f, R \ {Any(R)}) BY <1>2, <1>3, SumNonempty
<1>5. Any(R) \in R BY <1>2, AnyElement
<1>6. R \ {Any(R)} \in SUBSET R /\ R \ {Any(R)} # R BY <1>5
<1>7. SumFunctionOnSet(f, R \ {Any(R)}) \in Nat BY <1>1, <1>2, <1>6 DEF T
<1>q. QED BY <1>2, <1>4, <1>5, <1>7

\* The sum of one value.
LEMMA SumOne == ASSUME NEW f, NEW x, f[x] \in Nat PROVE SumFunctionOnSet(f, {x}) = f[x]
<1>1. Any({x}) = x BY AnyElement
<1>2. SumFunctionOnSet(f, {x}) = f[x] + SumFunctionOnSet(f, {x} \ {x}) BY <1>1, SumNonempty, FS_Singleton
<1>3. {x} \ {x} = {} OBVIOUS
<1>q. QED BY <1>2, <1>3, SumEmpty

\* The sum of two values.
LEMMA SumTwo ==
    ASSUME NEW f, NEW x, NEW y, x # y, f[x] \in Nat, f[y] \in Nat
    PROVE  SumFunctionOnSet(f, {x, y}) = f[x] + f[y]
<1>1. IsFiniteSet({x, y}) 
  <2>1. IsFiniteSet({x}) BY FS_Singleton
  <2>2. IsFiniteSet({x} \cup {y}) BY <2>1, FS_AddElement
  <2>3. {x, y} = {x} \cup {y} OBVIOUS
  <2>q. QED BY <2>2, <2>3
<1>2. SumFunctionOnSet(f, {x, y}) = f[Any({x, y})] + SumFunctionOnSet(f, {x, y} \ {Any({x, y})})
  BY <1>1, SumNonempty
<1>3. CASE Any({x, y}) = x
  <2>1. {x, y} \ {x} = {y} OBVIOUS
  <2>q. QED BY <1>2, <1>3, <2>1, SumOne
<1>4. CASE Any({x, y}) = y
  <2>1. {x, y} \ {y} = {x} OBVIOUS
  <2>2. SumFunctionOnSet(f, {x}) = f[x] BY SumOne
  <2>3. SumFunctionOnSet(f, {x, y}) = f[y] + f[x] BY <1>2, <1>4, <2>1, <2>2
  <2>q. QED BY <2>3
<1>q. QED BY <1>3, <1>4, AnyElement
-----------------------------------------------------------------------------
(* What transactions take in and give out.                                 *)

\* One or two outputs, whose values are numbers.
Paying(x) ==
    /\ Len(x.vouts) \in 1..2 /\ DOMAIN x.vouts = 1..Len(x.vouts)
    /\ \A n \in 1..Len(x.vouts) : x.vouts[n].value \in Nat

\* What a transaction gives out.
PaidOut(x) == SumFunction([n \in DOMAIN x.vouts |-> x.vouts[n].value])

\* The inputs of a transaction of this wallet are outputs of transactions.
OwnInputs == \A t \in Txs : FromPeer(t) \/ \A o \in txs[t].vins : o.tx \in Txs

Exactness == (\A t \in Txs : Paying(txs[t])) /\ OwnInputs /\ PaysExactly

\* Transactions with one output.
LEMMA OneOutput ==
    ASSUME NEW a, NEW v \in Nat, NEW x, x.vouts = <<Vout(a, v)>>
    PROVE  Paying(x) /\ x.vouts[1].value = v /\ PaidOut(x) = v
<1>1. Len(x.vouts) = 1 /\ DOMAIN x.vouts = 1..1 /\ x.vouts[1] = Vout(a, v) OBVIOUS
<1>2. Vout(a, v).value = v BY DEF Vout
<1>3. Paying(x) BY <1>1, <1>2 DEF Paying
<1>. DEFINE f == [n \in DOMAIN x.vouts |-> x.vouts[n].value]
<1>4. DOMAIN f = {1} /\ f[1] = v BY <1>1, <1>2
<1>. HIDE DEF f
<1>5. SumFunctionOnSet(f, {1}) = v BY <1>4, SumOne
<1>6. PaidOut(x) = v BY <1>4, <1>5 DEF PaidOut, SumFunction, f
<1>q. QED BY <1>1, <1>2, <1>3, <1>6

\* Transactions with two outputs: what is given out is their sum.
LEMMA TwoOutputs ==
    ASSUME NEW a, NEW v \in Nat, NEW b, NEW w \in Nat, NEW x, x.vouts = <<Vout(a, v), Vout(b, w)>>
    PROVE  Paying(x) /\ x.vouts[1].value = v /\ PaidOut(x) = v + w
<1>1. /\ Len(x.vouts) = 2 /\ DOMAIN x.vouts = 1..2
      /\ x.vouts[1] = Vout(a, v) /\ x.vouts[2] = Vout(b, w)
  OBVIOUS
<1>2. Vout(a, v).value = v /\ Vout(b, w).value = w BY DEF Vout
<1>3. Paying(x) BY <1>1, <1>2 DEF Paying
<1>. DEFINE f == [n \in DOMAIN x.vouts |-> x.vouts[n].value]
<1>4. DOMAIN f = {1, 2} /\ f[1] = v /\ f[2] = w BY <1>1, <1>2
<1>. HIDE DEF f
<1>5. SumFunctionOnSet(f, {1, 2}) = v + w BY <1>4, SumTwo
<1>6. PaidOut(x) = v + w BY <1>4, <1>5 DEF PaidOut, SumFunction, f
<1>q. QED BY <1>1, <1>2, <1>3, <1>6

\* The second output follows the first, when there is one.
LEMMA Followed == ASSUME NEW a, NEW b PROVE <<a>> \o <<b>> = <<a, b>> /\ <<a>> \o <<>> = <<a>>
<1>. DEFINE u == <<a>> \o <<b>>
<1>1. <<a>> \in Seq({a, b}) /\ <<b>> \in Seq({a, b}) /\ <<a, b>> \in Seq({a, b}) OBVIOUS
<1>2. u \in Seq({a, b}) /\ Len(u) = 2 /\ u[1] = a /\ u[2] = b BY <1>1, ConcatProperties
<1>3. Len(u) = Len(<<a, b>>) /\ \A i \in 1..Len(u) : u[i] = <<a, b>>[i]
  <2>. HIDE DEF u
  <2>q. QED BY <1>2
<1>4. u = <<a, b>>
  <2>. HIDE DEF u
  <2>q. QED BY <1>1, <1>2, <1>3, SeqEqual
<1>5. <<a>> \o <<>> = <<a>> OBVIOUS
<1>q. QED BY <1>4, <1>5

\* The change makes up for what is taken in above the amount and the fee.
LEMMA PayOutputsExact ==
    ASSUME NEW dst, NEW amount \in Nat, NEW total \in Nat, total >= (amount + Gas) % Word,
           NEW x, x.vouts = PayOutputs(dst, amount, total)
    PROVE  /\ Paying(x) /\ x.vouts[1].value = amount
           /\ total < Word /\ amount + Gas < Word => total = Gas + PaidOut(x)
<1>1. Word \in Nat \ {0} /\ Gas \in Nat BY WalletAssumption
<1>2. CASE total > (amount + Gas) % Word
  <2>. DEFINE change == Change(total, amount)
  <2>1. change \in Nat BY <1>1 DEF Change
  <2>2. total < Word /\ amount + Gas < Word => change = total - amount - Gas BY <1>1, <1>2 DEF Change
  <2>3. x.vouts = <<Vout(dst, amount), Vout(Coinbase, change)>> BY <1>2, Followed DEF PayOutputs
  <2>. HIDE DEF change
  <2>4. Paying(x) /\ x.vouts[1].value = amount /\ PaidOut(x) = amount + change BY <2>1, <2>3, TwoOutputs
  <2>q. QED BY <1>1, <2>1, <2>2, <2>4
<1>3. CASE total = (amount + Gas) % Word
  <2>0. ~ (total > (amount + Gas) % Word) BY <1>3
  <2>1. x.vouts = <<Vout(dst, amount)>> BY <2>0, Followed DEF PayOutputs
  <2>2. Paying(x) /\ x.vouts[1].value = amount /\ PaidOut(x) = amount BY <2>1, OneOutput
  <2>q. QED BY <1>1, <1>3, <2>2
<1>q. QED BY <1>1, <1>2, <1>3

\* What is above the deposit comes back.
LEMMA DepositOutputsExact ==
    ASSUME NEW total \in Nat, total >= Deposit, NEW x, x.vouts = DepositOutputs(total)
    PROVE  Paying(x) /\ PaidOut(x) = total
<1>1. Deposit \in Nat BY WalletAssumption
<1>2. CASE total > Deposit
  <2>1. x.vouts = <<Vout(Coinbase, Deposit), Vout(Coinbase, total - Deposit)>>
    BY <1>2, Followed DEF DepositOutputs
  <2>2. total - Deposit \in Nat BY <1>1, <1>2
  <2>3. Paying(x) /\ PaidOut(x) = Deposit + (total - Deposit) BY <1>1, <2>1, <2>2, TwoOutputs
  <2>q. QED BY <1>1, <2>3
<1>3. CASE total = Deposit
  <2>0. ~ (total > Deposit) BY <1>3
  <2>1. x.vouts = <<Vout(Coinbase, Deposit)>> BY <2>0, Followed DEF DepositOutputs
  <2>2. Paying(x) /\ PaidOut(x) = Deposit BY <1>1, <2>1, OneOutput
  <2>q. QED BY <1>3, <2>2
<1>q. QED BY <1>1, <1>2, <1>3
-----------------------------------------------------------------------------
(* The invariant of what is paid.                                          *)

\* A balance is finite and its outputs have numbers for values, so what is taken from
\* it has a sum.
LEMMA SumOfBalance ==
    ASSUME Ledger, Held, Money, \A t \in Txs : Paying(txs[t]), NEW s, s \subseteq balance
    PROVE  Sum(s) \in Nat
<1>1. ASSUME NEW o \in s
      PROVE  /\ o = [tx |-> o.tx, out |-> o.out] /\ o.tx \in Txs /\ o.out \in 1..2
             /\ Value(o) \in Nat
  <2>1. o \in Stores(counted) BY <1>1 DEF Money, Backed
  <2>a. PICK t \in counted : o \in {Output(t, n) : n \in Kept(t)} BY <2>1 DEF Stores
  <2>2. PICK n \in Kept(t) : o = Output(t, n) BY <2>a
  <2>3. t \in Txs /\ n \in 1..Len(txs[t].vouts) BY <2>2 DEF Held, Kept
  <2>4. Len(txs[t].vouts) \in 1..2 /\ txs[t].vouts[n].value \in Nat BY <2>3 DEF Paying
  <2>q. QED BY <2>2, <2>3, <2>4 DEF Output, Value
<1>2. IsFiniteSet(s)
  <2>1. IsFiniteSet(Txs \X (1..2))
    <3>1. Len(txs) \in Nat BY AppendAny DEF Ledger
    <3>2. \A n \in Nat : IsFiniteSet(1..n) BY FS_Interval
    <3>3. IsFiniteSet(Txs) /\ IsFiniteSet(1..2) BY <3>1, <3>2 DEF Txs
    <3>q. QED BY <3>3, FS_Product
  <2>. DEFINE f == [o \in s |-> <<o.tx, o.out>>]
  <2>2. f \in [s -> Txs \X (1..2)] BY <1>1
  <2>3. \A o, p \in s : f[o] = f[p] => o = p
    <3>. SUFFICES ASSUME NEW o \in s, NEW p \in s, o.tx = p.tx, o.out = p.out PROVE o = p
      OBVIOUS
    <3>q. QED BY <1>1
  <2>. HIDE DEF f
  <2>4. f \in Injection(s, Txs \X (1..2)) BY <2>2, <2>3 DEF Injection, IsInjective
  <2>q. QED BY <2>1, <2>4, FS_Injection
<1>. DEFINE v == [o \in s |-> Value(o)]
<1>3. DOMAIN v = s /\ \A o \in s : v[o] \in Nat BY <1>1
<1>4. Sum(s) = SumFunctionOnSet(v, s) BY DEF Sum, SumFunction
<1>. HIDE DEF v
<1>q. QED BY <1>2, <1>3, <1>4, SumIsNat

\* A new transaction that pays exactly, and takes outputs of transactions.
LEMMA ExactNewTx ==
    ASSUME Ledger, Exactness, NEW x, txs' = Append(txs, x), Paying(x),
           Foreign(Len(txs) + 1) \in x.vins \/ \A o \in x.vins : o.tx \in Txs,
           \/ x.class = "mining"
           \/ Foreign(Len(txs) + 1) \in x.vins
           \/ Sum(x.vins) < Word /\ (x.class = "pay" => x.vouts[1].value + Gas < Word)
                => Sum(x.vins) = x.gas + PaidOut(x)
    PROVE  Exactness'
<1>0. IsSeq(txs) BY DEF Ledger
<1>1. /\ Len(txs) \in Nat /\ Len(txs') = Len(txs) + 1
      /\ \A t \in Txs : txs'[t] = txs[t]
      /\ txs'[Len(txs) + 1] = x
  BY <1>0, AppendAny DEF Txs
<1>. PICK n : n = Len(txs) + 1 OBVIOUS
<1>2. Txs' = Txs \cup {n} BY <1>1 DEF Txs
<1>3. \A s : (\A o \in s : o.tx \in Txs) => Sum(s)' = Sum(s)
  <2>. SUFFICES ASSUME NEW s, \A o \in s : o.tx \in Txs PROVE Sum(s)' = Sum(s)
    OBVIOUS
  <2>1. \A o \in s : Value(o)' = Value(o) BY <1>1 DEF Value
  <2>2. [o \in s |-> Value(o)'] = [o \in s |-> Value(o)] BY <2>1
  <2>q. QED BY <2>2 DEF Sum
<1>4. \A t \in Txs' : Paying(txs'[t]) BY <1>1, <1>2 DEF Exactness
<1>5. \A t \in Txs : FromPeer(t)' <=> FromPeer(t) BY <1>1 DEF FromPeer, Foreign, Output
<1>6. FromPeer(n)' <=> Foreign(n) \in x.vins BY <1>1 DEF FromPeer, Foreign, Output
<1>7. OwnInputs'
  <2>. SUFFICES ASSUME NEW t \in Txs' PROVE FromPeer(t)' \/ \A o \in txs'[t].vins : o.tx \in Txs'
    BY DEF OwnInputs
  <2>1. CASE t \in Txs BY <2>1, <1>1, <1>2, <1>5 DEF Exactness, OwnInputs
  <2>2. CASE t = n BY <2>2, <1>1, <1>2, <1>6
  <2>q. QED BY <2>1, <2>2, <1>2
<1>8. ASSUME NEW t \in Txs', NEW u, u = txs'[t], ~FromPeer(t)', u.class # "mining", Sum(u.vins)' < Word,
             u.class = "pay" => u.vouts[1].value + Gas < Word
      PROVE  Sum(u.vins)' = u.gas + PaidOut(u)
  <2>1. CASE t \in Txs
    <3>1. txs[t] = u /\ ~FromPeer(t) BY <2>1, <1>1, <1>5, <1>8
    <3>2. Sum(u.vins)' = Sum(u.vins) BY <2>1, <3>1, <1>3 DEF Exactness, OwnInputs
    <3>3. Sum(txs[t].vins) = Sum(u.vins) BY <3>1
    <3>q. QED BY <2>1, <3>1, <3>2, <3>3, <1>8 DEF Exactness, PaysExactly, PaidOut
  <2>2. CASE t = n
    <3>1. u = x /\ Foreign(n) \notin x.vins BY <2>2, <1>1, <1>6, <1>8
    <3>2. Sum(x.vins)' = Sum(x.vins) BY <3>1, <1>3
    <3>q. QED BY <3>1, <3>2, <1>8
  <2>q. QED BY <2>1, <2>2, <1>2
<1>9. PaysExactly' BY <1>8 DEF PaysExactly, PaidOut, Sum, Value
<1>q. QED BY <1>4, <1>7, <1>9 DEF Exactness

\* Nothing of it depends on the other variables.
LEMMA ExactSame == ASSUME Exactness, UNCHANGED txs PROVE Exactness'
BY DEF Exactness, Paying, OwnInputs, PaysExactly, FromPeer, Txs, Sum, Value

\* The first transaction is mined.
LEMMA ExactInit == Init => Exactness
<1>. SUFFICES ASSUME Init PROVE Exactness OBVIOUS
<1>1. txs = <<Tx("mining", {}, <<Vout(Coinbase, 3 * Reward)>>, 0)>> /\ Txs = {1} BY DEF Init, Txs
<1>2. txs[1].class = "mining" /\ txs[1].vins = {} /\ txs[1].vouts = <<Vout(Coinbase, 3 * Reward)>>
  BY <1>1 DEF Tx
<1>3. 3 * Reward \in Nat BY WalletAssumption
<1>4. Paying(txs[1]) BY <1>2, <1>3, OneOutput
<1>q. QED BY <1>1, <1>2, <1>4 DEF Exactness, OwnInputs, PaysExactly

\* Every step keeps it.
LEMMA ExactStep == WalletInv /\ Exactness /\ [Next]_vars => Exactness'
<1>. SUFFICES ASSUME Ledger, Held, Money, Exactness, [Next]_vars PROVE Exactness'
  BY DEF WalletInv
<1>0. Word \in Nat \ {0} /\ Gas \in Nat /\ Received \in Nat /\ Reward \in Nat /\ \A p \in Payments : p[2] \in Nat
  BY WalletAssumption
<1>a. ASSUME NEW s, s \subseteq balance PROVE Sum(s) \in Nat /\ \A o \in s : o.tx \in Txs
  <2>1. Sum(s) \in Nat BY <1>a, SumOfBalance DEF Exactness
  <2>2. \A o \in balance : o.tx \in Txs BY StoresTx DEF Money, Backed, Held
  <2>q. QED BY <1>a, <2>1, <2>2
<1>b. ASSUME NEW s, Sum(s) \in Nat PROVE Total(s) \in Nat /\ (Sum(s) < Word => Total(s) = Sum(s))
  BY <1>0, <1>b DEF Total
<1>1. ASSUME NEW p \in Payments, SendToAddress(p[1], p[2]) PROVE Exactness'
  <2>. DEFINE target == (p[2] + Gas) % Word
  <2>1. PICK first \in Taken(Second, 0, target) :
        \E more \in IF Total(first) < target THEN Taken(Coinbase, Total(first), target) ELSE {{}} :
          /\ Total(first \cup more) >= target
          /\ txs' = Append(txs, Tx("pay", first \cup more, PayOutputs(p[1], p[2], Total(first \cup more)), Gas))
    BY <1>1 DEF SendToAddress
  <2>2. PICK more \in IF Total(first) < target THEN Taken(Coinbase, Total(first), target) ELSE {{}} :
          /\ Total(first \cup more) >= target
          /\ txs' = Append(txs, Tx("pay", first \cup more, PayOutputs(p[1], p[2], Total(first \cup more)), Gas))
    BY <2>1
  <2>3. first \subseteq balance /\ more \subseteq balance BY TakenFree
  <2>. DEFINE vins == first \cup more
              x == Tx("pay", vins, PayOutputs(p[1], p[2], Total(vins)), Gas)
  <2>4. Sum(vins) \in Nat /\ \A o \in vins : o.tx \in Txs BY <2>3, <1>a
  <2>5. Total(vins) \in Nat /\ (Sum(vins) < Word => Total(vins) = Sum(vins)) BY <2>4, <1>b
  <2>6. /\ x.class = "pay" /\ x.vins = vins /\ x.gas = Gas
        /\ x.vouts = PayOutputs(p[1], p[2], Total(vins))
    BY DEF Tx
  <2>7. txs' = Append(txs, x) /\ Total(vins) >= target BY <2>2
  <2>. HIDE DEF vins, x
  <2>a. p[2] \in Nat /\ Total(vins) >= (p[2] + Gas) % Word BY <1>0, <2>7
  <2>8. /\ Paying(x) /\ x.vouts[1].value = p[2]
        /\ Total(vins) < Word /\ p[2] + Gas < Word => Total(vins) = Gas + PaidOut(x)
    BY <2>5, <2>6, <2>a, PayOutputsExact
  <2>9. Sum(vins) < Word /\ p[2] + Gas < Word => Sum(vins) = Gas + PaidOut(x) BY <2>5, <2>8
  <2>q. QED BY <2>4, <2>6, <2>7, <2>8, <2>9, ExactNewTx
<1>2. ASSUME PeerPay PROVE Exactness'
  <2>. DEFINE x == Tx("pay", {Foreign(Len(txs) + 1)}, <<Vout(Second, Received)>>, Gas)
  <2>1. txs' = Append(txs, x) BY <1>2 DEF PeerPay
  <2>2. x.vouts = <<Vout(Second, Received)>> /\ Foreign(Len(txs) + 1) \in x.vins BY DEF Tx
  <2>. HIDE DEF x
  <2>3. Paying(x) BY <1>0, <2>2, OneOutput
  <2>q. QED BY <2>1, <2>2, <2>3, ExactNewTx
<1>3. ASSUME PayDeposit PROVE Exactness'
  <2>1. CASE UNCHANGED txs BY <2>1, ExactSame
  <2>2. CASE \E vins \in Taken(Coinbase, 0, Deposit) :
               /\ Total(vins) >= Deposit
               /\ txs' = Append(txs, Tx("deposit_in", vins, DepositOutputs(Total(vins)), 0))
    <3>1. PICK vins \in Taken(Coinbase, 0, Deposit) :
               /\ Total(vins) >= Deposit
               /\ txs' = Append(txs, Tx("deposit_in", vins, DepositOutputs(Total(vins)), 0))
      BY <2>2
    <3>. DEFINE x == Tx("deposit_in", vins, DepositOutputs(Total(vins)), 0)
    <3>2. vins \subseteq balance BY TakenFree
    <3>3. Sum(vins) \in Nat /\ \A o \in vins : o.tx \in Txs BY <3>2, <1>a
    <3>4. Total(vins) \in Nat /\ (Sum(vins) < Word => Total(vins) = Sum(vins)) BY <3>3, <1>b
    <3>5. x.vins = vins /\ x.gas = 0 /\ x.vouts = DepositOutputs(Total(vins)) BY DEF Tx
    <3>6. txs' = Append(txs, x) BY <3>1
    <3>. HIDE DEF x
    <3>7. Paying(x) /\ PaidOut(x) = Total(vins) BY <3>1, <3>4, <3>5, DepositOutputsExact
    <3>8. Sum(vins) < Word => Sum(vins) = x.gas + PaidOut(x) BY <3>3, <3>4, <3>5, <3>7
    <3>q. QED BY <3>3, <3>5, <3>6, <3>7, <3>8, ExactNewTx
  <2>q. QED BY <1>3, <2>1, <2>2 DEF PayDeposit
<1>4. ASSUME BuildBlockForPOW PROVE Exactness'
  <2>. DEFINE x == Tx("mining", {}, <<Vout(Coinbase, Reward)>>, 0)
  <2>1. txs' = Append(txs, x) BY <1>4 DEF BuildBlockForPOW
  <2>2. x.class = "mining" /\ x.vins = {} /\ x.vouts = <<Vout(Coinbase, Reward)>> BY DEF Tx
  <2>. HIDE DEF x
  <2>3. Paying(x) BY <1>0, <2>2, OneOutput
  <2>q. QED BY <2>1, <2>2, <2>3, ExactNewTx
<1>5. CASE \/ Pooling \/ Build \/ Save \/ Restart \/ UNCHANGED vars
  <2>1. UNCHANGED txs
    BY <1>5 DEF Pooling, StorePay, MulticastTransaction_recv, Build, PeerBuild, Save, saveBlockHead, Restart, vars
  <2>q. QED BY <2>1, ExactSame
<1>q. QED BY <1>1, <1>2, <1>3, <1>4, <1>5 DEF Next, Pay

\* CreateTxPay and CreateTxDepositIn: a transaction of this wallet gives out what it
\* takes in less the fee, as long as its inputs, and the amount with the fee, fit the word.
THEOREM AlwaysPaysExactly == Spec => []PaysExactly
<1>1. Init => Exactness BY ExactInit
<1>2. WalletInv /\ Exactness /\ [Next]_vars => Exactness' BY ExactStep
<1>3. Exactness => PaysExactly BY DEF Exactness
<1>q. QED BY <1>1, <1>2, <1>3, WalletAlways, PTL DEF Spec
=============================================================================
