-------------------------- MODULE ChainNode_proofs --------------------------
(***************************************************************************)
(* Proofs about the block pipeline of ChainNode, for every capacity of the *)
(* channel and every number of blocks, repeated deliveries and crashes,    *)
(* for miners and for other nodes, on the node that made the first block   *)
(* and on the others.  Each part below has an inductive invariant of its   *)
(* own and uses those of the parts before it:                              *)
(*   types, and what every goroutine has in hand;                          *)
(*   StoreInv, the database and the chain in memory;                       *)
(*   CoverInv, HighestBlock and the chain;                                 *)
(*   LoadInv, what the loader and saveBlockHead have counted between them; *)
(*   LinkInv, where each block is and which list it is in.                 *)
(***************************************************************************)
EXTENDS ChainNode, TLAPS

(* Types.                                                                  *)

\* A sequence over a set is one over every larger set.
LEMMA SeqMono == ASSUME NEW S, NEW T, S \subseteq T, NEW s \in Seq(S) PROVE s \in Seq(T)
  OBVIOUS

LEMMA TailType == ASSUME NEW S, NEW s \in Seq(S), s # <<>>
                  PROVE  Head(s) \in S /\ Tail(s) \in Seq(S)
  OBVIOUS

LEMMA LastType == ASSUME NEW S, NEW s \in Seq(S), s # <<>> PROVE Last(s) \in S
  BY DEF Last

\* A list and one more element.
LEMMA AppendRange == ASSUME NEW D, NEW s \in Seq(D), NEW x \in D
                     PROVE  Range(Append(s, x)) = Range(s) \cup {x}
  <1>1. /\ DOMAIN s = 1..Len(s) /\ Len(s) \in Nat /\ DOMAIN Append(s, x) = 1..Len(s) + 1
        /\ \A i \in 1..Len(s) : Append(s, x)[i] = s[i]
        /\ Append(s, x)[Len(s) + 1] = x
    OBVIOUS
  <1>2. \A i \in 1..Len(s) + 1 : i \in 1..Len(s) \/ i = Len(s) + 1
    BY <1>1
  <1>3. 1..Len(s) \subseteq 1..Len(s) + 1 /\ Len(s) + 1 \in 1..Len(s) + 1
    BY <1>1
  <1>. QED BY <1>1, <1>2, <1>3 DEF Range

\* A list a neighbour may answer contains children of the block asked for.
LEMMA AnswerType == ASSUME NEW b, NEW s \in Answers(b) PROVE s \in Seq(DOMAIN made)
  <1>1. PICK n \in 0..Cardinality(Children(b)) : s \in [1..n -> Children(b)]
    BY DEF Answers
  <1>2. n \in Nat
    BY <1>1
  <1>. QED BY <1>1, <1>2 DEF Children

\* The parts of the type invariant that an action leaves alone.
LEMMA NetSame == NetType /\ UNCHANGED netVars => NetType'
  BY DEF NetType, netVars
LEMMA DbSame == DbType /\ UNCHANGED <<made, dbVars>> => DbType'
  BY DEF DbType, dbVars, Stored
LEMMA MemSame == MemType /\ UNCHANGED <<made, memVars>> => MemType'
  BY DEF MemType, memVars, heightVars
LEMMA QueueSame == QueueType /\ UNCHANGED <<made, queue, pending>> => QueueType'
  BY DEF QueueType
LEMMA GoSame == GoType /\ UNCHANGED <<made, goVars>> => GoType'
  BY DEF GoType, goVars
LEMMA ControlSame == Control /\ UNCHANGED <<chain, goVars>> => Control'
  BY DEF Control, goVars

\* The fields of a block, the blocks the goroutines hold, and a network that
\* has grown by one block.
LEMMA BlockFields == ASSUME NetType, NEW b \in DOMAIN made
                     PROVE  /\ made[b].height \in Nat \ {0} /\ made[b].group \in Nat
                            /\ made[b].prev \in Nat /\ made[b].txs \subseteq Txs
  <1>1. made[b] \in BlockType
    BY DEF NetType
  <1>. HIDE DEF NetType
  <1>2. /\ made[b].height \in Nat \ {0} /\ made[b].group \in Nat /\ made[b].prev \in Nat
        /\ made[b].txs \in SUBSET Txs
    BY <1>1 DEF BlockType
  <1>. QED BY <1>2

LEMMA InHand == ASSUME GoType, Control
                PROVE  /\ pc["saver"] \notin {"recv", "ended"} => blk["saver"] \in DOMAIN made
                       /\ pc["main"] \in {"check", "insert", "mine", "send", "after"}
                            => blk["main"] \in DOMAIN made
                       /\ \A a \in Actors : pc[a] = "send" => built[a] \in DOMAIN made
  BY DEF GoType, Control, Actors

\* What AddBlock may find as the chain.
LEMMA FoundType == ASSUME GoType, MemType, Control, NEW a \in Actors, NEW s \in Found(a)
                   PROVE  /\ s \in Seq(DOMAIN made)
                          /\ s = chain \/ \E o \in Actors : /\ pc[o] = "insert" /\ chain # <<>> /\ seen[o] = chain
                                                          /\ s = Append(chain, blk[o])
  <1>1. CASE s = chain
    BY <1>1 DEF MemType
  <1>2. ASSUME NEW o \in Actors, pc[o] = "insert", chain # <<>>, seen[o] = chain, s = Append(chain, blk[o])
        PROVE  s \in Seq(DOMAIN made)
    <2>1. blk[o] \in DOMAIN made
      BY <1>2, InHand DEF Actors
    <2>. QED BY <1>2, <2>1 DEF MemType
  <1>. QED BY <1>1, <1>2 DEF Found

LEMMA NewBlockType == ASSUME NetType, NEW p \in DOMAIN made, NEW o \in BOOLEAN, NEW ts \in SUBSET Txs
                      PROVE  NewBlock(p, o, ts) \in BlockType
  <1>1. made[p].height + 1 \in Nat \ {0} /\ made[p].group + 1 \in Nat /\ p \in Nat
    BY BlockFields DEF NetType
  <1>. QED BY <1>1 DEF NewBlock, BlockType

LEMMA Grown == ASSUME NetType, NEW x \in BlockType, Len(made) < MaxBlocks, made' = Append(made, x)
               PROVE  /\ made' \in Seq(BlockType) /\ Len(made') = Len(made) + 1 /\ Len(made') \in Ids
                      /\ DOMAIN made \subseteq DOMAIN made' /\ Len(made) + 1 \in DOMAIN made'
                      /\ \A b \in DOMAIN made : made'[b] = made[b]
                      /\ made'[Len(made) + 1] = x
  BY ConstantsAssumption DEF NetType, Ids

LEMMA PutType == ASSUME DbType, NEW b \in DOMAIN made, NEW s \in Seq(DOMAIN made), next' = Put(b, s)
                 PROVE  /\ Stored' = Stored \cup {b} /\ Stored' \subseteq DOMAIN made
                        /\ next' \in [Stored' -> Seq(DOMAIN made)]
  <1>1. Stored' = Stored \cup {b}
    BY DEF Put, Stored
  <1>2. \A c \in Stored : next[c] \in Seq(DOMAIN made)
    BY DEF DbType
  <1>. QED BY <1>1, <1>2 DEF Put, DbType

\* The initial state has its type.
LEMMA InitType == Init => TypeOK /\ Control
  <1>. SUFFICES ASSUME Init PROVE TypeOK /\ Control
    OBVIOUS
  <1>. USE ConstantsAssumption DEF Init, Stored, Ids
  <1>1. NetType
    BY DEF NetType, GenesisBlock, BlockType
  <1>2. DbType /\ MemType /\ QueueType
    BY DEF DbType, MemType, QueueType
  <1>3. GoType /\ Control
    BY DEF GoType, Control, Actors, SaverPcs, MainPcs
  <1>. QED BY <1>1, <1>2, <1>3 DEF TypeOK

\* Every step preserves the types and what the goroutines have in hand.
LEMMA TypeStep == TypeOK /\ Control /\ [Next]_vars => TypeOK' /\ Control'
  <1>. SUFFICES ASSUME TypeOK, Control, [Next]_vars PROVE TypeOK' /\ Control'
    OBVIOUS
  <1>. USE ConstantsAssumption DEF TypeOK, netVars, dbVars, memVars, heightVars, goVars
  <1>1. ASSUME NEW p \in DOMAIN made, NEW ts \in SUBSET sent, PeerBuild(p, ts) PROVE TypeOK' /\ Control'
    <2>1. /\ DOMAIN made \subseteq DOMAIN made' /\ made' \in Seq(BlockType) /\ Len(made') \in Ids
          /\ Len(made) + 1 \in DOMAIN made'
      BY <1>1, NewBlockType, Grown DEF PeerBuild, NetType
    <2>2. /\ chain \in Seq(DOMAIN made') /\ queue \in Seq(DOMAIN made') /\ todo \in Seq(DOMAIN made')
          /\ \A x \in Actors : seen[x] \in Seq(DOMAIN made')
          /\ \A b \in Stored : next[b] \in Seq(DOMAIN made')
      BY <2>1, SeqMono DEF DbType, MemType, QueueType, GoType
    <2>6. NetType'
      BY <1>1, <2>1, <2>2 DEF PeerBuild, NetType
    <2>7. DbType'
      BY <1>1, <2>1, <2>2 DEF PeerBuild, DbType, Stored
    <2>8. MemType'
      BY <1>1, <2>1, <2>2 DEF PeerBuild, MemType
    <2>9. QueueType'
      BY <1>1, <2>1, <2>2 DEF PeerBuild, QueueType
    <2>10. GoType'
      BY <1>1, <2>1, <2>2 DEF PeerBuild, GoType, Actors, SaverPcs, MainPcs
    <2>. QED BY <1>1, <2>6, <2>7, <2>8, <2>9, <2>10, ControlSame DEF PeerBuild
  <1>2. ASSUME NEW b \in DOMAIN made, MulticastBlockHead_recv(b) PROVE TypeOK' /\ Control'
    <2>1. NetType'
      BY <1>2 DEF MulticastBlockHead_recv, NetType, Ids
    <2>2. QueueType'
      <3>1. heard[b] \in 0..MaxDup
        <4>1. heard[b] \in 0..MaxDup + 1 /\ heard[b] <= MaxDup
          BY <1>2 DEF MulticastBlockHead_recv, NetType, Ids
        <4>. QED BY <4>1
      <3>2. pending' = pending \cup {<<b, heard[b]>>} /\ UNCHANGED <<made, queue>>
        BY <1>2 DEF MulticastBlockHead_recv
      <3>. QED BY <3>1, <3>2 DEF QueueType
    <2>. QED BY <1>2, <2>1, <2>2, DbSame, MemSame, GoSame, ControlSame DEF MulticastBlockHead_recv
  <1>3. ASSUME NEW t \in Txs, PeerTx(t) PROVE TypeOK' /\ Control'
    <2>1. NetType'
      BY <1>3 DEF PeerTx, NetType
    <2>. QED BY <1>3, <2>1, DbSame, MemSame, QueueSame, GoSame, ControlSame DEF PeerTx
  <1>4. ASSUME NEW t \in Txs, MulticastTransaction_recv(t) PROVE TypeOK' /\ Control'
    <2>1. MemType'
      BY <1>4, BlockFields, InHand DEF MulticastTransaction_recv, MemType
    <2>. QED BY <1>4, <2>1, NetSame, DbSame, QueueSame, GoSame, ControlSame DEF MulticastTransaction_recv
  <1>5. ASSUME NEW t \in Txs, SendToAddress(t) PROVE TypeOK' /\ Control'
    <2>1. NetType'
      BY <1>5 DEF SendToAddress, NetType
    <2>2. MemType'
      BY <1>5 DEF SendToAddress, MemType
    <2>. QED BY <1>5, <2>1, <2>2, DbSame, QueueSame, GoSame, ControlSame DEF SendToAddress
  <1>6. ASSUME NEW e \in pending, AddBlockHead(e) PROVE TypeOK' /\ Control'
    <2>1. QueueType'
      BY <1>6 DEF AddBlockHead, QueueType
    <2>. QED BY <1>6, <2>1, NetSame, DbSame, MemSame, GoSame, ControlSame DEF AddBlockHead
  <1>7. CASE TakeBlock
    <2>1. QueueType'
      BY <1>7, TailType, BlockFields, InHand DEF TakeBlock, QueueType
    <2>2. GoType'
      BY <1>7, TailType DEF TakeBlock, GoType, Actors, SaverPcs, MainPcs, QueueType, Goto
    <2>3. Control'
      <3>1. Head(queue) \in DOMAIN made /\ 0 \notin DOMAIN made
        BY <1>7 DEF TakeBlock, QueueType, NetType
      <3>. QED BY <1>7, <3>1 DEF TakeBlock, Control, Actors, GoType, Goto
    <2>. QED BY <1>7, <2>1, <2>2, <2>3, NetSame, DbSame, MemSame DEF TakeBlock
  <1>8. CASE SaveTxs
    <2>1. DbType'
      BY <1>8, BlockFields, InHand DEF SaveTxs, DbType, Stored, GoType, Control, Actors
    <2>2. GoType'
      BY <1>8 DEF SaveTxs, GoType, Actors, SaverPcs, MainPcs, Goto
    <2>3. Control'
      BY <1>8 DEF SaveTxs, Control, Actors, GoType, Goto
    <2>. QED BY <1>8, <2>1, <2>2, <2>3, NetSame, MemSame, QueueSame DEF SaveTxs
  <1>9. CASE LinkPrevious
    <2>1. DbType'
      <3>1. blk["saver"] \in DOMAIN made
        BY <1>9, InHand DEF LinkPrevious, Linked, AfterMissing
      <3>2. CASE UNCHANGED next
        BY <1>9, <3>2 DEF LinkPrevious, Linked, AfterMissing, DbType, Stored
      <3>3. ASSUME NEW p \in Stored, next' = [next EXCEPT ![p] = Append(@, blk["saver"])]
            PROVE  DbType'
        <4>1. next[p] \in Seq(DOMAIN made) /\ Append(next[p], blk["saver"]) \in Seq(DOMAIN made)
          BY <3>1 DEF DbType
        <4>2. Stored' = Stored /\ next' \in [Stored -> Seq(DOMAIN made)]
          BY <3>3, <4>1 DEF DbType, Stored
        <4>. QED BY <1>9, <4>2 DEF LinkPrevious, Linked, AfterMissing, DbType
      <3>. QED BY <1>9, <3>2, <3>3 DEF LinkPrevious, Linked, AfterMissing
    <2>2. GoType'
      BY <1>9 DEF LinkPrevious, GoType, Actors, SaverPcs, MainPcs, Goto, AfterMissing
    <2>3. Control'
      BY <1>9 DEF LinkPrevious, Control, Actors, GoType, Goto, AfterMissing
    <2>. QED BY <1>9, <2>1, <2>2, <2>3, NetSame, MemSame, QueueSame DEF LinkPrevious
  <1>10. CASE SaveBlock
    <2>1. DbType'
      <3>1. blk["saver"] \in DOMAIN made
        BY <1>10, InHand DEF SaveBlock
      <3>2. Stored' \subseteq DOMAIN made /\ next' \in [Stored' -> Seq(DOMAIN made)]
        <4>1. next' = Put(blk["saver"], <<>>) /\ <<>> \in Seq(DOMAIN made)
          BY <1>10 DEF SaveBlock
        <4>. QED BY <3>1, <4>1, PutType
      <3>3. keyStart' \in {0} \cup DOMAIN made
        BY <1>10, <3>1 DEF SaveBlock, DbType
      <3>. QED BY <1>10, <3>2, <3>3 DEF SaveBlock, DbType
    <2>2. MemType'
      BY <1>10, BlockFields, InHand DEF SaveBlock, MemType, NetType, BlockType, GoType, Control, Actors
    <2>3. GoType'
      BY <1>10 DEF SaveBlock, GoType, Actors, SaverPcs, MainPcs, Goto
    <2>4. Control'
      BY <1>10 DEF SaveBlock, Control, Actors, GoType, Goto
    <2>. QED BY <1>10, <2>1, <2>2, <2>3, <2>4, NetSame, QueueSame DEF SaveBlock
  <1>11. CASE RaiseHighest
    <2>1. MemType'
      BY <1>11, BlockFields, InHand DEF RaiseHighest, MemType, NetType, BlockType, GoType, Control, Actors
    <2>2. GoType'
      BY <1>11 DEF RaiseHighest, GoType, Actors, SaverPcs, MainPcs, Goto
    <2>3. Control'
      BY <1>11 DEF RaiseHighest, Control, Actors, GoType, Goto
    <2>. QED BY <1>11, <2>1, <2>2, <2>3, NetSame, DbSame, QueueSame DEF RaiseHighest
  <1>12. ASSUME NEW a \in Actors, CheckHeight(a) PROVE TypeOK' /\ Control'
    <2>0. PICK s \in Found(a) : /\ seen' = [seen EXCEPT ![a] = s]
                               /\ \E l \in {"insert", "after"} : pc' = [pc EXCEPT ![a] = l]
      BY <1>12 DEF CheckHeight, Goto
    <2>1. MemType'
      BY <1>12, BlockFields, InHand DEF CheckHeight, MemType, GoType, Control, Actors
    <2>2. GoType'
      <3>1. s \in Seq(DOMAIN made) /\ UNCHANGED <<made, blk, built, todo>>
        BY <1>12, FoundType DEF CheckHeight
      <3>2. seen' \in [Actors -> Seq(DOMAIN made)]
        BY <2>0, <3>1 DEF GoType
      <3>. QED BY <1>12, <2>0, <3>1, <3>2 DEF GoType, Actors, SaverPcs, MainPcs
    <2>3. Control'
      BY <1>12, <2>0 DEF CheckHeight, Control, Actors, GoType
    <2>. QED BY <1>12, <2>1, <2>2, <2>3, NetSame, DbSame, QueueSame DEF CheckHeight
  <1>13. ASSUME NEW a \in Actors, InsertBlock(a) PROVE TypeOK' /\ Control'
    <2>1. MemType'
      BY <1>13, BlockFields, InHand DEF InsertBlock, MemType, GoType, Control, Actors
    <2>2. GoType'
      BY <1>13 DEF InsertBlock, GoType, Actors, SaverPcs, MainPcs, Goto
    <2>3. Control'
      BY <1>13 DEF InsertBlock, Control, Actors, GoType, Goto
    <2>. QED BY <1>13, <2>1, <2>2, <2>3, NetSame, DbSame, QueueSame DEF InsertBlock
  <1>14. ASSUME NEW a \in Actors, BuildBlockForPOW(a) PROVE TypeOK' /\ Control'
    <2>0. PICK d \in SUBSET Txs :
            /\ made' = Append(made, NewBlock(Last(chain), TRUE, pool \cup d))
            /\ sent' = sent \cup d /\ pool' = pool \cup d
      BY <1>14 DEF BuildBlockForPOW
    <2>1. /\ DOMAIN made \subseteq DOMAIN made' /\ made' \in Seq(BlockType) /\ Len(made') \in Ids
          /\ Len(made) + 1 \in DOMAIN made'
      <3>1. Last(chain) \in DOMAIN made
        BY <1>14, LastType DEF BuildBlockForPOW, Control, MemType
      <3>. QED BY <1>14, <2>0, <3>1, NewBlockType, Grown DEF BuildBlockForPOW, Mines, MemType
    <2>2. /\ chain \in Seq(DOMAIN made') /\ queue \in Seq(DOMAIN made') /\ todo \in Seq(DOMAIN made')
          /\ \A x \in Actors : seen[x] \in Seq(DOMAIN made')
          /\ \A b \in Stored : next[b] \in Seq(DOMAIN made')
      BY <2>1, SeqMono DEF DbType, MemType, QueueType, GoType
    <2>6. NetType'
      BY <1>14, <2>1, <2>2, <2>0 DEF BuildBlockForPOW, NetType
    <2>7. DbType'
      BY <1>14, <2>1, <2>2, <2>0 DEF BuildBlockForPOW, DbType, Stored
    <2>8. MemType'
      BY <1>14, <2>1, <2>2, <2>0 DEF BuildBlockForPOW, MemType
    <2>9. QueueType'
      BY <1>14, <2>1, <2>2, <2>0 DEF BuildBlockForPOW, QueueType
    <2>10. GoType'
      BY <1>14, <2>1, <2>2, <2>0 DEF BuildBlockForPOW, GoType, Actors, SaverPcs, MainPcs, Goto
    <2>11. Control'
      BY <1>14, <2>1, <2>2, <2>0 DEF BuildBlockForPOW, Control, Actors, GoType, Goto, NetType
    <2>. QED BY <1>14, <2>6, <2>7, <2>8, <2>9, <2>10, <2>11 DEF BuildBlockForPOW
  <1>15. ASSUME NEW a \in Actors, SkipMining(a) PROVE TypeOK' /\ Control'
    <2>1. GoType'
      BY <1>15 DEF SkipMining, GoType, Actors, SaverPcs, MainPcs, Goto
    <2>2. Control'
      BY <1>15 DEF SkipMining, Control, Actors, GoType, Goto
    <2>. QED BY <1>15, <2>1, <2>2, NetSame, DbSame, MemSame, QueueSame DEF SkipMining
  <1>16. ASSUME NEW a \in Actors, SendOwn(a) PROVE TypeOK' /\ Control'
    <2>1. QueueType'
      BY <1>16, BlockFields, InHand DEF SendOwn, QueueType, GoType, Control, Actors
    <2>2. GoType'
      BY <1>16 DEF SendOwn, GoType, Actors, SaverPcs, MainPcs, Goto
    <2>3. Control'
      BY <1>16 DEF SendOwn, Control, Actors, GoType, Goto
    <2>. QED BY <1>16, <2>1, <2>2, <2>3, NetSame, DbSame, MemSame DEF SendOwn
  <1>17. CASE LoadFirst
    <2>1. GoType'
      BY <1>17 DEF LoadFirst, GoType, Actors, SaverPcs, MainPcs, Goto, AfterLoading, Loadable, DbType, Stored
    <2>2. Control'
      <3>1. Loadable(keyStart) => keyStart # 0
        BY DEF Loadable, DbType, NetType
      <3>. QED BY <1>17, <3>1 DEF LoadFirst, Control, Actors, GoType, Goto, AfterLoading
    <2>. QED BY <1>17, <2>1, <2>2, NetSame, DbSame, MemSame, QueueSame DEF LoadFirst
  <1>18. CASE AddedFirst
    <2>1. MemType'
      BY <1>18, BlockFields, InHand DEF AddedFirst, MemType, NetType, BlockType, GoType, Control, Actors
    <2>2. GoType'
      BY <1>18 DEF AddedFirst, GoType, Actors, SaverPcs, MainPcs, Goto
    <2>3. Control'
      BY <1>18 DEF AddedFirst, Control, Actors, GoType, Goto
    <2>. QED BY <1>18, <2>1, <2>2, <2>3, NetSame, DbSame, QueueSame DEF AddedFirst
  <1>19. CASE LoadNext
    <2>1. GoType'
      <3>1. todo # <<>> => Head(todo) \in DOMAIN made /\ Tail(todo) \in Seq(DOMAIN made)
        BY TailType DEF GoType
      <3>2. CASE todo = <<>>
        BY <1>19, <3>2 DEF LoadNext, Actors, GoType, Goto, AfterLoading, SaverPcs, MainPcs
      <3>3. CASE todo # <<>> /\ Loadable(Head(todo))
        <4>1. /\ blk' = [blk EXCEPT !["main"] = Head(todo)] /\ todo' = Tail(todo)
              /\ pc' = [pc EXCEPT !["main"] = "check"] /\ UNCHANGED <<made, seen, built>>
          BY <1>19, <3>3 DEF LoadNext, Goto
        <4>. QED BY <3>1, <3>3, <4>1 DEF Actors, GoType, SaverPcs, MainPcs
      <3>4. CASE todo # <<>> /\ ~Loadable(Head(todo))
        BY <1>19, <3>1, <3>4 DEF LoadNext, Actors, GoType
      <3>. QED BY <3>2, <3>3, <3>4
    <2>2. Control'
      <3>1. todo # <<>> => Head(todo) # 0
        BY DEF GoType, NetType
      <3>2. CASE todo = <<>>
        BY <1>19, <3>2 DEF LoadNext, Control, Actors, GoType, Goto, AfterLoading
      <3>3. CASE todo # <<>> /\ Loadable(Head(todo))
        BY <1>19, <3>1, <3>3 DEF LoadNext, Control, Actors, GoType, Goto
      <3>4. CASE todo # <<>> /\ ~Loadable(Head(todo))
        BY <1>19, <3>4 DEF LoadNext, Control, Actors, GoType
      <3>. QED BY <3>2, <3>3, <3>4
    <2>. QED BY <1>19, <2>1, <2>2, NetSame, DbSame, MemSame, QueueSame DEF LoadNext
  <1>20. CASE SyncBlockHead
    <2>1. DbType'
      <3> DEFINE b == IF chain = <<>> THEN 1 ELSE Last(chain)
      <3>1. b \in DOMAIN made
        BY LastType DEF MemType, NetType, Ids
      <3>2. CASE UNCHANGED next
        BY <1>20, <3>2 DEF SyncBlockHead, DbType, Stored
      <3>3. ASSUME NEW s \in Answers(b), next' = Put(b, s) PROVE DbType'
        <4>1. s \in Seq(DOMAIN made)
          BY <3>3, AnswerType
        <4>2. Stored' \subseteq DOMAIN made /\ next' \in [Stored' -> Seq(DOMAIN made)]
          BY <3>1, <3>3, <4>1, PutType
        <4>. QED BY <1>20, <4>2 DEF SyncBlockHead, DbType
      <3>. QED BY <1>20, <3>2, <3>3 DEF SyncBlockHead
    <2>2. GoType'
      BY <1>20, AnswerType, LastType DEF SyncBlockHead, GoType, Actors, SaverPcs, MainPcs, Goto
    <2>3. Control'
      BY <1>20, AnswerType, LastType DEF SyncBlockHead, Control, Actors, GoType, Goto
    <2>. QED BY <1>20, <2>1, <2>2, <2>3, NetSame, MemSame, QueueSame DEF SyncBlockHead
  <1>21. CASE SyncNext
    <2>1. GoType'
      <3>1. todo # <<>> => Head(todo) \in DOMAIN made /\ Tail(todo) \in Seq(DOMAIN made)
        BY TailType DEF GoType
      <3>2. CASE todo # <<>> /\ Head(todo) \in Stored
        <4>1. next[Head(todo)] \in Seq(DOMAIN made)
          BY <3>2 DEF DbType
        <4>2. next[Head(todo)] \o Tail(todo) \in Seq(DOMAIN made)
          BY <3>1, <3>2, <4>1
        <4>. QED BY <1>21, <3>2, <4>2 DEF SyncNext, Actors, GoType
      <3>3. CASE UNCHANGED todo
        BY <1>21, <3>3 DEF SyncNext, Actors, GoType, Goto, SaverPcs, MainPcs
      <3>. QED BY <1>21, <3>2, <3>3 DEF SyncNext
    <2>2. Control'
      BY <1>21, TailType DEF SyncNext, Control, Actors, GoType, Goto
    <2>. QED BY <1>21, <2>1, <2>2, NetSame, DbSame, MemSame, QueueSame DEF SyncNext
  <1>22. CASE SyncFetched
    <2>1. DbType'
      <3>1. Head(todo) \in DOMAIN made
        BY <1>22, TailType DEF SyncFetched, GoType, Control
      <3>2. txdb' \subseteq DOMAIN made
        BY <1>22, <3>1 DEF SyncFetched, DbType
      <3>3. Stored' \subseteq DOMAIN made /\ next' \in [Stored' -> Seq(DOMAIN made)]
        <4>1. CASE UNCHANGED next
          BY <4>1 DEF DbType, Stored
        <4>2. ASSUME NEW s \in Answers(Head(todo)),
                     next' = [c \in Stored \cup {Head(todo)} |->
                                IF c = Head(todo) THEN s
                                ELSE IF c = made[Head(todo)].prev /\ startingBlock > 0 THEN Append(next[c], Head(todo))
                                ELSE next[c]]
              PROVE  Stored' \subseteq DOMAIN made /\ next' \in [Stored' -> Seq(DOMAIN made)]
          <5>1. s \in Seq(DOMAIN made)
            BY AnswerType
          <5>2. \A c \in Stored : /\ next[c] \in Seq(DOMAIN made)
                                  /\ Append(next[c], Head(todo)) \in Seq(DOMAIN made)
            BY <3>1 DEF DbType
          <5>3. Stored' = Stored \cup {Head(todo)}
            BY <4>2 DEF Stored
          <5>. QED BY <3>1, <4>2, <5>1, <5>2, <5>3 DEF DbType
        <4>. QED BY <1>22, <4>1, <4>2 DEF SyncFetched
      <3>. QED BY <1>22, <3>2, <3>3 DEF SyncFetched, DbType
    <2>2. GoType'
      <3>1. Head(todo) \in DOMAIN made /\ Tail(todo) \in Seq(DOMAIN made)
        BY <1>22, TailType DEF SyncFetched, GoType, Control
      <3>2. \A s \in Answers(Head(todo)) : s \o Tail(todo) \in Seq(DOMAIN made)
        BY <3>1, AnswerType
      <3>3. todo' \in Seq(DOMAIN made)
        BY <1>22, <3>1, <3>2 DEF SyncFetched
      <3>. QED BY <1>22, <3>3 DEF SyncFetched, Actors, GoType, Goto, SaverPcs, MainPcs
    <2>3. Control'
      BY <1>22, AnswerType, TailType DEF SyncFetched, Control, Actors, GoType, Goto
    <2>. QED BY <1>22, <2>1, <2>2, <2>3, NetSame, MemSame, QueueSame DEF SyncFetched
  <1>23. CASE Panic \/ Crash
    <2>0. /\ LoseMemory
          /\ crashes' \in 0..MaxCrash
          /\ \/ pc' = [a \in Actors |-> "ended"]
             \/ pc' = [a \in Actors |-> IF a = "saver" THEN "recv" ELSE "load"]
      BY <1>23 DEF Panic, Crash
    <2>1. MemType'
      <3>1. /\ chain' = <<>> /\ counted' = {} /\ pool' = {}
            /\ startingBlock' = 0 /\ currentBlock' = 0 /\ highestBlock' = 0
            /\ initNode' = FALSE
        BY <2>0 DEF LoseMemory
      <3>2. chain' \in Seq(DOMAIN made')
        BY <3>1
      <3>. QED BY <3>1, <3>2 DEF MemType
    <2>2. QueueType'
      BY <2>0 DEF LoseMemory, QueueType
    <2>3. GoType'
      <3>1. /\ blk' \in [Actors -> {0} \cup DOMAIN made]
            /\ built' \in [Actors -> {0} \cup DOMAIN made]
            /\ seen' \in [Actors -> Seq(DOMAIN made)]
            /\ todo' \in Seq(DOMAIN made)
            /\ made' = made
        BY <2>0 DEF LoseMemory
      <3>2. /\ pc' \in [Actors -> SaverPcs \cup MainPcs]
            /\ pc'["saver"] \in SaverPcs /\ pc'["main"] \in MainPcs
        BY <2>0 DEF Actors, SaverPcs, MainPcs
      <3>. QED BY <3>1, <3>2 DEF GoType
    <2>4. Control'
      BY <2>0 DEF LoseMemory, Control, Actors
    <2>. QED BY <2>0, <2>1, <2>2, <2>3, <2>4, NetSame, DbSame DEF LoseMemory
  <1>24. CASE UNCHANGED vars
    BY <1>24, NetSame, DbSame, MemSame, QueueSame, GoSame, ControlSame
       DEF vars
  <1>. QED
    BY <1>1, <1>2, <1>3, <1>4, <1>5, <1>6, <1>7, <1>8, <1>9, <1>10, <1>11, <1>12, <1>13, <1>14, <1>15, <1>16, <1>17, <1>18, <1>19, <1>20, <1>21, <1>22, <1>23, <1>24
       DEF Next, Network, Saver, Main, AddBlock

\* The state of the node always has its type.
THEOREM TypeCorrect == Spec => [](TypeOK /\ Control)
  BY InitType, TypeStep, PTL DEF Spec

-----------------------------------------------------------------------------
(* The database and the chain in memory: StoreInv of ChainNode.            *)

\* The network's blocks never change, the database only grows.
Grows ==
    /\ DOMAIN made \subseteq DOMAIN made' /\ \A b \in DOMAIN made : made'[b] = made[b]
    /\ Stored \subseteq Stored' /\ txdb \subseteq txdb'

HandPcs == {"check", "insert", "mine", "send", "after"}

LEMMA GrowsStep == TypeOK /\ Control /\ [Next]_vars => Grows
  <1>. SUFFICES ASSUME TypeOK, Control, [Next]_vars PROVE Grows
    OBVIOUS
  <1>. USE DEF TypeOK, netVars, dbVars, memVars, heightVars, goVars
  <1>1. ASSUME NEW p \in DOMAIN made, NEW ts \in SUBSET sent, PeerBuild(p, ts) PROVE Grows
    BY <1>1, NewBlockType, Grown DEF PeerBuild, NetType, Grows, Stored
  <1>2. ASSUME NEW a \in Actors, BuildBlockForPOW(a) PROVE Grows
    <2>1. PICK d \in SUBSET Txs : made' = Append(made, NewBlock(Last(chain), TRUE, pool \cup d))
      BY <1>2 DEF BuildBlockForPOW
    <2>2. Last(chain) \in DOMAIN made
      BY <1>2, LastType DEF BuildBlockForPOW, Control, MemType
    <2>. QED BY <1>2, <2>1, <2>2, NewBlockType, Grown DEF BuildBlockForPOW, Mines, MemType, Grows, Stored
  <1>3. CASE UNCHANGED <<made, dbVars>>
    BY <1>3 DEF Grows, Stored
  <1>4. CASE SaveTxs
    BY <1>4 DEF SaveTxs, Grows, Stored
  <1>5. CASE LinkPrevious
    BY <1>5 DEF LinkPrevious, Linked, AfterMissing, Grows, Stored, DbType
  <1>6. CASE SaveBlock
    BY <1>6 DEF SaveBlock, Put, Grows, Stored
  <1>7. CASE SyncBlockHead
    BY <1>7 DEF SyncBlockHead, Put, Grows, Stored
  <1>8. CASE SyncFetched
    BY <1>8 DEF SyncFetched, Grows, Stored
  <1>9. CASE Panic \/ Crash
    BY <1>9 DEF Panic, Crash, LoseMemory, Grows, Stored
  <1>10. CASE \E b \in DOMAIN made : MulticastBlockHead_recv(b)
    BY <1>10, <1>3 DEF MulticastBlockHead_recv
  <1>11. CASE \E t \in Txs : PeerTx(t) \/ MulticastTransaction_recv(t) \/ SendToAddress(t)
    BY <1>11, <1>3 DEF PeerTx, MulticastTransaction_recv, SendToAddress
  <1>12. CASE \E e \in pending : AddBlockHead(e)
    BY <1>12, <1>3 DEF AddBlockHead
  <1>13. CASE TakeBlock \/ RaiseHighest \/ LoadFirst \/ AddedFirst \/ LoadNext \/ SyncNext
    BY <1>13, <1>3 DEF TakeBlock, RaiseHighest, LoadFirst, AddedFirst, LoadNext, SyncNext
  <1>14. CASE \E a \in Actors : CheckHeight(a) \/ InsertBlock(a) \/ SkipMining(a) \/ SendOwn(a)
    BY <1>14, <1>3 DEF CheckHeight, InsertBlock, SkipMining, SendOwn
  <1>15. CASE UNCHANGED vars
    BY <1>15, <1>3 DEF vars
  <1>. QED
    BY <1>1, <1>2, <1>4, <1>5, <1>6, <1>7, <1>8, <1>9, <1>10, <1>11, <1>12, <1>13, <1>14, <1>15
       DEF Next, Network, Saver, Main, AddBlock

\* Block 1 exists and nothing has index 0.
LEMMA FirstMade == NetType => 1 \in DOMAIN made /\ 0 \notin DOMAIN made
  BY DEF NetType, Ids

\* What each part of StoreInv needs to be left alone by a step.
LEMMA HeightsSame == Heights /\ UNCHANGED made => Heights'
  BY DEF Heights

LEMMA StartsSame == Starts /\ Grows /\ UNCHANGED <<keyStart, startingBlock>> => Starts'
  BY DEF Starts, Grows

LEMMA LinksSame == ASSUME DbType, PrevStored, LinksAreChildren, Grows, UNCHANGED next
                   PROVE  PrevStored' /\ LinksAreChildren'
  BY DEF DbType, PrevStored, LinksAreChildren, Grows, Stored

LEMMA TxsSame == TxsStored /\ Grows /\ UNCHANGED next => TxsStored'
  BY DEF TxsStored, Grows, Stored

LEMMA HandSame ==
    ASSUME DbType, HandStored, Grows,
           \A a \in Actors : pc'[a] \in HandPcs => pc[a] \in HandPcs /\ blk'[a] = blk[a],
           pc'["saver"] \in {"link", "save"} => pc'["saver"] = pc["saver"] /\ blk'["saver"] = blk["saver"]
    PROVE  HandStored'
  <1>1. \A a \in Actors : pc'[a] \in HandPcs => blk'[a] \in Stored'
    BY DEF HandStored, Grows, HandPcs
  <1>2. pc'["saver"] \in {"link", "save"} => blk'["saver"] \in txdb'
    BY DEF HandStored, Grows
  <1>3. pc'["saver"] = "save" => blk'["saver"] = 1 \/ made'[blk'["saver"]].prev \in Stored'
    <2>. SUFFICES ASSUME pc'["saver"] = "save", blk'["saver"] # 1
         PROVE made'[blk'["saver"]].prev \in Stored'
      OBVIOUS
    <2>1. made[blk["saver"]].prev \in Stored /\ blk["saver"] \in DOMAIN made
      BY DEF HandStored, DbType
    <2>. QED BY <2>1 DEF Grows
  <1>. QED BY <1>1, <1>2, <1>3 DEF HandStored, HandPcs

LEMMA WalkSame ==
    ASSUME GoType, WalkStored, Grows,
           pc'["main"] \in {"deep", "fetch"} => pc["main"] \in {"deep", "fetch"} /\ todo' = todo
    PROVE  WalkStored'
  BY DEF GoType, WalkStored, Grows

LEMMA ContiguousGrows == ASSUME NEW s \in Seq(DOMAIN made), Contiguous(s), Grows
                         PROVE  Contiguous(s)'
  <1>. SUFFICES ASSUME NEW i \in 1..Len(s) - 1
                PROVE made'[s[i + 1]].height = made'[s[i]].height + 1
    BY DEF Contiguous
  <1>1. i \in 1..Len(s) /\ i + 1 \in 1..Len(s)
    OBVIOUS
  <1>2. s[i] \in DOMAIN made /\ s[i + 1] \in DOMAIN made
    BY <1>1
  <1>. QED BY <1>2 DEF Contiguous, Grows

LEMMA ChainSame == ASSUME MemType, ChainContiguous, Grows, UNCHANGED chain
                   PROVE  ChainContiguous'
  <1>1. Contiguous(chain)'
    BY ContiguousGrows DEF MemType, ChainContiguous, Contiguous
  <1>2. (Range(chain) \subseteq Stored)'
    BY DEF ChainContiguous, Range, Grows
  <1>. QED BY <1>1, <1>2 DEF ChainContiguous

LEMMA SeenSame ==
    ASSUME DbType, GoType, HandStored, SeenFits, Grows, UNCHANGED seen,
           \A a \in Actors : pc'[a] = "insert" => pc[a] = "insert" /\ blk'[a] = blk[a]
    PROVE  SeenFits'
  <1>. SUFFICES ASSUME NEW a \in Actors
                PROVE  /\ Contiguous(seen[a])' /\ (Range(seen[a]) \subseteq Stored)'
                       /\ pc'[a] = "insert" /\ seen[a] # <<>>
                            => made'[Last(seen[a])].height + 1 = made'[blk'[a]].height
    BY DEF SeenFits, Range, Contiguous, Last
  <1>1. seen[a] \in Seq(DOMAIN made)
    BY DEF GoType
  <1>2. Contiguous(seen[a])'
    BY <1>1, ContiguousGrows DEF SeenFits, Contiguous
  <1>3. (Range(seen[a]) \subseteq Stored)'
    BY DEF SeenFits, Range, Grows
  <1>4. ASSUME pc'[a] = "insert", seen[a] # <<>>
        PROVE made'[Last(seen[a])].height + 1 = made'[blk'[a]].height
    <2>1. Last(seen[a]) \in DOMAIN made
      BY <1>1, <1>4, LastType
    <2>2. blk[a] \in DOMAIN made
      BY <1>4 DEF HandStored, DbType
    <2>. QED BY <1>4, <2>1, <2>2 DEF SeenFits, Grows
  <1>. QED BY <1>2, <1>3, <1>4

\* A block that fits behind a list makes a longer list of the same kind.
LEMMA AppendFits ==
    ASSUME DbType, NEW s \in Seq(DOMAIN made), NEW b \in Stored,
           Contiguous(s), Range(s) \subseteq Stored,
           s # <<>> => made[Last(s)].height + 1 = made[b].height
    PROVE  Contiguous(Append(s, b)) /\ Range(Append(s, b)) \subseteq Stored
  <1> DEFINE c == Append(s, b)
  <1>1. b \in DOMAIN made
    BY DEF DbType
  <1>2. /\ Len(c) = Len(s) + 1 /\ c[Len(s) + 1] = b /\ DOMAIN c = 1..Len(s) + 1
        /\ \A i \in 1..Len(s) : c[i] = s[i]
    BY <1>1
  <1>3. ASSUME NEW i \in 1..Len(s) PROVE made[c[i + 1]].height = made[c[i]].height + 1
    <2>1. CASE i = Len(s)
      <3>1. s # <<>> /\ c[i] = Last(s) /\ c[i + 1] = b
        BY <1>2, <2>1 DEF Last
      <3>. QED BY <3>1
    <2>2. CASE i # Len(s)
      <3>1. i \in 1..Len(s) - 1 /\ c[i] = s[i] /\ c[i + 1] = s[i + 1]
        BY <1>2, <1>3, <2>2
      <3>. QED BY <3>1 DEF Contiguous
    <2>. QED BY <2>1, <2>2
  <1>4. Contiguous(c)
    BY <1>2, <1>3 DEF Contiguous
  <1>5. Range(c) \subseteq Stored
    BY <1>2 DEF Range
  <1>. QED BY <1>4, <1>5

\* What AddBlock may find as the chain is contiguous and stored.
LEMMA FoundFits ==
    ASSUME TypeOK, Control, StoreInv, NEW a \in Actors, NEW s \in Found(a)
    PROVE  Contiguous(s) /\ Range(s) \subseteq Stored
  <1>1. CASE s = chain
    BY <1>1 DEF StoreInv, ChainContiguous
  <1>2. ASSUME NEW o \in Actors, pc[o] = "insert", chain # <<>>, seen[o] = chain, s = Append(chain, blk[o])
        PROVE  Contiguous(s) /\ Range(s) \subseteq Stored
    <2>1. blk[o] \in Stored /\ made[Last(chain)].height + 1 = made[blk[o]].height
      BY <1>2 DEF StoreInv, HandStored, SeenFits
    <2>. QED BY <1>2, <2>1, AppendFits DEF TypeOK, MemType, StoreInv, ChainContiguous
  <1>. QED BY <1>1, <1>2, FoundType DEF TypeOK

\* A neighbour's answer lists children of the block asked for.
LEMMA AnswerChildren == ASSUME NEW b, NEW s \in Answers(b) PROVE \A i \in DOMAIN s : made[s[i]].prev = b
  <1>1. PICK n \in 0..Cardinality(Children(b)) : s \in [1..n -> Children(b)]
    BY DEF Answers
  <1>. QED BY <1>1 DEF Children

\* What holds of the blocks of two lists holds of the blocks of their concatenation.
LEMMA ConcatAll ==
    ASSUME NEW D, NEW S, NEW s \in Seq(D), NEW r \in Seq(D),
           \A i \in DOMAIN s : made[s[i]].prev \in S, \A i \in DOMAIN r : made[r[i]].prev \in S
    PROVE  \A i \in DOMAIN (s \o r) : made[(s \o r)[i]].prev \in S
  <1>. SUFFICES ASSUME NEW i \in DOMAIN (s \o r) PROVE made[(s \o r)[i]].prev \in S
    OBVIOUS
  <1>1. i \in 1..Len(s) + Len(r)
    OBVIOUS
  <1>2. CASE i <= Len(s)
    <2>1. i \in DOMAIN s /\ (s \o r)[i] = s[i]
      BY <1>1, <1>2
    <2>. QED BY <2>1
  <1>3. CASE i > Len(s)
    <2>1. i - Len(s) \in DOMAIN r /\ (s \o r)[i] = r[i - Len(s)]
      BY <1>1, <1>3
    <2>. QED BY <2>1
  <1>. QED BY <1>1, <1>2, <1>3

\* The database after a block was put.
LEMMA PutStep ==
    ASSUME NetType, DbType, StoreInv, Grows, UNCHANGED made,
           NEW b \in DOMAIN made, b = 1 \/ made[b].prev \in Stored \cup {b},
           NEW s \in Seq(DOMAIN made), \A i \in DOMAIN s : made[s[i]].prev = b,
           next' = Put(b, s)
    PROVE  PrevStored' /\ LinksAreChildren'
  <1>1. Stored' = Stored \cup {b}
    BY PutType
  <1>2. next' = [c \in Stored' |-> IF c = b THEN s ELSE next[c]]
    BY <1>1 DEF Put
  <1>3. PrevStored'
    BY <1>1 DEF StoreInv, PrevStored
  <1>4. ASSUME NEW c \in Stored', NEW i \in DOMAIN next'[c] PROVE made[next'[c][i]].prev = c
    BY <1>1, <1>2, <1>4 DEF StoreInv, LinksAreChildren
  <1>. QED BY <1>3, <1>4 DEF LinksAreChildren

LEMMA StoreInit == Init => StoreInv
  <1>. SUFFICES ASSUME Init PROVE StoreInv
    OBVIOUS
  <1>. USE DEF Init, Stored, Actors
  <1>1. Heights /\ Starts
    BY DEF Heights, Starts, GenesisBlock
  <1>2. PrevStored /\ LinksAreChildren /\ TxsStored
    BY DEF PrevStored, LinksAreChildren, TxsStored
  <1>3. HandStored /\ WalkStored
    BY DEF HandStored, WalkStored
  <1>4. ChainContiguous /\ SeenFits
    BY DEF ChainContiguous, SeenFits, Contiguous, Range
  <1>. QED BY <1>1, <1>2, <1>3, <1>4 DEF StoreInv

\* Every step preserves StoreInv.
LEMMA StoreStep == TypeOK /\ Control /\ StoreInv /\ [Next]_vars => StoreInv'
  <1>. SUFFICES ASSUME TypeOK, Control, StoreInv, [Next]_vars PROVE StoreInv'
    OBVIOUS
  <1>. USE DEF TypeOK, netVars, dbVars, memVars, heightVars, goVars
  <1>0. Grows /\ TypeOK' /\ Control'
    BY GrowsStep, TypeStep
  <1>. USE <1>0
  <1>1. ASSUME NEW p \in DOMAIN made, NEW ts \in SUBSET sent, PeerBuild(p, ts) PROVE StoreInv'
    <2>1. Heights'
      <3>1. PICK x \in BlockType : made' = Append(made, x) /\ x.height > 1 /\ x.prev \in DOMAIN made
        <4>1. NewBlock(p, FALSE, ts) \in BlockType
          BY <1>1, NewBlockType DEF PeerBuild, NetType
        <4>2. NewBlock(p, FALSE, ts).height > 1 /\ NewBlock(p, FALSE, ts).prev = p
          BY BlockFields DEF NewBlock
        <4>. QED BY <1>1, <4>1, <4>2 DEF PeerBuild
      <3>2. /\ DOMAIN made' = DOMAIN made \cup {Len(made) + 1} /\ made'[Len(made) + 1] = x
            /\ 1 \in DOMAIN made
        BY <3>1, FirstMade DEF NetType
      <3>. QED BY <3>1, <3>2 DEF StoreInv, Heights, Grows
    <2>2. Starts'
      BY <1>1, StartsSame DEF StoreInv, PeerBuild
    <2>3. PrevStored' /\ LinksAreChildren'
      BY <1>1, LinksSame DEF StoreInv, PeerBuild
    <2>4. TxsStored'
      BY <1>1, TxsSame DEF StoreInv, PeerBuild
    <2>5. HandStored'
      BY <1>1, HandSame DEF StoreInv, PeerBuild, HandPcs, GoType, Actors, Goto
    <2>6. WalkStored'
      BY <1>1, WalkSame DEF StoreInv, PeerBuild, GoType, Actors, Goto
    <2>7. ChainContiguous'
      BY <1>1, ChainSame DEF StoreInv, PeerBuild
    <2>8. SeenFits'
      BY <1>1, SeenSame DEF StoreInv, PeerBuild, GoType, Actors, Goto
    <2>. QED BY <2>1, <2>2, <2>3, <2>4, <2>5, <2>6, <2>7, <2>8 DEF StoreInv
  <1>2. CASE TakeBlock
    <2>1. Heights'
      BY <1>2, HeightsSame DEF StoreInv, TakeBlock
    <2>2. Starts'
      BY <1>2, StartsSame DEF StoreInv, TakeBlock
    <2>3. PrevStored' /\ LinksAreChildren'
      BY <1>2, LinksSame DEF StoreInv, TakeBlock
    <2>4. TxsStored'
      BY <1>2, TxsSame DEF StoreInv, TakeBlock
    <2>5. HandStored'
      BY <1>2, HandSame DEF StoreInv, TakeBlock, HandPcs, GoType, Actors, Goto
    <2>6. WalkStored'
      BY <1>2, WalkSame DEF StoreInv, TakeBlock, GoType, Actors, Goto
    <2>7. ChainContiguous'
      BY <1>2, ChainSame DEF StoreInv, TakeBlock
    <2>8. SeenFits'
      BY <1>2, SeenSame DEF StoreInv, TakeBlock, GoType, Actors, Goto
    <2>. QED BY <2>1, <2>2, <2>3, <2>4, <2>5, <2>6, <2>7, <2>8 DEF StoreInv
  <1>3. CASE SaveTxs
    <2>1. Heights'
      BY <1>3, HeightsSame DEF StoreInv, SaveTxs
    <2>2. Starts'
      BY <1>3, StartsSame DEF StoreInv, SaveTxs
    <2>3. PrevStored' /\ LinksAreChildren'
      BY <1>3, LinksSame DEF StoreInv, SaveTxs
    <2>4. TxsStored'
      BY <1>3, TxsSame DEF StoreInv, SaveTxs
    <2>5. HandStored'
      BY <1>3 DEF SaveTxs, StoreInv, HandStored, Grows, GoType, Actors, Goto, Stored
    <2>6. WalkStored'
      BY <1>3, WalkSame DEF StoreInv, SaveTxs, GoType, Actors, Goto
    <2>7. ChainContiguous'
      BY <1>3, ChainSame DEF StoreInv, SaveTxs
    <2>8. SeenFits'
      BY <1>3, SeenSame DEF StoreInv, SaveTxs, GoType, Actors, Goto
    <2>. QED BY <2>1, <2>2, <2>3, <2>4, <2>5, <2>6, <2>7, <2>8 DEF StoreInv
  <1>4. CASE LinkPrevious
    <2>1. Heights'
      BY <1>4, HeightsSame DEF StoreInv, LinkPrevious
    <2>2. Starts'
      BY <1>4, StartsSame DEF StoreInv, LinkPrevious
    <2>3. PrevStored' /\ LinksAreChildren'
      <3>1. blk["saver"] \in DOMAIN made
        BY <1>4, InHand DEF LinkPrevious, Linked, AfterMissing
      <3>2. CASE UNCHANGED next
        BY <3>2, LinksSame DEF StoreInv
      <3>3. ASSUME made[blk["saver"]].prev \in Stored,
                   next' = [next EXCEPT ![made[blk["saver"]].prev] = Append(@, blk["saver"])]
            PROVE  PrevStored' /\ LinksAreChildren'
        <4> DEFINE p == made[blk["saver"]].prev
        <4>1. Stored' = Stored /\ made' = made
          BY <1>4, <3>3 DEF Stored, LinkPrevious, Linked
        <4>2. PrevStored'
          BY <4>1 DEF PrevStored, StoreInv
        <4>3. next[p] \in Seq(DOMAIN made) /\ next'[p] = Append(next[p], blk["saver"])
          BY <3>3 DEF DbType
        <4>4. ASSUME NEW i \in DOMAIN next'[p] PROVE made[next'[p][i]].prev = p
          <5>1. CASE i = Len(next[p]) + 1
            BY <4>3, <5>1
          <5>2. CASE i \in 1..Len(next[p])
            BY <3>3, <4>3, <5>2 DEF StoreInv, LinksAreChildren
          <5>. QED BY <4>3, <4>4, <5>1, <5>2
        <4>5. ASSUME NEW c \in Stored, c # p PROVE next'[c] = next[c]
          BY <3>3, <4>5 DEF DbType
        <4>. QED BY <4>1, <4>2, <4>4, <4>5 DEF StoreInv, LinksAreChildren
      <3>. QED BY <1>4, <3>2, <3>3 DEF LinkPrevious, Linked, AfterMissing
    <2>4. TxsStored'
      <3>1. Stored' = Stored
        BY <1>4 DEF LinkPrevious, Linked, AfterMissing, Stored, DbType
      <3>. QED BY <1>4, <3>1 DEF LinkPrevious, Linked, AfterMissing, StoreInv, TxsStored
    <2>5. HandStored'
      <3>1. blk["saver"] \in DOMAIN made
        BY <1>4, InHand DEF LinkPrevious, Linked, AfterMissing
      <3>2. ~NeedsPrevious(blk["saver"]) => blk["saver"] = 1
        BY <3>1, BlockFields DEF NeedsPrevious, StoreInv, Heights, Starts
      <3>3. pc'["saver"] = "save" => blk["saver"] = 1 \/ made[blk["saver"]].prev \in Stored
        BY <1>4, <3>2 DEF LinkPrevious, Linked, AfterMissing, GoType, Actors, Goto
      <3>4. pc["saver"] = "link" /\ pc'["saver"] \in {"save", "recv"}
        BY <1>4 DEF LinkPrevious, Linked, AfterMissing, GoType, Actors, Goto
      <3>5. pc'["main"] = pc["main"] /\ blk' = blk /\ made' = made /\ txdb' = txdb
        BY <1>4 DEF LinkPrevious, Linked, AfterMissing, GoType, Actors, Goto
      <3>. QED BY <3>3, <3>4, <3>5 DEF StoreInv, HandStored, Grows, Actors
    <2>6. WalkStored'
      BY <1>4, WalkSame DEF StoreInv, LinkPrevious, GoType, Actors, Goto, AfterMissing
    <2>7. ChainContiguous'
      BY <1>4, ChainSame DEF StoreInv, LinkPrevious
    <2>8. SeenFits'
      BY <1>4, SeenSame DEF StoreInv, LinkPrevious, GoType, Actors, Goto, AfterMissing
    <2>. QED BY <2>1, <2>2, <2>3, <2>4, <2>5, <2>6, <2>7, <2>8 DEF StoreInv
  <1>5. CASE SaveBlock
    <2>1. Heights'
      BY <1>5, HeightsSame DEF StoreInv, SaveBlock
    <2>2. Starts'
      <3>1. blk["saver"] \in DOMAIN made
        BY <1>5, InHand DEF SaveBlock
      <3>2. made[blk["saver"]].height = startingBlock => blk["saver"] = 1
        BY <3>1, BlockFields DEF StoreInv, Starts, Heights
      <3>. QED BY <1>5, <3>2 DEF SaveBlock, StoreInv, Starts, Grows
    <2>3. PrevStored' /\ LinksAreChildren'
      <3>1. blk["saver"] \in DOMAIN made
        BY <1>5, InHand DEF SaveBlock
      <3>2. blk["saver"] = 1 \/ made[blk["saver"]].prev \in Stored
        BY <1>5 DEF SaveBlock, StoreInv, HandStored
      <3>3. <<>> \in Seq(DOMAIN made) /\ DOMAIN <<>> = {}
        OBVIOUS
      <3>4. next' = Put(blk["saver"], <<>>) /\ UNCHANGED made
        BY <1>5 DEF SaveBlock
      <3>. QED BY <3>1, <3>2, <3>3, <3>4, PutStep
    <2>4. TxsStored'
      <3>1. blk["saver"] \in txdb
        BY <1>5 DEF SaveBlock, StoreInv, HandStored
      <3>. QED BY <1>5, <3>1 DEF SaveBlock, Put, Stored, StoreInv, TxsStored
    <2>5. HandStored'
      <3>1. blk["saver"] \in Stored'
        BY <1>5 DEF SaveBlock, Put, Stored
      <3>. QED BY <1>5, <3>1 DEF SaveBlock, StoreInv, HandStored, Grows, GoType, Actors, Goto
    <2>6. WalkStored'
      BY <1>5, WalkSame DEF StoreInv, SaveBlock, GoType, Actors, Goto
    <2>7. ChainContiguous'
      BY <1>5, ChainSame DEF StoreInv, SaveBlock
    <2>8. SeenFits'
      BY <1>5, SeenSame DEF StoreInv, SaveBlock, GoType, Actors, Goto
    <2>. QED BY <2>1, <2>2, <2>3, <2>4, <2>5, <2>6, <2>7, <2>8 DEF StoreInv
  <1>6. CASE RaiseHighest
    <2>1. Heights'
      BY <1>6, HeightsSame DEF StoreInv, RaiseHighest
    <2>2. Starts'
      BY <1>6, StartsSame DEF StoreInv, RaiseHighest
    <2>3. PrevStored' /\ LinksAreChildren'
      BY <1>6, LinksSame DEF StoreInv, RaiseHighest
    <2>4. TxsStored'
      BY <1>6, TxsSame DEF StoreInv, RaiseHighest
    <2>5. HandStored'
      BY <1>6, HandSame DEF StoreInv, RaiseHighest, HandPcs, GoType, Actors, Goto
    <2>6. WalkStored'
      BY <1>6, WalkSame DEF StoreInv, RaiseHighest, GoType, Actors, Goto
    <2>7. ChainContiguous'
      BY <1>6, ChainSame DEF StoreInv, RaiseHighest
    <2>8. SeenFits'
      BY <1>6, SeenSame DEF StoreInv, RaiseHighest, GoType, Actors, Goto
    <2>. QED BY <2>1, <2>2, <2>3, <2>4, <2>5, <2>6, <2>7, <2>8 DEF StoreInv
  <1>7. ASSUME NEW a \in Actors, CheckHeight(a) PROVE StoreInv'
    <2>1. Heights'
      BY <1>7, HeightsSame DEF StoreInv, CheckHeight
    <2>2. Starts'
      BY <1>7, StartsSame DEF StoreInv, CheckHeight
    <2>3. PrevStored' /\ LinksAreChildren'
      BY <1>7, LinksSame DEF StoreInv, CheckHeight
    <2>4. TxsStored'
      BY <1>7, TxsSame DEF StoreInv, CheckHeight
    <2>5. HandStored'
      BY <1>7, HandSame DEF StoreInv, CheckHeight, HandPcs, GoType, Actors, Goto
    <2>6. WalkStored'
      BY <1>7, WalkSame DEF StoreInv, CheckHeight, GoType, Actors, Goto
    <2>7. ChainContiguous'
      BY <1>7, ChainSame DEF StoreInv, CheckHeight
    <2>8. SeenFits'
      <3>0. PICK s \in Found(a) : /\ seen' = [seen EXCEPT ![a] = s]
                                  /\ HeightFits(s, blk[a]) \/ pc' = [pc EXCEPT ![a] = "after"]
        BY <1>7 DEF CheckHeight, Goto
      <3>1. /\ blk' = blk /\ made' = made /\ next' = next
            /\ \A x \in Actors \ {a} : pc'[x] = pc[x]
            /\ pc'[a] = "insert" => HeightFits(s, blk[a])
        BY <1>7, <3>0 DEF CheckHeight, GoType, Actors, Goto
      <3>2. SUFFICES ASSUME NEW x \in Actors
                     PROVE  /\ Contiguous(seen'[x]) /\ Range(seen'[x]) \subseteq Stored
                            /\ pc'[x] = "insert" /\ seen'[x] # <<>>
                                 => made[Last(seen'[x])].height + 1 = made[blk[x]].height
        BY <3>1 DEF SeenFits, Contiguous, Range, Last, Stored
      <3>25. seen \in [Actors -> Seq(DOMAIN made)]
        BY DEF GoType
      <3>3. CASE x = a
        <4>1. seen'[x] = s
          BY <3>0, <3>3, <3>25
        <4>. QED BY <3>1, <3>3, <4>1, FoundFits DEF HeightFits
      <3>4. CASE x # a
        <4>1. seen'[x] = seen[x] /\ pc'[x] = pc[x]
          BY <3>0, <3>1, <3>2, <3>4, <3>25
        <4>. QED BY <3>1, <4>1 DEF StoreInv, SeenFits
      <3>. QED BY <3>3, <3>4
    <2>. QED BY <2>1, <2>2, <2>3, <2>4, <2>5, <2>6, <2>7, <2>8 DEF StoreInv
  <1>8. ASSUME NEW a \in Actors, InsertBlock(a) PROVE StoreInv'
    <2>1. Heights'
      BY <1>8, HeightsSame DEF StoreInv, InsertBlock
    <2>2. Starts'
      BY <1>8, StartsSame DEF StoreInv, InsertBlock
    <2>3. PrevStored' /\ LinksAreChildren'
      BY <1>8, LinksSame DEF StoreInv, InsertBlock
    <2>4. TxsStored'
      BY <1>8, TxsSame DEF StoreInv, InsertBlock
    <2>5. HandStored'
      BY <1>8, HandSame DEF StoreInv, InsertBlock, HandPcs, GoType, Actors, Goto
    <2>6. WalkStored'
      BY <1>8, WalkSame DEF StoreInv, InsertBlock, GoType, Actors, Goto
    <2>7. ChainContiguous'
      <3> DEFINE c == Append(seen[a], blk[a])
      <3>1. seen[a] \in Seq(DOMAIN made) /\ blk[a] \in Stored
        BY <1>8 DEF InsertBlock, GoType, StoreInv, HandStored
      <3>2. chain' = c /\ made' = made /\ next' = next
        BY <1>8 DEF InsertBlock
      <3>3. Contiguous(c) /\ Range(c) \subseteq Stored
        BY <1>8, <3>1, AppendFits DEF InsertBlock, StoreInv, SeenFits
      <3>. HIDE DEF c
      <3>. QED BY <3>2, <3>3 DEF ChainContiguous, Contiguous, Range, Stored
    <2>8. SeenFits'
      <3>1. /\ seen' = [seen EXCEPT ![a] = <<>>] /\ blk' = blk /\ made' = made /\ next' = next
            /\ \A x \in Actors \ {a} : pc'[x] = pc[x]
        BY <1>8 DEF InsertBlock, GoType, Actors, Goto
      <3>2. SUFFICES ASSUME NEW x \in Actors
                     PROVE  /\ Contiguous(seen'[x]) /\ Range(seen'[x]) \subseteq Stored
                            /\ pc'[x] = "insert" /\ seen'[x] # <<>>
                                 => made[Last(seen'[x])].height + 1 = made[blk[x]].height
        BY <3>1 DEF SeenFits, Contiguous, Range, Last, Stored
      <3>3. CASE x = a
        <4>1. seen'[x] = <<>>
          BY <3>1, <3>3 DEF GoType
        <4>. QED BY <4>1 DEF Contiguous, Range
      <3>4. CASE x # a
        <4>1. seen'[x] = seen[x] /\ pc'[x] = pc[x]
          BY <3>1, <3>4 DEF GoType
        <4>. QED BY <4>1 DEF StoreInv, SeenFits
      <3>. QED BY <3>3, <3>4
    <2>. QED BY <2>1, <2>2, <2>3, <2>4, <2>5, <2>6, <2>7, <2>8 DEF StoreInv
  <1>9. ASSUME NEW a \in Actors, SkipMining(a) PROVE StoreInv'
    <2>1. Heights'
      BY <1>9, HeightsSame DEF StoreInv, SkipMining
    <2>2. Starts'
      BY <1>9, StartsSame DEF StoreInv, SkipMining
    <2>3. PrevStored' /\ LinksAreChildren'
      BY <1>9, LinksSame DEF StoreInv, SkipMining
    <2>4. TxsStored'
      BY <1>9, TxsSame DEF StoreInv, SkipMining
    <2>5. HandStored'
      BY <1>9, HandSame DEF StoreInv, SkipMining, HandPcs, GoType, Actors, Goto
    <2>6. WalkStored'
      BY <1>9, WalkSame DEF StoreInv, SkipMining, GoType, Actors, Goto
    <2>7. ChainContiguous'
      BY <1>9, ChainSame DEF StoreInv, SkipMining
    <2>8. SeenFits'
      BY <1>9, SeenSame DEF StoreInv, SkipMining, GoType, Actors, Goto
    <2>. QED BY <2>1, <2>2, <2>3, <2>4, <2>5, <2>6, <2>7, <2>8 DEF StoreInv
  <1>10. ASSUME NEW a \in Actors, BuildBlockForPOW(a) PROVE StoreInv'
    <2>1. Heights'
      <3>1. PICK x \in BlockType : made' = Append(made, x) /\ x.height > 1 /\ x.prev \in DOMAIN made
        <4>1. PICK d \in SUBSET Txs : made' = Append(made, NewBlock(Last(chain), TRUE, pool \cup d))
          BY <1>10 DEF BuildBlockForPOW
        <4>2. Last(chain) \in DOMAIN made
          BY <1>10, LastType DEF BuildBlockForPOW, Control, MemType
        <4>3. NewBlock(Last(chain), TRUE, pool \cup d) \in BlockType
          BY <4>2, NewBlockType DEF MemType
        <4>4. /\ NewBlock(Last(chain), TRUE, pool \cup d).height > 1
              /\ NewBlock(Last(chain), TRUE, pool \cup d).prev = Last(chain)
          BY <4>2, BlockFields DEF NewBlock
        <4>. QED BY <4>1, <4>2, <4>3, <4>4
      <3>2. /\ DOMAIN made' = DOMAIN made \cup {Len(made) + 1} /\ made'[Len(made) + 1] = x
            /\ 1 \in DOMAIN made
        BY <3>1, FirstMade DEF NetType
      <3>. QED BY <3>1, <3>2 DEF StoreInv, Heights, Grows
    <2>2. Starts'
      BY <1>10, StartsSame DEF StoreInv, BuildBlockForPOW
    <2>3. PrevStored' /\ LinksAreChildren'
      BY <1>10, LinksSame DEF StoreInv, BuildBlockForPOW
    <2>4. TxsStored'
      BY <1>10, TxsSame DEF StoreInv, BuildBlockForPOW
    <2>5. HandStored'
      BY <1>10, HandSame DEF StoreInv, BuildBlockForPOW, HandPcs, GoType, Actors, Goto
    <2>6. WalkStored'
      BY <1>10, WalkSame DEF StoreInv, BuildBlockForPOW, GoType, Actors, Goto
    <2>7. ChainContiguous'
      BY <1>10, ChainSame DEF StoreInv, BuildBlockForPOW
    <2>8. SeenFits'
      BY <1>10, SeenSame DEF StoreInv, BuildBlockForPOW, GoType, Actors, Goto
    <2>. QED BY <2>1, <2>2, <2>3, <2>4, <2>5, <2>6, <2>7, <2>8 DEF StoreInv
  <1>11. ASSUME NEW a \in Actors, SendOwn(a) PROVE StoreInv'
    <2>1. Heights'
      BY <1>11, HeightsSame DEF StoreInv, SendOwn
    <2>2. Starts'
      BY <1>11, StartsSame DEF StoreInv, SendOwn
    <2>3. PrevStored' /\ LinksAreChildren'
      BY <1>11, LinksSame DEF StoreInv, SendOwn
    <2>4. TxsStored'
      BY <1>11, TxsSame DEF StoreInv, SendOwn
    <2>5. HandStored'
      BY <1>11, HandSame DEF StoreInv, SendOwn, HandPcs, GoType, Actors, Goto
    <2>6. WalkStored'
      BY <1>11, WalkSame DEF StoreInv, SendOwn, GoType, Actors, Goto
    <2>7. ChainContiguous'
      BY <1>11, ChainSame DEF StoreInv, SendOwn
    <2>8. SeenFits'
      BY <1>11, SeenSame DEF StoreInv, SendOwn, GoType, Actors, Goto
    <2>. QED BY <2>1, <2>2, <2>3, <2>4, <2>5, <2>6, <2>7, <2>8 DEF StoreInv
  <1>12. CASE LoadFirst
    <2>1. Heights'
      BY <1>12, HeightsSame DEF StoreInv, LoadFirst
    <2>2. Starts'
      BY <1>12, StartsSame DEF StoreInv, LoadFirst
    <2>3. PrevStored' /\ LinksAreChildren'
      BY <1>12, LinksSame DEF StoreInv, LoadFirst
    <2>4. TxsStored'
      BY <1>12, TxsSame DEF StoreInv, LoadFirst
    <2>5. HandStored'
      BY <1>12 DEF LoadFirst, StoreInv, HandStored, GoType, Actors, Goto, Stored, Loadable, AfterLoading
    <2>6. WalkStored'
      BY <1>12 DEF LoadFirst, WalkStored, GoType, Actors, Goto, AfterLoading
    <2>7. ChainContiguous'
      BY <1>12, ChainSame DEF StoreInv, LoadFirst
    <2>8. SeenFits'
      BY <1>12, SeenSame DEF LoadFirst, StoreInv, GoType, Actors, Goto, AfterLoading
    <2>. QED BY <2>1, <2>2, <2>3, <2>4, <2>5, <2>6, <2>7, <2>8 DEF StoreInv
  <1>13. CASE AddedFirst
    <2>1. Heights'
      BY <1>13, HeightsSame DEF StoreInv, AddedFirst
    <2>2. Starts'
      <3>1. blk["main"] \in DOMAIN made
        BY <1>13, InHand DEF AddedFirst
      <3>2. blk["main"] = keyStart => keyStart = 1
        BY <3>1, FirstMade DEF StoreInv, Starts
      <3>. QED BY <1>13, <3>2 DEF AddedFirst, StoreInv, Starts, Heights, Grows
    <2>3. PrevStored' /\ LinksAreChildren'
      BY <1>13, LinksSame DEF StoreInv, AddedFirst
    <2>4. TxsStored'
      BY <1>13, TxsSame DEF StoreInv, AddedFirst
    <2>5. HandStored'
      BY <1>13, HandSame DEF StoreInv, AddedFirst, HandPcs, GoType, Actors, Goto
    <2>6. WalkStored'
      BY <1>13, WalkSame DEF StoreInv, AddedFirst, GoType, Actors, Goto
    <2>7. ChainContiguous'
      BY <1>13, ChainSame DEF StoreInv, AddedFirst
    <2>8. SeenFits'
      BY <1>13, SeenSame DEF StoreInv, AddedFirst, GoType, Actors, Goto
    <2>. QED BY <2>1, <2>2, <2>3, <2>4, <2>5, <2>6, <2>7, <2>8 DEF StoreInv
  <1>14. CASE LoadNext
    <2>1. Heights'
      BY <1>14, HeightsSame DEF StoreInv, LoadNext
    <2>2. Starts'
      BY <1>14, StartsSame DEF StoreInv, LoadNext
    <2>3. PrevStored' /\ LinksAreChildren'
      BY <1>14, LinksSame DEF StoreInv, LoadNext
    <2>4. TxsStored'
      BY <1>14, TxsSame DEF StoreInv, LoadNext
    <2>5. HandStored'
      <3>1. CASE todo = <<>>
        BY <1>14, <3>1 DEF LoadNext, StoreInv, HandStored, GoType, Actors, Goto, Stored, AfterLoading
      <3>2. CASE todo # <<>> /\ Loadable(Head(todo))
        <4>1. /\ blk' = [blk EXCEPT !["main"] = Head(todo)] /\ Head(todo) \in Stored
              /\ pc' = [pc EXCEPT !["main"] = "check"] /\ UNCHANGED <<made, next, txdb>>
          BY <1>14, <3>2 DEF LoadNext, Goto, Loadable
        <4>. QED BY <4>1 DEF StoreInv, HandStored, GoType, Actors, Stored
      <3>3. CASE todo # <<>> /\ ~Loadable(Head(todo))
        BY <1>14, <3>3 DEF LoadNext, StoreInv, HandStored, Stored
      <3>. QED BY <3>1, <3>2, <3>3
    <2>6. WalkStored'
      BY <1>14 DEF LoadNext, WalkStored, GoType, Actors, Goto, AfterLoading
    <2>7. ChainContiguous'
      BY <1>14, ChainSame DEF StoreInv, LoadNext
    <2>8. SeenFits'
      <3>1. \A x \in Actors : pc'[x] = "insert" => pc[x] = "insert" /\ blk'[x] = blk[x]
        BY <1>14 DEF LoadNext, GoType, Actors, Goto, AfterLoading
      <3>. QED BY <1>14, <3>1, SeenSame DEF LoadNext, StoreInv
    <2>. QED BY <2>1, <2>2, <2>3, <2>4, <2>5, <2>6, <2>7, <2>8 DEF StoreInv
  <1>15. CASE SyncBlockHead
    <2> DEFINE b == IF chain = <<>> THEN 1 ELSE Last(chain)
    <2>20. b \in DOMAIN made /\ (b = 1 \/ b \in Stored)
      <3>1. CASE chain = <<>>
        BY <3>1, FirstMade
      <3>2. CASE chain # <<>>
        <4>1. Len(chain) \in DOMAIN chain /\ Last(chain) \in DOMAIN made
          BY <3>2, LastType DEF MemType
        <4>. QED BY <3>2, <4>1 DEF StoreInv, ChainContiguous, Range, Last
      <3>. QED BY <3>1, <3>2
    <2>21. \/ pc' = [pc EXCEPT !["main"] = "done"] /\ UNCHANGED <<next, todo>>
           \/ \E s \in Answers(b) : next' = Put(b, s) /\ todo' = s /\ pc' = [pc EXCEPT !["main"] = "deep"]
      BY <1>15 DEF SyncBlockHead, Goto
    <2>. HIDE DEF b
    <2>1. Heights'
      BY <1>15, HeightsSame DEF StoreInv, SyncBlockHead
    <2>2. Starts'
      BY <1>15, StartsSame DEF StoreInv, SyncBlockHead
    <2>3. PrevStored' /\ LinksAreChildren'
      <3>1. CASE UNCHANGED next
        BY <3>1, LinksSame DEF StoreInv
      <3>2. ASSUME NEW s \in Answers(b), next' = Put(b, s) PROVE PrevStored' /\ LinksAreChildren'
        <4>1. s \in Seq(DOMAIN made) /\ \A i \in DOMAIN s : made[s[i]].prev = b
          BY AnswerType, AnswerChildren
        <4>2. b = 1 \/ made[b].prev \in Stored \cup {b}
          BY <2>20 DEF StoreInv, PrevStored
        <4>. QED BY <1>15, <2>20, <3>2, <4>1, <4>2, PutStep DEF SyncBlockHead
      <3>. QED BY <2>21, <3>1, <3>2
    <2>4. TxsStored'
      <3>1. CASE UNCHANGED next
        BY <3>1, TxsSame DEF StoreInv
      <3>2. ASSUME NEW s \in Answers(b), next' = Put(b, s) PROVE TxsStored'
        <4>1. Stored' = Stored \cup {b}
          BY <3>2 DEF Put, Stored
        <4>. QED BY <2>20, <4>1 DEF StoreInv, TxsStored, Starts, Grows
      <3>. QED BY <2>21, <3>1, <3>2
    <2>5. HandStored'
      BY <1>15, HandSame DEF StoreInv, SyncBlockHead, HandPcs, GoType, Actors, Goto
    <2>6. WalkStored'
      <3>1. CASE pc' = [pc EXCEPT !["main"] = "done"]
        BY <3>1 DEF WalkStored, GoType, Actors
      <3>2. ASSUME NEW s \in Answers(b), next' = Put(b, s), todo' = s PROVE WalkStored'
        <4>1. \A i \in DOMAIN s : made[s[i]].prev = b
          BY AnswerChildren
        <4>2. b \in Stored' /\ made' = made
          BY <1>15, <3>2 DEF Put, Stored, SyncBlockHead
        <4>. QED BY <3>2, <4>1, <4>2 DEF WalkStored
      <3>. QED BY <2>21, <3>1, <3>2
    <2>7. ChainContiguous'
      BY <1>15, ChainSame DEF StoreInv, SyncBlockHead
    <2>8. SeenFits'
      BY <1>15, SeenSame DEF StoreInv, SyncBlockHead, GoType, Actors, Goto
    <2>. QED BY <2>1, <2>2, <2>3, <2>4, <2>5, <2>6, <2>7, <2>8 DEF StoreInv
  <1>16. CASE SyncNext
    <2>1. Heights'
      BY <1>16, HeightsSame DEF StoreInv, SyncNext
    <2>2. Starts'
      BY <1>16, StartsSame DEF StoreInv, SyncNext
    <2>3. PrevStored' /\ LinksAreChildren'
      BY <1>16, LinksSame DEF StoreInv, SyncNext
    <2>4. TxsStored'
      BY <1>16, TxsSame DEF StoreInv, SyncNext
    <2>5. HandStored'
      BY <1>16, HandSame DEF StoreInv, SyncNext, HandPcs, GoType, Actors, Goto
    <2>6. WalkStored'
      <3>1. CASE todo # <<>> /\ Head(todo) \in Stored
        <4> DEFINE b == Head(todo)
                   s == next[b]
                   r == Tail(todo)
        <4>1. /\ s \in Seq(DOMAIN made) /\ r \in Seq(DOMAIN made) /\ todo' = s \o r
              /\ made' = made /\ next' = next
          BY <1>16, <3>1, TailType DEF SyncNext, DbType, GoType
        <4>2. \A i \in DOMAIN s : made[s[i]].prev \in Stored
          BY <3>1 DEF StoreInv, LinksAreChildren
        <4>3. \A i \in DOMAIN r : made[r[i]].prev \in Stored
          <5>1. \A i \in DOMAIN r : i + 1 \in DOMAIN todo /\ r[i] = todo[i + 1]
            BY <3>1 DEF GoType
          <5>. QED BY <1>16, <5>1 DEF SyncNext, StoreInv, WalkStored
        <4>4. \A i \in DOMAIN (s \o r) : made[(s \o r)[i]].prev \in Stored
          BY <4>1, <4>2, <4>3, ConcatAll
        <4>. HIDE DEF s, r, b
        <4>. QED BY <4>1, <4>4 DEF WalkStored, Stored
      <3>2. CASE UNCHANGED todo
        BY <1>16, <3>2, WalkSame DEF SyncNext, StoreInv
      <3>. QED BY <1>16, <3>1, <3>2 DEF SyncNext
    <2>7. ChainContiguous'
      BY <1>16, ChainSame DEF StoreInv, SyncNext
    <2>8. SeenFits'
      BY <1>16, SeenSame DEF StoreInv, SyncNext, GoType, Actors, Goto
    <2>. QED BY <2>1, <2>2, <2>3, <2>4, <2>5, <2>6, <2>7, <2>8 DEF StoreInv
  <1>17. CASE SyncFetched
    <2> DEFINE b == Head(todo)
               p == made[b].prev
    <2>20. b \in DOMAIN made /\ Tail(todo) \in Seq(DOMAIN made) /\ p \in Stored
      <3>1. todo # <<>> /\ todo \in Seq(DOMAIN made) /\ 1 \in DOMAIN todo
        BY <1>17 DEF SyncFetched, Control, GoType
      <3>. QED BY <1>17, <3>1, TailType DEF SyncFetched, StoreInv, WalkStored
    <2>21. \/ todo' = Tail(todo) /\ UNCHANGED next
           \/ \E s \in Answers(b) :
                /\ next' = [c \in Stored \cup {b} |->
                              IF c = b THEN s
                              ELSE IF c = p /\ startingBlock > 0 THEN Append(next[c], b)
                              ELSE next[c]]
                /\ todo' = s \o Tail(todo)
                /\ txdb' = txdb \cup {b}
      BY <1>17 DEF SyncFetched
    <2>22. UNCHANGED <<made, keyStart, chain, startingBlock, blk, seen>> /\ pc' = [pc EXCEPT !["main"] = "deep"]
      BY <1>17 DEF SyncFetched, Goto
    <2>. HIDE DEF b, p
    <2>23. ASSUME NEW s \in Answers(b),
                  next' = [c \in Stored \cup {b} |->
                             IF c = b THEN s
                             ELSE IF c = p /\ startingBlock > 0 THEN Append(next[c], b)
                             ELSE next[c]]
           PROVE  /\ Stored' = Stored \cup {b}
                  /\ s \in Seq(DOMAIN made) /\ \A i \in DOMAIN s : made[s[i]].prev = b
      BY <2>23, AnswerType, AnswerChildren DEF Stored
    <2>1. Heights'
      BY <1>17, HeightsSame DEF StoreInv, SyncFetched
    <2>2. Starts'
      BY <1>17, StartsSame DEF StoreInv, SyncFetched
    <2>3. PrevStored' /\ LinksAreChildren'
      <3>1. CASE UNCHANGED next
        BY <3>1, LinksSame DEF StoreInv
      <3>2. ASSUME NEW s \in Answers(b),
                   next' = [c \in Stored \cup {b} |->
                              IF c = b THEN s
                              ELSE IF c = p /\ startingBlock > 0 THEN Append(next[c], b)
                              ELSE next[c]]
            PROVE  PrevStored' /\ LinksAreChildren'
        <4>1. /\ Stored' = Stored \cup {b} /\ made' = made
              /\ \A i \in DOMAIN s : made[s[i]].prev = b
          BY <2>22, <2>23, <3>2
        <4>2. PrevStored'
          BY <2>20, <4>1 DEF StoreInv, PrevStored, p
        <4>3. ASSUME NEW c \in Stored', NEW i \in DOMAIN next'[c] PROVE made[next'[c][i]].prev = c
          <5>1. CASE c = b
            BY <3>2, <4>1, <4>3, <5>1
          <5>2. CASE c # b /\ c = p /\ startingBlock > 0
            <6>1. c \in Stored /\ next'[c] = Append(next[c], b) /\ next[c] \in Seq(DOMAIN made)
              BY <3>2, <4>1, <5>2 DEF DbType
            <6>2. CASE i \in 1..Len(next[c])
              BY <6>1, <6>2 DEF StoreInv, LinksAreChildren
            <6>3. CASE i = Len(next[c]) + 1
              BY <5>2, <6>1, <6>3 DEF p
            <6>. QED BY <4>3, <6>1, <6>2, <6>3
          <5>3. CASE c # b /\ ~(c = p /\ startingBlock > 0)
            <6>1. c \in Stored /\ next'[c] = next[c]
              BY <3>2, <4>1, <5>3
            <6>. QED BY <4>3, <6>1 DEF StoreInv, LinksAreChildren
          <5>. QED BY <5>1, <5>2, <5>3
        <4>. QED BY <4>1, <4>2, <4>3 DEF LinksAreChildren
      <3>. QED BY <2>21, <3>1, <3>2
    <2>4. TxsStored'
      <3>1. CASE UNCHANGED next
        BY <3>1, TxsSame DEF StoreInv
      <3>2. CASE ~UNCHANGED next
        <4>1. Stored' = Stored \cup {b} /\ txdb' = txdb \cup {b}
          BY <2>21, <2>23, <3>2
        <4>. QED BY <4>1 DEF StoreInv, TxsStored
      <3>. QED BY <3>1, <3>2
    <2>5. HandStored'
      <3>1. /\ \A a \in Actors : pc'[a] \in HandPcs => pc[a] \in HandPcs /\ blk'[a] = blk[a]
            /\ pc'["saver"] = pc["saver"] /\ blk'["saver"] = blk["saver"]
        BY <2>22 DEF GoType, Actors, HandPcs
      <3>. QED BY <3>1, HandSame DEF StoreInv
    <2>6. WalkStored'
      <3>1. \A i \in DOMAIN Tail(todo) : made[Tail(todo)[i]].prev \in Stored'
        <4>1. \A i \in DOMAIN Tail(todo) : i + 1 \in DOMAIN todo /\ Tail(todo)[i] = todo[i + 1]
          BY <1>17 DEF SyncFetched, Control, GoType
        <4>2. \A i \in DOMAIN todo : made[todo[i]].prev \in Stored
          BY <1>17 DEF SyncFetched, StoreInv, WalkStored
        <4>. QED BY <4>1, <4>2 DEF Grows
      <3>2. CASE todo' = Tail(todo)
        BY <2>22, <3>1, <3>2 DEF WalkStored
      <3>3. ASSUME NEW s \in Answers(b), todo' = s \o Tail(todo), Stored' = Stored \cup {b},
                   s \in Seq(DOMAIN made), \A i \in DOMAIN s : made[s[i]].prev = b
            PROVE  WalkStored'
        <4>1. \A i \in DOMAIN s : made[s[i]].prev \in Stored'
          BY <3>3
        <4>2. \A i \in DOMAIN (s \o Tail(todo)) : made[(s \o Tail(todo))[i]].prev \in Stored'
          BY <2>20, <3>1, <3>3, <4>1, ConcatAll
        <4>. QED BY <2>22, <3>3, <4>2 DEF WalkStored
      <3>. QED BY <2>21, <2>23, <3>2, <3>3
    <2>7. ChainContiguous'
      BY <1>17, ChainSame DEF StoreInv, SyncFetched
    <2>8. SeenFits'
      <3>1. \A a \in Actors : pc'[a] = "insert" => pc[a] = "insert" /\ blk'[a] = blk[a]
        BY <2>22 DEF GoType, Actors
      <3>. QED BY <2>22, <3>1, SeenSame DEF StoreInv
    <2>. QED BY <2>1, <2>2, <2>3, <2>4, <2>5, <2>6, <2>7, <2>8 DEF StoreInv
  <1>18. CASE Panic \/ Crash
    <2>1. Heights'
      BY <1>18, HeightsSame DEF StoreInv, Panic, Crash, LoseMemory
    <2>2. Starts'
      BY <1>18 DEF Panic, Crash, LoseMemory, Starts, StoreInv, Grows
    <2>3. PrevStored' /\ LinksAreChildren'
      BY <1>18, LinksSame DEF StoreInv, Panic, Crash, LoseMemory
    <2>4. TxsStored'
      BY <1>18, TxsSame DEF StoreInv, Panic, Crash, LoseMemory
    <2>5. HandStored'
      BY <1>18 DEF Panic, Crash, LoseMemory, HandStored, Actors
    <2>6. WalkStored'
      BY <1>18 DEF Panic, Crash, LoseMemory, WalkStored, Actors
    <2>7. ChainContiguous'
      BY <1>18 DEF Panic, Crash, LoseMemory, ChainContiguous, Contiguous, Range
    <2>8. SeenFits'
      BY <1>18 DEF Panic, Crash, LoseMemory, SeenFits, Contiguous, Range, Actors
    <2>. QED BY <2>1, <2>2, <2>3, <2>4, <2>5, <2>6, <2>7, <2>8 DEF StoreInv
  <1>19. ASSUME UNCHANGED <<made, dbVars, chain, startingBlock, goVars>> PROVE StoreInv'
    <2>1. HandStored' /\ WalkStored'
      BY <1>19, HandSame, WalkSame DEF StoreInv
    <2>2. SeenFits'
      BY <1>19, SeenSame DEF StoreInv
    <2>. QED BY <1>19, <2>1, <2>2, HeightsSame, StartsSame, LinksSame, TxsSame, ChainSame DEF StoreInv
  <1>20. CASE \E b \in DOMAIN made : MulticastBlockHead_recv(b)
    BY <1>20, <1>19 DEF MulticastBlockHead_recv
  <1>21. CASE \E t \in Txs : PeerTx(t) \/ MulticastTransaction_recv(t) \/ SendToAddress(t)
    BY <1>21, <1>19 DEF PeerTx, MulticastTransaction_recv, SendToAddress
  <1>22. CASE \E e \in pending : AddBlockHead(e)
    BY <1>22, <1>19 DEF AddBlockHead
  <1>23. CASE UNCHANGED vars
    BY <1>23, <1>19 DEF vars
  <1>. QED
    BY <1>1, <1>2, <1>3, <1>4, <1>5, <1>6, <1>7, <1>8, <1>9, <1>10, <1>11, <1>12, <1>13, <1>14, <1>15, <1>16, <1>17, <1>18, <1>20, <1>21, <1>22, <1>23
       DEF Next, Network, Saver, Main, AddBlock

\* Through crashes, repeated deliveries and two goroutines without a lock, what a
\* goroutine of the pipeline read earlier still holds when it uses it, and the database
\* and the chain in memory are consistent.
THEOREM StoreAlways == Spec => []StoreInv
  <1>1. Init => TypeOK /\ Control /\ StoreInv
    BY InitType, StoreInit
  <1>2. TypeOK /\ Control /\ StoreInv /\ [Next]_vars => (TypeOK /\ Control /\ StoreInv)'
    BY TypeStep, StoreStep
  <1>. QED BY <1>1, <1>2, PTL DEF Spec

\* saveBlockHead and the synchronisation never store a block whose predecessor is
\* not stored, through crashes and repeated broadcasts.
THEOREM PrevAlwaysStored == Spec => []PrevStored
  <1>1. StoreInv => PrevStored
    BY DEF StoreInv
  <1>. QED BY <1>1, StoreAlways, PTL

\* Nextblockhash lists only name children, although two goroutines and the
\* neighbours' answers write them.
THEOREM LinksAlwaysChildren == Spec => []LinksAreChildren
  <1>1. StoreInv => LinksAreChildren
    BY DEF StoreInv
  <1>. QED BY <1>1, StoreAlways, PTL

\* No crash leaves a block stored without its transactions, but for the first
\* block of a node that joined.
THEOREM TxsAlwaysStored == Spec => []TxsStored
  <1>1. StoreInv => TxsStored
    BY DEF StoreInv
  <1>. QED BY <1>1, StoreAlways, PTL

\* The chain in memory has consecutive heights and stored blocks, although two
\* goroutines run AddBlock without a lock.
THEOREM ChainAlwaysContiguous == Spec => []ChainContiguous
  <1>1. StoreInv => ChainContiguous
    BY DEF StoreInv
  <1>. QED BY <1>1, StoreAlways, PTL

\* A block is one higher than the block it names as its predecessor.
ParentHeights ==
    \A b \in (DOMAIN made) \ {1} :
        made[b].prev \in DOMAIN made /\ made[b].height = made[made[b].prev].height + 1

\* Whoever builds a block, NewBlock makes it so.
LEMMA ParentStep ==
  ASSUME TypeOK, Control, ParentHeights, [Next]_vars
  PROVE  ParentHeights'
  <1>. USE DEF TypeOK, NetType, netVars, dbVars, memVars, heightVars, goVars
  <1>1. ASSUME NEW p \in DOMAIN made, NEW own, NEW ts, made' = Append(made, NewBlock(p, own, ts))
        PROVE  ParentHeights'
    <2>1. /\ DOMAIN made' = DOMAIN made \cup {Len(made) + 1}
          /\ \A b \in DOMAIN made : made'[b] = made[b]
          /\ made'[Len(made) + 1] = NewBlock(p, own, ts)
      BY <1>1
    <2>. QED BY <2>1 DEF ParentHeights, NewBlock
  <1>2. ASSUME NEW p \in DOMAIN made, NEW ts \in SUBSET sent, PeerBuild(p, ts) PROVE ParentHeights'
    BY <1>1, <1>2 DEF PeerBuild
  <1>3. ASSUME NEW a \in Actors, BuildBlockForPOW(a) PROVE ParentHeights'
    <2>1. Last(chain) \in DOMAIN made
      BY <1>3 DEF BuildBlockForPOW, Control, MemType, Last
    <2>. QED BY <1>1, <1>3, <2>1 DEF BuildBlockForPOW
  <1>4. ASSUME UNCHANGED made PROVE ParentHeights'
    BY <1>4 DEF ParentHeights
  <1>5. CASE Network /\ ~\E p \in DOMAIN made, ts \in SUBSET sent : PeerBuild(p, ts)
    BY <1>4, <1>5 DEF Network, MulticastBlockHead_recv, PeerTx, MulticastTransaction_recv, SendToAddress
  <1>6. CASE Saver \/ Main
    BY <1>4, <1>6 DEF Saver, TakeBlock, SaveTxs, LinkPrevious, SaveBlock, RaiseHighest,
        Main, LoadFirst, AddedFirst, LoadNext, SyncBlockHead, SyncNext, SyncFetched
  <1>7. ASSUME NEW a \in Actors, AddBlock(a), ~BuildBlockForPOW(a) PROVE ParentHeights'
    BY <1>4, <1>7 DEF AddBlock, CheckHeight, InsertBlock, SkipMining, SendOwn
  <1>8. CASE (\E e \in pending : AddBlockHead(e)) \/ Panic \/ Crash \/ UNCHANGED vars
    BY <1>4, <1>8 DEF AddBlockHead, Panic, Crash, LoseMemory, vars
  <1>. QED BY <1>2, <1>3, <1>5, <1>6, <1>7, <1>8 DEF Next, Network

\* Without two stored blocks of one height, contiguous heights are enough: the
\* predecessor of a block of the chain is stored, one lower, and so the block before it.
LEMMA FollowsHashes ==
  ASSUME TypeOK, StoreInv, ParentHeights
  PROVE  ChainFollowsHashes
  <1>. SUFFICES ASSUME \A b, c \in Stored : made[b].height = made[c].height => b = c,
                       NEW i \in 1..Len(chain) - 1
                PROVE  made[chain[i + 1]].prev = chain[i]
    BY DEF ChainFollowsHashes
  <1>. DEFINE b == chain[i]  c == chain[i + 1]
  <1>1. b \in DOMAIN made /\ c \in DOMAIN made /\ b \in Stored /\ c \in Stored
    <2>1. i \in DOMAIN chain /\ i + 1 \in DOMAIN chain
      BY DEF TypeOK, MemType
    <2>. QED BY <2>1 DEF TypeOK, MemType, StoreInv, ChainContiguous, Range
  <1>2. made[c].height = made[b].height + 1
    BY DEF StoreInv, ChainContiguous, Contiguous
  <1>0. \A d \in DOMAIN made : made[d].height \in Nat \ {0}
    <2>1. \A d \in DOMAIN made : made[d] \in BlockType
      BY DEF TypeOK, NetType
    <2>. QED BY <2>1 DEF BlockType
  <1>3. made[b].height \in Nat \ {0} /\ made[1].height = 1
    BY <1>0, <1>1 DEF StoreInv, Heights
  <1>4. c # 1
    BY <1>2, <1>3
  <1>5. made[c].prev \in Stored
    BY <1>1, <1>4 DEF StoreInv, PrevStored
  <1>6. made[c].height = made[made[c].prev].height + 1 /\ made[c].prev \in DOMAIN made
    BY <1>1, <1>4 DEF ParentHeights
  <1>7. made[made[c].prev].height \in Nat
    BY <1>0, <1>6
  <1>8. made[made[c].prev].height = made[b].height
    BY <1>2, <1>3, <1>6, <1>7
  <1>. QED BY <1>1, <1>5, <1>8

\* AddBlock compares heights only, and still the chain follows Previousblockhash for
\* any number of blocks as long as no two stored blocks have one height.
THEOREM ChainAlwaysFollows == Spec => []ChainFollowsHashes
  <1>1. Init => ParentHeights
    BY DEF Init, ParentHeights
  <1>2. TypeOK /\ Control /\ ParentHeights /\ [Next]_vars => ParentHeights'
    BY ParentStep
  <1>3. TypeOK /\ StoreInv /\ ParentHeights => ChainFollowsHashes
    BY FollowsHashes
  <1>. QED BY <1>1, <1>2, <1>3, TypeCorrect, StoreAlways, PTL DEF Spec

-----------------------------------------------------------------------------
(* HighestBlock: CoverInv.                                                 *)

\* HighestBlock has reached the height of the block, or the saver, which raises it in
\* the end, has the block in hand.
Covered(b) == made[b].height <= highestBlock \/ (pc["saver"] \in HandPcs /\ blk["saver"] = b)

LoadPcs == HandPcs \cup {"load", "next"}

\* Before a restart, the chain, the tails that were read and, while the main goroutine
\* may still add blocks of the database to the chain, all stored blocks are covered.
CoverInv ==
    crashes = 0 =>
        /\ \A b \in Range(chain) : Covered(b)
        /\ \A a \in Actors : \A b \in Range(seen[a]) : Covered(b)
        /\ pc["main"] \in LoadPcs => \A b \in Stored : Covered(b)

\* What a step must do to keep CoverInv.
LEMMA CoverKept ==
    ASSUME TypeOK, StoreInv, Grows, CoverInv, crashes = 0,
           highestBlock' \in Nat, highestBlock <= highestBlock',
           pc["saver"] \in HandPcs =>
               \/ pc'["saver"] \in HandPcs /\ blk'["saver"] = blk["saver"]
               \/ made[blk["saver"]].height <= highestBlock',
           \A b \in Range(chain') : b \in Stored /\ Covered(b),
           \A a \in Actors : \A b \in Range(seen'[a]) : b \in Stored /\ Covered(b),
           pc'["main"] \in LoadPcs =>
               pc["main"] \in LoadPcs /\ \A b \in Stored' : b \in Stored \/ Covered(b)'
    PROVE  CoverInv'
  <1>1. ASSUME NEW b \in Stored, Covered(b) PROVE Covered(b)'
    <2>1. b \in DOMAIN made /\ made[b].height \in Nat /\ highestBlock \in Nat
      BY BlockFields DEF TypeOK, DbType, MemType
    <2>2. made'[b] = made[b]
      BY <2>1 DEF Grows
    <2>. QED BY <1>1, <2>1, <2>2 DEF Covered
  <1>2. \A b \in Range(chain') : Covered(b)'
    BY <1>1
  <1>3. \A a \in Actors : \A b \in Range(seen'[a]) : Covered(b)'
    BY <1>1
  <1>4. pc'["main"] \in LoadPcs => \A b \in Stored' : Covered(b)'
    BY <1>1 DEF CoverInv
  <1>. QED BY <1>2, <1>3, <1>4 DEF CoverInv, Range, Stored

\* The block that a goroutine is about to insert is covered.
LEMMA InsertCovered ==
    ASSUME StoreInv, CoverInv, crashes = 0, NEW o \in Actors, pc[o] = "insert"
    PROVE  blk[o] \in Stored /\ Covered(blk[o])
  <1>1. blk[o] \in Stored
    BY DEF StoreInv, HandStored
  <1>2. o = "saver" \/ o = "main"
    BY DEF Actors
  <1>. QED BY <1>1, <1>2 DEF CoverInv, Covered, HandPcs, LoadPcs

LEMMA CoverInit == Init => CoverInv
  BY DEF Init, CoverInv, Covered, Range, Stored, GenesisBlock, Actors

LEMMA CoverStep ==
    ASSUME TypeOK, Control, StoreInv, CoverInv, [Next]_vars
    PROVE  CoverInv'
  <1>. SUFFICES ASSUME crashes' = 0 PROVE CoverInv'
    BY DEF CoverInv
  <1>. USE DEF TypeOK, netVars, dbVars, memVars, heightVars, goVars
  <1>0. /\ Grows /\ TypeOK' /\ Control' /\ highestBlock \in Nat
        /\ ("saver" \in Actors /\ "main" \in Actors)
    BY GrowsStep, TypeStep DEF MemType, Actors
  <1>. USE <1>0
  <1>1. ASSUME crashes = 0
        PROVE  /\ \A b \in Range(chain) : b \in Stored /\ Covered(b)
               /\ \A a \in Actors : \A b \in Range(seen[a]) : b \in Stored /\ Covered(b)
    BY <1>1 DEF CoverInv, StoreInv, ChainContiguous, SeenFits
  <1>2. CASE UNCHANGED <<dbVars, chain, heightVars, goVars, crashes>>
    BY <1>1, <1>2, CoverKept DEF Stored
  <1>3. CASE TakeBlock \/ SaveTxs \/ LoadFirst \/ AddedFirst \/ LoadNext \/ SyncNext \/ LinkPrevious
    <2>1. /\ UNCHANGED <<chain, highestBlock, seen, crashes>>
          /\ Stored' = Stored
      BY <1>3 DEF TakeBlock, SaveTxs, LoadFirst, AddedFirst, LoadNext, SyncNext, LinkPrevious, Linked, Stored, DbType
    <2>2. /\ pc["saver"] \in HandPcs => pc'["saver"] \in HandPcs /\ blk'["saver"] = blk["saver"]
          /\ pc'["main"] \in LoadPcs => pc["main"] \in LoadPcs
      BY <1>3 DEF TakeBlock, SaveTxs, LoadFirst, AddedFirst, LoadNext, SyncNext, LinkPrevious, AfterMissing,
          AfterLoading, Goto, GoType, HandPcs, LoadPcs
    <2>. QED BY <1>1, <2>1, <2>2, CoverKept
  <1>4. CASE SaveBlock
    <2>1. /\ UNCHANGED <<chain, highestBlock, seen, crashes, made, blk>>
          /\ Stored' = Stored \cup {blk["saver"]}
          /\ pc["saver"] = "save" /\ pc' = [pc EXCEPT !["saver"] = "check"]
      BY <1>4 DEF SaveBlock, Stored, Put, Goto
    <2>2. pc'["saver"] = "check" /\ pc'["main"] = pc["main"]
      BY <2>1 DEF GoType
    <2>3. Covered(blk["saver"])'
      BY <2>1, <2>2 DEF Covered, HandPcs
    <2>4. \A b \in Stored' : b \in Stored \/ Covered(b)'
      BY <2>1, <2>3
    <2>5. pc["saver"] \notin HandPcs
      BY <2>1 DEF HandPcs
    <2>. QED BY <1>1, <2>1, <2>2, <2>4, <2>5, CoverKept
  <1>5. CASE RaiseHighest
    <2>1. UNCHANGED <<chain, seen, crashes, made, blk, next>> /\ pc["saver"] = "after"
      BY <1>5 DEF RaiseHighest
    <2>2. blk["saver"] \in DOMAIN made
      BY <2>1, InHand
    <2>3. /\ highestBlock' \in Nat /\ highestBlock <= highestBlock'
          /\ made[blk["saver"]].height <= highestBlock'
      BY <1>5, <2>2, BlockFields DEF RaiseHighest, Higher
    <2>4. pc'["main"] = pc["main"]
      BY <1>5 DEF RaiseHighest, Goto, GoType
    <2>. QED BY <1>1, <2>1, <2>3, <2>4, CoverKept DEF Stored
  <1>6. ASSUME NEW a \in Actors, CheckHeight(a) PROVE CoverInv'
    <2>1. UNCHANGED <<chain, highestBlock, crashes, blk, next>>
      BY <1>6 DEF CheckHeight
    <2>2. PICK s \in Found(a) : seen' = [seen EXCEPT ![a] = s]
      BY <1>6 DEF CheckHeight
    <2>3. /\ pc["saver"] \in HandPcs => pc'["saver"] \in HandPcs
          /\ pc'["main"] \in LoadPcs => pc["main"] \in LoadPcs
      BY <1>6 DEF CheckHeight, Goto, GoType, HandPcs, LoadPcs, Actors
    <2>4. ASSUME NEW b \in Range(s) PROVE b \in Stored /\ Covered(b)
      <3>1. CASE s = chain
        BY <1>1, <2>1, <2>4, <3>1
      <3>2. ASSUME NEW o \in Actors, pc[o] = "insert", s = Append(chain, blk[o])
            PROVE  b \in Stored /\ Covered(b)
        <4>1. blk[o] \in Stored /\ Covered(blk[o])
          BY <1>1, <2>1, <3>2, InsertCovered
        <4>2. b \in Range(chain) \/ b = blk[o]
          BY <2>4, <3>2, <4>1, AppendRange DEF MemType, DbType
        <4>. QED BY <1>1, <2>1, <4>1, <4>2
      <3>. QED BY <3>1, <3>2, FoundType
    <2>5. \A c \in Actors : \A b \in Range(seen'[c]) : b \in Stored /\ Covered(b)
      <3>1. \A c \in Actors : seen'[c] = seen[c] \/ seen'[c] = s
        BY <2>2 DEF GoType
      <3>. QED BY <1>1, <2>1, <2>4, <3>1
    <2>. QED BY <1>1, <2>1, <2>3, <2>5, CoverKept DEF Stored
  <1>7. ASSUME NEW a \in Actors, InsertBlock(a) PROVE CoverInv'
    <2>1. /\ UNCHANGED <<highestBlock, crashes, blk, next>> /\ seen' = [seen EXCEPT ![a] = <<>>]
          /\ pc[a] = "insert" /\ chain' = Append(seen[a], blk[a])
      BY <1>7 DEF InsertBlock
    <2>2. \A c \in Actors : seen'[c] = seen[c] \/ seen'[c] = <<>>
      BY <2>1 DEF GoType
    <2>3. /\ pc["saver"] \in HandPcs => pc'["saver"] \in HandPcs
          /\ pc'["main"] \in LoadPcs => pc["main"] \in LoadPcs
      BY <1>7 DEF InsertBlock, Goto, GoType, HandPcs, LoadPcs, Actors
    <2>4. blk[a] \in Stored /\ Covered(blk[a])
      BY <2>1, InsertCovered
    <2>5. \A b \in Range(chain') : b \in Range(seen[a]) \/ b = blk[a]
      <3>1. seen[a] \in Seq(DOMAIN made)
        BY DEF GoType
      <3>. QED BY <2>1, <3>1 DEF Range
    <2>6. \A b \in Range(chain') : b \in Stored /\ Covered(b)
      BY <1>1, <2>1, <2>4, <2>5
    <2>7. \A c \in Actors : \A b \in Range(seen'[c]) : b \in Stored /\ Covered(b)
      <3>1. Range(<<>>) = {}
        BY DEF Range
      <3>. QED BY <1>1, <2>1, <2>2, <3>1
    <2>. QED BY <2>1, <2>3, <2>6, <2>7, CoverKept DEF Stored
  <1>8. ASSUME NEW a \in Actors, SkipMining(a) \/ BuildBlockForPOW(a) \/ SendOwn(a) PROVE CoverInv'
    <2>1. UNCHANGED <<chain, highestBlock, seen, crashes, blk, next>>
      BY <1>8 DEF SkipMining, BuildBlockForPOW, SendOwn
    <2>2. /\ pc["saver"] \in HandPcs => pc'["saver"] \in HandPcs
          /\ pc'["main"] \in LoadPcs => pc["main"] \in LoadPcs
      BY <1>8 DEF SkipMining, BuildBlockForPOW, SendOwn, Goto, GoType, HandPcs, LoadPcs, Actors
    <2>. QED BY <1>1, <2>1, <2>2, CoverKept DEF Stored
  <1>9. CASE SyncBlockHead \/ SyncFetched
    <2>1. UNCHANGED <<chain, highestBlock, seen, crashes, blk>>
      BY <1>9 DEF SyncBlockHead, SyncFetched
    <2>2. pc'["saver"] = pc["saver"] /\ pc'["main"] \notin LoadPcs
      BY <1>9 DEF SyncBlockHead, SyncFetched, Goto, GoType, HandPcs, LoadPcs
    <2>. QED BY <1>1, <2>1, <2>2, CoverKept
  <1>10. CASE Panic \/ Crash
    <2>1. CASE Panic
      BY <2>1 DEF Panic, LoseMemory, CoverInv, Range, Actors, LoadPcs, HandPcs
    <2>2. CASE Crash
      <3>1. crashes' = crashes + 1 /\ crashes \in Nat
        BY <2>2, ConstantsAssumption DEF Crash
      <3>. QED BY <3>1
    <2>. QED BY <1>10, <2>1, <2>2
  <1>11. CASE Network \/ (\E e \in pending : AddBlockHead(e)) \/ UNCHANGED vars
    BY <1>11, <1>2 DEF Network, PeerBuild, MulticastBlockHead_recv, PeerTx, MulticastTransaction_recv,
        SendToAddress, AddBlockHead, vars
  <1>. QED
    BY <1>3, <1>4, <1>5, <1>6, <1>7, <1>8, <1>9, <1>10, <1>11 DEF Next, Saver, Main, AddBlock

\* Until a restart HighestBlock is at least the height of every block of the chain
\* whenever saveBlockHead waits for a block, although the loader adds blocks too and
\* the blocks come in any order.
THEOREM AlwaysCovers == Spec => []HighestCovers
  <1>1. Init => CoverInv
    BY CoverInit
  <1>2. TypeOK /\ Control /\ StoreInv /\ CoverInv /\ [Next]_vars => CoverInv'
    BY CoverStep
  <1>3. TypeOK /\ CoverInv => HighestCovers
    <2>. SUFFICES ASSUME TypeOK, CoverInv, crashes = 0, pc["saver"] = "recv", NEW i \in DOMAIN chain
                  PROVE  made[chain[i]].height <= highestBlock
      BY DEF HighestCovers
    <2>1. chain[i] \in Range(chain)
      BY DEF Range
    <2>. QED BY <2>1 DEF CoverInv, Covered, HandPcs
  <1>. QED BY <1>1, <1>2, <1>3, TypeCorrect, StoreAlways, PTL DEF Spec

-----------------------------------------------------------------------------
(* Loading the database after a restart: LoadInv.                          *)

\* The balance has counted the block, or the saver is about to have it counted.
Loaded(b) == b \in counted \/ (pc["saver"] \in {"save", "check"} /\ blk["saver"] = b)

\* The loader still has to come to the block.
Awaited(b) == b \in Range(todo) \/ (pc["main"] = "check" /\ blk["main"] = b)

Loading == pc["main"] \in HandPcs \cup {"next"}

\* Where the loader is, and what it knows of the first block.
LoaderInv ==
    /\ made[1] = GenesisBlock
    /\ pc["main"] \in {"load", "sync"} => todo = <<>>
    /\ pc["main"] = "load" => startingBlock = 0
    /\ Loading => keyStart = 1
    /\ pc["main"] \in {"insert", "mine", "send", "after", "next"} => blk["main"] \in counted
    /\ startingBlock > 0 => keyStart = 1 /\ 1 \in counted
    /\ keyStart = 1 => 1 \in Stored

\* From the moment the loader has read the list of the first block, a stored block on
\* that list was counted, is about to be or is still to come.
NoneLost ==
    Loading \/ (pc["main"] = "sync" /\ startingBlock > 0)
        => \A b \in Range(next[1]) \cap Stored : Loaded(b) \/ Awaited(b)

LoadInv == LoaderInv /\ NoneLost

\* A stored successor of the first block is another block, and so its transactions are
\* stored too: the loader can load it.
LEMMA SuccessorLoads ==
    ASSUME TypeOK, StoreInv, LoaderInv, 1 \in Stored, NEW b \in Range(next[1]) \cap Stored
    PROVE  Loadable(b)
  <1>1. PICK i \in DOMAIN next[1] : b = next[1][i]
    BY DEF Range
  <1>2. made[b].prev = 1
    BY <1>1 DEF StoreInv, LinksAreChildren
  <1>3. made[1].prev = 0
    BY DEF LoaderInv, GenesisBlock
  <1>4. b # 1
    BY <1>2, <1>3
  <1>. QED BY <1>4 DEF StoreInv, TxsStored, Loadable

\* The loader's facts after a step that leaves its variables alone.
LEMMA LoaderSame ==
    ASSUME TypeOK, LoaderInv, Grows,
           pc'["main"] = pc["main"], blk'["main"] = blk["main"], counted \subseteq counted',
           UNCHANGED <<todo, keyStart, startingBlock>>
    PROVE  LoaderInv'
  <1>1. made'[1] = made[1]
    BY FirstMade DEF Grows, TypeOK
  <1>. QED BY <1>1 DEF LoaderInv, Loading, Grows

\* A step that leaves the list of the first block, its stored part and the loader alone.
LEMMA LostSame ==
    ASSUME NoneLost, pc'["main"] = pc["main"], blk'["main"] = blk["main"],
           UNCHANGED <<todo, startingBlock, next>>, \A b \in Stored : Loaded(b) => Loaded(b)'
    PROVE  NoneLost'
  BY DEF NoneLost, Loading, Awaited, Stored

LEMMA LoadInit == Init => LoadInv
  BY DEF Init, LoadInv, LoaderInv, NoneLost, Loading, HandPcs, Actors, Stored

LEMMA LoadStep ==
    ASSUME TypeOK, Control, StoreInv, LoadInv, [Next]_vars
    PROVE  LoadInv'
  <1>. USE DEF TypeOK, netVars, dbVars, memVars, heightVars, goVars
  <1>0. /\ Grows /\ TypeOK' /\ LoaderInv /\ NoneLost /\ 1 \in DOMAIN made /\ made'[1] = made[1]
        /\ "saver" \in Actors /\ "main" \in Actors
    BY GrowsStep, TypeStep, FirstMade DEF LoadInv, Actors, Grows
  <1>. USE <1>0
  <1>1. CASE UNCHANGED <<dbVars, counted, startingBlock, pc, blk, todo>>
    <2>1. \A b \in Stored : Loaded(b) => Loaded(b)'
      BY <1>1 DEF Loaded
    <2>. QED BY <1>1, <2>1, LoaderSame, LostSame DEF LoadInv
  <1>2. CASE TakeBlock \/ SaveTxs \/ RaiseHighest
    <2>1. UNCHANGED <<keyStart, counted, startingBlock, todo, next>>
      BY <1>2 DEF TakeBlock, SaveTxs, RaiseHighest
    <2>2. /\ pc'["main"] = pc["main"] /\ blk'["main"] = blk["main"]
          /\ pc["saver"] \in {"recv", "txs", "after"}
      BY <1>2 DEF TakeBlock, SaveTxs, RaiseHighest, Goto, GoType
    <2>3. \A b \in Stored : Loaded(b) => Loaded(b)'
      BY <2>1, <2>2 DEF Loaded
    <2>. QED BY <2>1, <2>2, <2>3, LoaderSame, LostSame DEF LoadInv
  <1>3. CASE LinkPrevious
    <2> DEFINE b == blk["saver"]
               p == made[b].prev
    <2>1. /\ UNCHANGED <<keyStart, counted, startingBlock, todo, blk>> /\ Stored' = Stored
          /\ pc'["main"] = pc["main"] /\ pc["saver"] = "link"
      BY <1>3 DEF LinkPrevious, Linked, AfterMissing, Goto, GoType, Stored, DbType
    <2>2. \A c \in Stored : Loaded(c) => Loaded(c)'
      BY <2>1 DEF Loaded
    <2>3. CASE next' = next
      BY <2>1, <2>2, <2>3, LoaderSame, LostSame DEF LoadInv
    <2>4. CASE p \in Stored /\ next' = Linked(p, b) /\ pc' = [pc EXCEPT !["saver"] = "save"]
      <3>1. pc'["saver"] = "save" /\ Loaded(b)'
        BY <2>1, <2>4 DEF Loaded, GoType
      <3>2. ASSUME Loading \/ (pc["main"] = "sync" /\ startingBlock > 0)
            PROVE  Range(next'[1]) \subseteq Range(next[1]) \cup {b}
        <4>1. 1 \in Stored
          BY <3>2 DEF LoaderInv
        <4>2. next[1] \in Seq(DOMAIN made) /\ (next'[1] = next[1] \/ next'[1] = Append(next[1], b))
          BY <2>4, <4>1 DEF Linked, DbType
        <4>. QED BY <4>2 DEF Range
      <3>3. NoneLost'
        BY <2>1, <2>2, <3>1, <3>2 DEF NoneLost, Loading, Awaited
      <3>. QED BY <2>1, <3>3, LoaderSame DEF LoadInv
    <2>. QED BY <1>3, <2>3, <2>4 DEF LinkPrevious, Goto
  <1>4. CASE SaveBlock
    <2> DEFINE b == blk["saver"]
    <2>1. /\ UNCHANGED <<made, counted, startingBlock, todo, blk>> /\ Stored' = Stored \cup {b}
          /\ next' = Put(b, <<>>)
          /\ pc["saver"] = "save"
          /\ keyStart' = IF made[b].height = startingBlock THEN b ELSE keyStart
      BY <1>4 DEF SaveBlock, Put, Stored
    <2>2. pc'["main"] = pc["main"] /\ pc'["saver"] = "check"
      BY <1>4 DEF SaveBlock, Goto, GoType
    <2>3. b \in DOMAIN made
      BY <2>1, InHand
    <2>4. keyStart' = keyStart \/ (keyStart' = 1 /\ b = 1)
      BY <2>1, <2>3, BlockFields DEF StoreInv, Heights, Starts
    <2>5. LoaderInv'
      BY <2>1, <2>2, <2>4 DEF LoaderInv, Loading
    <2>6. Loaded(b)' /\ \A c \in Stored : Loaded(c) => Loaded(c)'
      BY <2>1, <2>2 DEF Loaded
    <2>7. ASSUME Loading \/ (pc["main"] = "sync" /\ startingBlock > 0)
          PROVE  Range(next'[1]) \subseteq Range(next[1])
      <3>1. 1 \in Stored
        BY <2>7 DEF LoaderInv
      <3>2. next'[1] = next[1] \/ next'[1] = <<>>
        BY <2>1, <3>1 DEF Put
      <3>. QED BY <3>2 DEF Range
    <2>8. NoneLost'
      BY <2>1, <2>2, <2>6, <2>7 DEF NoneLost, Loading, Awaited
    <2>. QED BY <2>5, <2>8 DEF LoadInv
  <1>5. CASE CheckHeight("saver")
    <2>1. /\ UNCHANGED <<keyStart, startingBlock, todo, next, blk>> /\ counted' = counted \cup {blk["saver"]}
      BY <1>5 DEF CheckHeight
    <2>2. pc'["main"] = pc["main"]
      BY <1>5 DEF CheckHeight, Goto, GoType
    <2>3. \A b \in Stored : Loaded(b) => Loaded(b)'
      BY <2>1 DEF Loaded
    <2>. QED BY <2>1, <2>2, <2>3, LoaderSame, LostSame DEF LoadInv
  <1>6. CASE InsertBlock("saver") \/ SkipMining("saver") \/ BuildBlockForPOW("saver") \/ SendOwn("saver")
    <2>1. UNCHANGED <<keyStart, startingBlock, todo, next, blk, counted>> /\ pc["saver"] \in {"insert", "mine", "send"}
      BY <1>6 DEF InsertBlock, SkipMining, BuildBlockForPOW, SendOwn
    <2>2. pc'["main"] = pc["main"]
      BY <1>6 DEF InsertBlock, SkipMining, BuildBlockForPOW, SendOwn, Goto, GoType
    <2>3. \A b \in Stored : Loaded(b) => Loaded(b)'
      BY <2>1 DEF Loaded
    <2>. QED BY <2>1, <2>2, <2>3, LoaderSame, LostSame DEF LoadInv
  <1>7. CASE CheckHeight("main")
    <2>1. /\ UNCHANGED <<keyStart, startingBlock, todo, next, blk>> /\ counted' = counted \cup {blk["main"]}
          /\ pc["main"] = "check"
      BY <1>7 DEF CheckHeight
    <2>2. pc'["saver"] = pc["saver"] /\ pc'["main"] \in {"insert", "after"}
      BY <1>7 DEF CheckHeight, Goto, GoType
    <2>3. \A b \in Stored : Loaded(b) \/ Awaited(b) => Loaded(b)' \/ Awaited(b)'
      BY <2>1, <2>2 DEF Loaded, Awaited
    <2>4. LoaderInv'
      BY <2>1, <2>2 DEF LoaderInv, Loading, HandPcs, Grows
    <2>5. NoneLost'
      BY <2>1, <2>2, <2>3 DEF NoneLost, Loading, HandPcs, Stored
    <2>. QED BY <2>4, <2>5 DEF LoadInv
  <1>8. CASE InsertBlock("main") \/ SkipMining("main") \/ BuildBlockForPOW("main") \/ SendOwn("main")
    <2>1. UNCHANGED <<keyStart, startingBlock, todo, next, blk, counted>>
      BY <1>8 DEF InsertBlock, SkipMining, BuildBlockForPOW, SendOwn
    <2>2. /\ pc'["saver"] = pc["saver"] /\ pc["main"] \in {"insert", "mine", "send"}
          /\ pc'["main"] \in {"mine", "send", "after"}
      BY <1>8 DEF InsertBlock, SkipMining, BuildBlockForPOW, SendOwn, Goto, GoType
    <2>3. \A b \in Stored : Loaded(b) \/ Awaited(b) => Loaded(b)' \/ Awaited(b)'
      BY <2>1, <2>2 DEF Loaded, Awaited
    <2>4. LoaderInv'
      BY <2>1, <2>2 DEF LoaderInv, Loading, HandPcs, Grows
    <2>5. NoneLost'
      BY <2>1, <2>2, <2>3 DEF NoneLost, Loading, HandPcs, Stored
    <2>. QED BY <2>4, <2>5 DEF LoadInv
  <1>9. CASE LoadFirst
    <2>1. /\ UNCHANGED <<keyStart, startingBlock, next, counted>> /\ pc["main"] = "load"
          /\ startingBlock = 0 /\ todo = <<>>
      BY <1>9 DEF LoadFirst, LoaderInv
    <2>2. CASE ~Loadable(keyStart)
      <3>1. pc'["main"] \in {"sync", "done"} /\ todo' = todo
        BY <1>9, <2>2 DEF LoadFirst, Goto, GoType, AfterLoading
      <3>. QED BY <2>1, <3>1 DEF LoadInv, LoaderInv, NoneLost, Loading, HandPcs, Grows
    <2>3. CASE Loadable(keyStart)
      <3>1. keyStart = 1
        BY <2>3, FirstMade DEF Loadable, DbType, StoreInv, Starts
      <3>2. pc'["main"] = "check" /\ todo' = next[1]
        BY <1>9, <2>3, <3>1 DEF LoadFirst, Goto, GoType
      <3>3. LoaderInv'
        BY <2>1, <3>1, <3>2 DEF LoaderInv, Loading, HandPcs, Grows
      <3>4. NoneLost'
        BY <2>1, <3>2 DEF NoneLost, Awaited
      <3>. QED BY <3>3, <3>4 DEF LoadInv
    <2>. QED BY <2>2, <2>3
  <1>10. CASE AddedFirst
    <2>1. UNCHANGED <<keyStart, todo, next, blk, counted>> /\ pc["main"] = "after"
      BY <1>10 DEF AddedFirst
    <2>2. pc'["saver"] = pc["saver"] /\ pc'["main"] = "next"
      BY <1>10 DEF AddedFirst, Goto, GoType
    <2>3. startingBlock' = startingBlock \/ blk["main"] = keyStart
      BY <1>10 DEF AddedFirst
    <2>4. \A b \in Stored : Loaded(b) \/ Awaited(b) => Loaded(b)' \/ Awaited(b)'
      BY <2>1, <2>2 DEF Loaded, Awaited
    <2>5. LoaderInv'
      BY <2>1, <2>2, <2>3 DEF LoaderInv, Loading, HandPcs, Grows
    <2>6. NoneLost'
      BY <2>1, <2>2, <2>4 DEF NoneLost, Loading, HandPcs, Stored
    <2>. QED BY <2>5, <2>6 DEF LoadInv
  <1>11. CASE LoadNext
    <2>1. UNCHANGED <<keyStart, next, startingBlock, counted>> /\ pc["main"] = "next"
      BY <1>11 DEF LoadNext
    <2>2. /\ Loading /\ keyStart = 1 /\ 1 \in Stored /\ Stored' = Stored /\ pc'["saver"] = pc["saver"]
          /\ blk'["saver"] = blk["saver"]
      BY <1>11, <2>1 DEF LoadNext, Loading, LoaderInv, Stored, Goto, GoType
    <2>3. CASE todo = <<>>
      <3>1. pc'["main"] \in {"sync", "done"} /\ todo' = todo /\ blk' = blk
        BY <1>11, <2>3 DEF LoadNext, Goto, GoType, AfterLoading
      <3>2. \A b \in Stored : ~Awaited(b)
        BY <2>1, <2>3 DEF Awaited, Range
      <3>3. LoaderInv'
        BY <2>1, <2>2, <2>3, <3>1 DEF LoaderInv, Loading, HandPcs
      <3>4. NoneLost'
        BY <2>1, <2>2, <3>1, <3>2 DEF NoneLost, Loaded
      <3>. QED BY <3>3, <3>4 DEF LoadInv
    <2>4. CASE todo # <<>>
      <3>1. /\ todo' = Tail(todo)
            /\ \/ Loadable(Head(todo)) /\ blk'["main"] = Head(todo) /\ pc'["main"] = "check"
               \/ ~Loadable(Head(todo)) /\ blk'["main"] = blk["main"] /\ pc'["main"] = "next"
        BY <1>11, <2>4 DEF LoadNext, Goto, GoType
      <3>2. \A b \in Range(todo) : b = Head(todo) \/ b \in Range(todo')
        <4>1. \A i \in DOMAIN todo : i = 1 \/ (i - 1 \in DOMAIN Tail(todo) /\ todo[i] = Tail(todo)[i - 1])
          BY <2>4 DEF GoType
        <4>2. Head(todo) = todo[1] /\ DOMAIN Tail(todo) = DOMAIN todo'
          BY <2>4, <3>1 DEF GoType
        <4>3. ASSUME NEW b \in Range(todo), b # Head(todo) PROVE b \in Range(todo')
          <5>1. PICK i \in DOMAIN todo : b = todo[i]
            BY <4>3 DEF Range
          <5>2. i - 1 \in DOMAIN Tail(todo) /\ b = Tail(todo)[i - 1]
            BY <4>1, <4>2, <4>3, <5>1
          <5>. QED BY <3>1, <5>2 DEF Range
        <4>. QED BY <4>3
      <3>3. LoaderInv'
        BY <2>1, <2>2, <3>1 DEF LoaderInv, Loading, HandPcs
      <3>4. ASSUME NEW b \in Range(next[1]) \cap Stored PROVE Loaded(b)' \/ Awaited(b)'
        <4>1. Loaded(b) \/ b \in Range(todo)
          BY <2>1, <2>2 DEF NoneLost, Awaited
        <4>2. Loadable(b)
          BY <2>2, SuccessorLoads
        <4>3. Loaded(b) => Loaded(b)'
          BY <2>1, <2>2 DEF Loaded
        <4>. QED BY <3>1, <3>2, <4>1, <4>2, <4>3 DEF Awaited
      <3>5. NoneLost'
        BY <2>1, <2>2, <3>4 DEF NoneLost
      <3>. QED BY <3>3, <3>5 DEF LoadInv
    <2>. QED BY <2>3, <2>4
  <1>12. CASE SyncBlockHead \/ SyncNext \/ SyncFetched
    <2>1. UNCHANGED <<keyStart, startingBlock, counted>>
      BY <1>12 DEF SyncBlockHead, SyncNext, SyncFetched
    <2>2. pc'["main"] \in {"deep", "fetch", "done"}
      BY <1>12 DEF SyncBlockHead, SyncNext, SyncFetched, Goto, GoType
    <2>. QED BY <2>1, <2>2 DEF LoadInv, LoaderInv, NoneLost, Loading, HandPcs, Grows
  <1>13. CASE Panic \/ Crash
    BY <1>13 DEF Panic, Crash, LoseMemory, LoadInv, LoaderInv, NoneLost, Loading, HandPcs, Stored
  <1>14. CASE Network \/ (\E e \in pending : AddBlockHead(e)) \/ UNCHANGED vars
    BY <1>14, <1>1 DEF Network, PeerBuild, MulticastBlockHead_recv, PeerTx, MulticastTransaction_recv,
        SendToAddress, AddBlockHead, vars
  <1>15. ASSUME NEW a \in Actors, AddBlock(a) PROVE LoadInv'
    BY <1>15, <1>5, <1>6, <1>7, <1>8 DEF AddBlock, Actors
  <1>. QED
    BY <1>2, <1>3, <1>4, <1>9, <1>10, <1>11, <1>12, <1>13, <1>14, <1>15 DEF Next, Saver, Main

\* After a restart the loader and saveBlockHead between them count in the balance the
\* first block and every stored successor of it, also one that AddBlock then refuses,
\* although both write while the loader walks a list it read before.
THEOREM AlwaysCounted == Spec => []SuccessorsCounted
  <1>1. Init => LoadInv
    BY LoadInit
  <1>2. TypeOK /\ Control /\ StoreInv /\ LoadInv /\ [Next]_vars => LoadInv'
    BY LoadStep
  <1>3. LoadInv => SuccessorsCounted
    <2>. SUFFICES ASSUME LoadInv, pc["main"] = "sync", pc["saver"] = "recv", startingBlock > 0
                  PROVE  {keyStart} \cup (Range(next[keyStart]) \cap Stored) \subseteq counted
      BY DEF SuccessorsCounted
    <2>1. keyStart = 1 /\ 1 \in counted /\ todo = <<>>
      BY DEF LoadInv, LoaderInv
    <2>2. \A b \in Range(next[1]) \cap Stored : b \in counted
      BY <2>1 DEF LoadInv, NoneLost, Loaded, Awaited, Range
    <2>. QED BY <2>1, <2>2
  <1>. QED BY <1>1, <1>2, <1>3, TypeCorrect, StoreAlways, PTL DEF Spec

-----------------------------------------------------------------------------
(* The lists of successors: LinkInv.                                       *)

\* Where a block can be before and after it is stored: with a handler, in the channel,
\* with the saver, with the goroutine that mined it.
Waits(b) == <<b, 0>> \in pending
Queued(b) == b \in Range(queue)
Held(b) == pc["saver"] \in {"txs", "link", "save"} /\ blk["saver"] = b
Sends(a, b) == pc[a] = "send" /\ built[a] = b

Nowhere(b) ==
    ~Waits(b) /\ ~Queued(b) /\ ~Held(b) /\ b \notin Stored /\ \A a \in Actors : ~Sends(a, b)

Once(b) == \A i, j \in DOMAIN queue : queue[i] = b /\ queue[j] = b => i = j

\* The block is in one place, once.
Single(b) ==
    /\ Waits(b) => ~Queued(b) /\ ~Held(b) /\ b \notin Stored
    /\ Queued(b) => ~Held(b) /\ b \notin Stored
    /\ Held(b) => b \notin Stored
    /\ \A a \in Actors : Sends(a, b) =>
          /\ ~Waits(b) /\ ~Queued(b) /\ ~Held(b) /\ b \notin Stored
          /\ \A c \in Actors : Sends(c, b) => c = a
    /\ Once(b)

\* A block that was delivered at most once is in one place.
PlacesInv ==
    /\ 1 \in Stored /\ pc["main"] \notin {"sync", "deep", "fetch"}
    /\ \A e \in pending : e[2] < heard[e[1]]
    /\ \A b \in DOMAIN made : heard[b] <= 1 => Single(b)
    /\ \A b \in DOMAIN made : heard[b] = 0 /\ ~made[b].own => Nowhere(b)

\* The block of LinkedFromParent that the saver is about to store is already linked.
ListInv ==
    /\ \A c \in Stored \ {1} : heard[made[c].prev] <= 1 => c \in Range(next[made[c].prev])
    /\ pc["saver"] = "save" /\ blk["saver"] # 1 /\ heard[made[blk["saver"]].prev] <= 1
         => blk["saver"] \in Range(next[made[blk["saver"]].prev])

LinkInv == initNode => PlacesInv /\ ListInv

\* A step brings the block to no place where it was not.
Stays(b) ==
    /\ Waits(b)' => Waits(b)
    /\ Queued(b)' => Queued(b)
    /\ Held(b)' => Held(b)
    /\ b \in Stored' => b \in Stored
    /\ \A a \in Actors : Sends(a, b)' => Sends(a, b)

LEMMA StaysSingle == ASSUME NEW b, Stays(b), Single(b), Once(b)' PROVE Single(b)'
  BY DEF Stays, Single

LEMMA StaysNowhere == ASSUME NEW b, Stays(b), Nowhere(b) PROVE Nowhere(b)'
  BY DEF Stays, Nowhere

\* Blocks that a step leaves where they are, or moves, stay in one place.
LEMMA PlacesKept ==
    ASSUME TypeOK, PlacesInv, Grows, DOMAIN made' = DOMAIN made, UNCHANGED heard, pending' \subseteq pending,
           pc'["main"] \notin {"sync", "deep", "fetch"},
           \A b \in DOMAIN made : heard[b] <= 1 /\ Single(b) => Single(b)',
           \A b \in DOMAIN made : Nowhere(b) => Nowhere(b)'
    PROVE  PlacesInv'
  BY DEF PlacesInv, Grows

\* A block at the end of the channel is there once if it was not there before.
LEMMA AppendOnce ==
    ASSUME NEW D, queue \in Seq(D), NEW b \in D, queue' = Append(queue, b)
    PROVE  /\ \A c : c # b => (Queued(c)' => Queued(c)) /\ (Once(c) => Once(c)')
           /\ Queued(b)' /\ (~Queued(b) => Once(b)')
  <1>1. /\ DOMAIN queue = 1..Len(queue) /\ DOMAIN queue' = 1..Len(queue) + 1 /\ Len(queue) \in Nat
        /\ \A i \in 1..Len(queue) : queue'[i] = queue[i]
        /\ queue'[Len(queue) + 1] = b
    OBVIOUS
  <1>2. ASSUME NEW c, c # b PROVE (Queued(c)' => Queued(c)) /\ (Once(c) => Once(c)')
    <2>1. \A i \in DOMAIN queue' : queue'[i] = c => i \in DOMAIN queue /\ queue[i] = c
      BY <1>1, <1>2
    <2>. QED BY <2>1 DEF Queued, Range, Once
  <1>3. Queued(b)'
    BY <1>1 DEF Queued, Range
  <1>4. ASSUME ~Queued(b) PROVE Once(b)'
    <2>1. \A i \in DOMAIN queue' : queue'[i] = b => i = Len(queue) + 1
      BY <1>1, <1>4 DEF Queued, Range
    <2>. QED BY <2>1 DEF Once
  <1>. QED BY <1>2, <1>3, <1>4

LEMMA TailOnce ==
    ASSUME NEW D, queue \in Seq(D), queue # <<>>, queue' = Tail(queue), NEW b, b = Head(queue)
    PROVE  /\ \A c : (Queued(c)' => Queued(c)) /\ (Once(c) => Once(c)')
           /\ Queued(b) /\ (Once(b) => ~Queued(b)')
  <1>1. /\ DOMAIN queue = 1..Len(queue) /\ DOMAIN queue' = 1..Len(queue) - 1 /\ Len(queue) \in Nat \ {0}
        /\ \A i \in 1..Len(queue) - 1 : queue'[i] = queue[i + 1]
        /\ b = queue[1]
    OBVIOUS
  <1>2. \A i \in DOMAIN queue' : i \in Nat /\ i + 1 \in DOMAIN queue /\ i + 1 # 1 /\ queue'[i] = queue[i + 1]
    BY <1>1
  <1>3. 1 \in DOMAIN queue
    BY <1>1
  <1>4. ASSUME NEW c PROVE (Queued(c)' => Queued(c)) /\ (Once(c) => Once(c)')
    <2>1. Queued(c)' => Queued(c)
      BY <1>2 DEF Queued, Range
    <2>2. ASSUME Once(c), NEW i \in DOMAIN queue', NEW j \in DOMAIN queue', queue'[i] = c, queue'[j] = c
          PROVE  i = j
      <3>1. i + 1 = j + 1
        BY <1>2, <2>2 DEF Once
      <3>. QED BY <1>2, <3>1
    <2>. QED BY <2>1, <2>2 DEF Once
  <1>5. Queued(b)
    BY <1>1, <1>3 DEF Queued, Range
  <1>6. ASSUME Once(b), Queued(b)' PROVE FALSE
    <2>1. PICK i \in DOMAIN queue' : queue'[i] = b
      BY <1>6 DEF Queued, Range
    <2>2. i + 1 \in DOMAIN queue /\ queue[i + 1] = queue[1] /\ i + 1 # 1
      BY <1>1, <1>2, <2>1
    <2>. QED BY <1>1, <1>3, <1>6, <2>2 DEF Once
  <1>. QED BY <1>4, <1>5, <1>6

LEMMA LinkInit == Init => LinkInv
  <1>. SUFFICES ASSUME Init, Genesis PROVE PlacesInv /\ ListInv
    BY DEF Init, LinkInv
  <1>1. Stored = {1} /\ made = <<GenesisBlock>> /\ GenesisBlock.own
    BY DEF Init, Stored, GenesisBlock
  <1>2. \A b \in DOMAIN made : b = 1
    BY <1>1
  <1>3. PlacesInv
    BY <1>1, <1>2 DEF Init, PlacesInv, Single, Once, Waits, Queued, Held, Sends, Actors, Range
  <1>4. ListInv
    BY <1>1 DEF Init, ListInv, Actors
  <1>. QED BY <1>3, <1>4

\* A new block is nowhere yet.
LEMMA NewNowhere ==
    ASSUME TypeOK, NEW n, n \notin DOMAIN made, n # 0
    PROVE  Nowhere(n)
  <1>1. ~Waits(n) /\ ~Queued(n) /\ n \notin Stored
    BY DEF TypeOK, QueueType, DbType, Waits, Queued, Range
  <1>2. ~Held(n) /\ \A a \in Actors : ~Sends(a, n)
    BY DEF TypeOK, GoType, Held, Sends, Actors
  <1>. QED BY <1>1, <1>2 DEF Nowhere

LEMMA NowhereSingle == ASSUME TypeOK, NEW n, Nowhere(n) PROVE Single(n)
  BY DEF Nowhere, Single, Once, Queued, Range

LEMMA HeardType == ASSUME NetType, NEW b \in DOMAIN made PROVE b \in Ids /\ heard[b] \in Nat
  <1>1. b \in Ids
    <2>1. b \in 1..Len(made) /\ Len(made) \in 1..MaxBlocks
      BY DEF NetType, Ids
    <2>. QED BY <2>1, ConstantsAssumption DEF Ids
  <1>2. heard[b] \in 0..MaxDup + 1
    BY <1>1 DEF NetType
  <1>. QED BY <1>1, <1>2, ConstantsAssumption

LEMMA PlacesStep ==
    ASSUME TypeOK, Control, PlacesInv, initNode, [Next]_vars, initNode'
    PROVE  PlacesInv'
  <1>. USE DEF TypeOK, netVars, dbVars, memVars, heightVars, goVars
  <1>0. /\ Grows /\ TypeOK' /\ Control'
        /\ "saver" \in Actors /\ "main" \in Actors /\ \A a \in Actors : a = "saver" \/ a = "main"
    BY GrowsStep, TypeStep DEF Actors
  <1>. USE <1>0
  <1>1. ASSUME DOMAIN made' = DOMAIN made, UNCHANGED <<heard, queue>>, pending' \subseteq pending,
               pc'["main"] \notin {"sync", "deep", "fetch"}, \A b \in DOMAIN made : Stays(b)
        PROVE  PlacesInv'
    <2>1. \A b : Once(b) => Once(b)'
      BY <1>1 DEF Once
    <2>2. \A b : Single(b) => Once(b)
      BY DEF Single
    <2>. QED BY <1>1, <2>1, <2>2, StaysSingle, StaysNowhere, PlacesKept
  <1>2. ASSUME NEW p \in DOMAIN made, NEW ts \in SUBSET sent, PeerBuild(p, ts) PROVE PlacesInv'
    <2>0. PICK n : n = Len(made) + 1
      OBVIOUS
    <2>1. /\ DOMAIN made' = DOMAIN made \cup {n} /\ n \notin DOMAIN made /\ n # 0
          /\ UNCHANGED <<heard, pending, queue, next, pc, blk, built>>
      BY <1>2, <2>0 DEF PeerBuild, NetType
    <2>2. \A b : (Single(b) => Single(b)') /\ (Nowhere(b) => Nowhere(b)')
      BY <2>1 DEF Single, Nowhere, Once, Waits, Queued, Held, Sends, Stored
    <2>3. Single(n) /\ Nowhere(n)
      BY <2>1, NewNowhere, NowhereSingle
    <2>. QED BY <2>1, <2>2, <2>3 DEF PlacesInv, Grows, Stored
  <1>3. ASSUME NEW b \in DOMAIN made, MulticastBlockHead_recv(b) PROVE PlacesInv'
    <2>1. /\ ~made[b].own /\ heard' = [heard EXCEPT ![b] = @ + 1] /\ pending' = pending \cup {<<b, heard[b]>>}
          /\ UNCHANGED <<made, queue, next, pc, blk, built>>
      BY <1>3 DEF MulticastBlockHead_recv
    <2>2. /\ b \in Ids /\ heard[b] \in Nat /\ heard'[b] = heard[b] + 1
          /\ \A c \in DOMAIN made : c # b => heard'[c] = heard[c]
      BY <2>1 DEF NetType, Ids
    <2>3. \A e \in pending' : e[2] < heard'[e[1]]
      <3>1. ASSUME NEW e \in pending PROVE e[2] < heard'[e[1]]
        <4>1. e[1] \in DOMAIN made /\ e[2] \in Nat /\ e[2] < heard[e[1]]
          BY ConstantsAssumption DEF QueueType, PlacesInv
        <4>2. heard[e[1]] \in Nat
          BY <4>1, HeardType
        <4>. QED BY <2>2, <4>1, <4>2
      <3>. QED BY <2>1, <2>2, <3>1
    <2>4. ASSUME NEW c \in DOMAIN made, c # b PROVE (Single(c) => Single(c)') /\ (Nowhere(c) => Nowhere(c)')
      <3>1. Stays(c) /\ (Once(c) => Once(c)')
        BY <2>1, <2>4 DEF Stays, Waits, Queued, Held, Sends, Once, Stored
      <3>. QED BY <3>1, StaysSingle, StaysNowhere DEF Single
    <2>5. ASSUME heard'[b] <= 1 PROVE Single(b)'
      <3>1. heard[b] = 0
        BY <2>2, <2>5
      <3>2. Nowhere(b) /\ Single(b)
        BY <2>1, <3>1 DEF PlacesInv
      <3>. QED BY <2>1, <3>2 DEF Single, Nowhere, Queued, Held, Sends, Once, Stored
    <2>. QED BY <2>1, <2>2, <2>3, <2>4, <2>5 DEF PlacesInv, Stored
  <1>4. ASSUME NEW e \in pending, AddBlockHead(e) PROVE PlacesInv'
    <2> DEFINE b == e[1]
    <2>1. /\ queue' = Append(queue, b) /\ pending' = pending \ {e}
          /\ UNCHANGED <<made, heard, next, pc, blk, built>>
      BY <1>4 DEF AddBlockHead
    <2>2. /\ b \in DOMAIN made /\ e[2] \in Nat /\ e = <<b, e[2]>> /\ e[2] < heard[b] /\ heard[b] \in Nat
      <3>1. b \in DOMAIN made /\ e[2] \in Nat /\ e = <<b, e[2]>> /\ e[2] < heard[b]
        BY ConstantsAssumption DEF QueueType, PlacesInv
      <3>. QED BY <3>1, HeardType
    <2>3. /\ \A c : c # b => (Queued(c)' => Queued(c)) /\ (Once(c) => Once(c)')
          /\ Queued(b)' /\ (~Queued(b) => Once(b)')
      BY <2>1, <2>2, AppendOnce DEF QueueType
    <2>4. ASSUME NEW c \in DOMAIN made, c # b PROVE (Single(c) => Single(c)') /\ (Nowhere(c) => Nowhere(c)')
      <3>1. Stays(c) /\ (Once(c) => Once(c)')
        BY <2>1, <2>3, <2>4 DEF Stays, Waits, Held, Sends, Stored
      <3>. QED BY <3>1, StaysSingle, StaysNowhere DEF Single
    <2>5. ASSUME heard[b] <= 1, Single(b) PROVE Single(b)'
      <3>1. e = <<b, 0>>
        <4>1. e[2] = 0
          BY <2>2, <2>5
        <4>. QED BY <2>2, <4>1
      <3>2. Waits(b) /\ ~Waits(b)'
        BY <2>1, <3>1 DEF Waits
      <3>3. /\ ~Queued(b) /\ ~Held(b) /\ b \notin Stored /\ \A a \in Actors : ~Sends(a, b)
        BY <2>5, <3>2 DEF Single
      <3>4. ~Held(b)' /\ b \notin Stored' /\ \A a \in Actors : ~Sends(a, b)'
        BY <2>1, <3>3 DEF Held, Sends, Stored
      <3>. QED BY <2>3, <3>2, <3>3, <3>4 DEF Single
    <2>6. heard[b] > 0
      BY <2>2
    <2>. QED BY <2>1, <2>2, <2>4, <2>5, <2>6 DEF PlacesInv, Stored
  <1>5. CASE TakeBlock
    <2>0. PICK b : b = Head(queue)
      OBVIOUS
    <2>1. /\ queue # <<>> /\ queue' = Tail(queue) /\ pc["saver"] = "recv"
          /\ UNCHANGED <<made, heard, pending, next, built>>
      BY <1>5 DEF TakeBlock
    <2>2. pc'["saver"] = "txs" /\ pc'["main"] = pc["main"] /\ blk'["saver"] = b
      BY <1>5, <2>0 DEF TakeBlock, Goto, GoType
    <2>3. /\ \A c : (Queued(c)' => Queued(c)) /\ (Once(c) => Once(c)')
          /\ Queued(b) /\ (Once(b) => ~Queued(b)')
      BY <2>0, <2>1, TailOnce DEF QueueType
    <2>4. ASSUME NEW c \in DOMAIN made, c # b PROVE (Single(c) => Single(c)') /\ (Nowhere(c) => Nowhere(c)')
      <3>1. Stays(c)
        BY <2>1, <2>2, <2>3, <2>4 DEF Stays, Waits, Held, Sends, Stored
      <3>. QED BY <2>3, <3>1, StaysSingle, StaysNowhere DEF Single
    <2>5. ASSUME Single(b) PROVE Single(b)'
      <3>1. /\ ~Waits(b) /\ b \notin Stored /\ Once(b) /\ \A a \in Actors : ~Sends(a, b)
        BY <2>3, <2>5 DEF Single
      <3>2. ~Waits(b)' /\ b \notin Stored' /\ ~Queued(b)' /\ Once(b)' /\ \A a \in Actors : ~Sends(a, b)'
        BY <2>1, <2>2, <2>3, <3>1 DEF Waits, Sends, Stored
      <3>. QED BY <3>2 DEF Single
    <2>6. ~Nowhere(b)
      BY <2>3 DEF Nowhere
    <2>7. pc'["main"] \notin {"sync", "deep", "fetch"}
      BY <2>2 DEF PlacesInv
    <2>. QED BY <2>1, <2>4, <2>5, <2>6, <2>7, PlacesKept
  <1>6. CASE SaveTxs \/ LinkPrevious \/ RaiseHighest
    <2>1. /\ UNCHANGED <<made, heard, queue, pending, blk, built>> /\ Stored' = Stored
      BY <1>6 DEF SaveTxs, LinkPrevious, RaiseHighest, Linked, Stored, DbType
    <2>2. /\ pc'["main"] = pc["main"] /\ pc'["saver"] # "send"
          /\ pc'["saver"] \in {"link", "save"} => pc["saver"] \in {"txs", "link"}
          /\ pc'["saver"] # "txs"
      BY <1>6 DEF SaveTxs, LinkPrevious, RaiseHighest, AfterMissing, Goto, GoType
    <2>3. \A b \in DOMAIN made : Stays(b)
      BY <2>1, <2>2 DEF Stays, Waits, Queued, Held, Sends
    <2>. QED BY <1>1, <2>1, <2>2, <2>3 DEF PlacesInv
  <1>7. CASE SaveBlock
    <2>0. PICK b : b = blk["saver"]
      OBVIOUS
    <2>1. /\ UNCHANGED <<made, heard, queue, pending, blk, built>> /\ Stored' = Stored \cup {b}
          /\ pc["saver"] = "save"
      BY <1>7, <2>0 DEF SaveBlock, Put, Stored
    <2>2. pc'["main"] = pc["main"] /\ pc'["saver"] = "check"
      BY <1>7 DEF SaveBlock, Goto, GoType
    <2>3. \A c : Once(c) => Once(c)'
      BY <2>1 DEF Once
    <2>4. ASSUME NEW c \in DOMAIN made, c # b PROVE (Single(c) => Single(c)') /\ (Nowhere(c) => Nowhere(c)')
      <3>1. Stays(c)
        BY <2>0, <2>1, <2>2, <2>4 DEF Stays, Waits, Queued, Held, Sends
      <3>. QED BY <2>3, <3>1, StaysSingle, StaysNowhere DEF Single
    <2>5. Held(b)
      BY <2>0, <2>1 DEF Held
    <2>6. ASSUME Single(b) PROVE Single(b)'
      <3>1. ~Waits(b) /\ ~Queued(b) /\ Once(b) /\ \A a \in Actors : ~Sends(a, b)
        BY <2>5, <2>6 DEF Single
      <3>2. ~Waits(b)' /\ ~Queued(b)' /\ Once(b)' /\ ~Held(b)' /\ \A a \in Actors : ~Sends(a, b)'
        BY <2>1, <2>2, <2>3, <3>1 DEF Waits, Queued, Sends, Held
      <3>. QED BY <3>2 DEF Single
    <2>7. ~Nowhere(b) /\ pc'["main"] \notin {"sync", "deep", "fetch"}
      BY <2>2, <2>5 DEF Nowhere, PlacesInv
    <2>. QED BY <2>1, <2>4, <2>6, <2>7, PlacesKept
  <1>8. ASSUME NEW a \in Actors, CheckHeight(a) \/ InsertBlock(a) \/ SkipMining(a) PROVE PlacesInv'
    <2>1. UNCHANGED <<made, heard, queue, pending, blk, built, next>>
      BY <1>8 DEF CheckHeight, InsertBlock, SkipMining
    <2>2. /\ pc'[a] \in {"insert", "mine", "after"} /\ \A c \in Actors : c # a => pc'[c] = pc[c]
      BY <1>8 DEF CheckHeight, InsertBlock, SkipMining, Goto, GoType
    <2>3. \A b \in DOMAIN made : Stays(b)
      BY <2>1, <2>2 DEF Stays, Waits, Queued, Held, Sends, Stored
    <2>4. pc'["main"] \notin {"sync", "deep", "fetch"}
      BY <2>2 DEF PlacesInv
    <2>. QED BY <1>1, <2>1, <2>3, <2>4
  <1>9. ASSUME NEW a \in Actors, BuildBlockForPOW(a) PROVE PlacesInv'
    <2>0. PICK n : n = Len(made) + 1
      OBVIOUS
    <2>1. PICK d \in SUBSET Txs : made' = Append(made, NewBlock(Last(chain), TRUE, pool \cup d))
      BY <1>9 DEF BuildBlockForPOW
    <2>11. PICK x \in BlockType : made' = Append(made, x) /\ x = NewBlock(Last(chain), TRUE, pool \cup d)
      <3>1. Last(chain) \in DOMAIN made
        BY <1>9, LastType DEF BuildBlockForPOW, Control, MemType
      <3>. QED BY <2>1, <3>1, NewBlockType DEF MemType
    <2>2. /\ DOMAIN made' = DOMAIN made \cup {n} /\ n \notin DOMAIN made /\ n # 0
          /\ made'[n] = x
      <3>1. Len(made) < MaxBlocks
        BY <1>9 DEF BuildBlockForPOW, Mines
      <3>2. /\ made' \in Seq(BlockType) /\ Len(made') = Len(made) + 1
            /\ made'[Len(made) + 1] = x
        BY <2>11, <3>1, Grown
      <3>3. Len(made) \in Nat /\ DOMAIN made = 1..Len(made) /\ DOMAIN made' = 1..Len(made) + 1
        BY <3>2 DEF NetType
      <3>. QED BY <2>0, <3>2, <3>3
    <2>3. made'[n].own
      BY <2>2, <2>11 DEF NewBlock
    <2>4. UNCHANGED <<heard, queue, pending, blk, next>> /\ pc[a] = "mine"
      BY <1>9 DEF BuildBlockForPOW
    <2>5. /\ built'[a] = n /\ pc'[a] = "send"
          /\ \A c \in Actors : c # a => pc'[c] = pc[c] /\ built'[c] = built[c]
      BY <1>9, <2>0 DEF BuildBlockForPOW, Goto, GoType
    <2>6. \A b : Once(b) => Once(b)'
      BY <2>4 DEF Once
    <2>7. ASSUME NEW b \in DOMAIN made PROVE (Single(b) => Single(b)') /\ (Nowhere(b) => Nowhere(b)')
      <3>1. Stays(b)
        BY <2>2, <2>4, <2>5 DEF Stays, Waits, Queued, Held, Sends, Stored
      <3>. QED BY <2>6, <3>1, StaysSingle, StaysNowhere DEF Single
    <2>8. Single(n)'
      <3>1. Nowhere(n) /\ Single(n)
        BY <2>2, NewNowhere, NowhereSingle
      <3>2. ~Waits(n)' /\ ~Queued(n)' /\ ~Held(n)' /\ n \notin Stored' /\ Once(n)'
        BY <2>4, <2>5, <2>6, <3>1 DEF Nowhere, Single, Waits, Queued, Held, Stored
      <3>3. \A c \in Actors : Sends(c, n)' => c = a
        BY <2>5, <3>1 DEF Nowhere, Sends
      <3>. QED BY <3>2, <3>3 DEF Single
    <2>9. pc'["main"] \notin {"sync", "deep", "fetch"}
      BY <2>5 DEF PlacesInv
    <2>. QED BY <2>2, <2>3, <2>4, <2>7, <2>8, <2>9 DEF PlacesInv, Grows, Stored
  <1>10. ASSUME NEW a \in Actors, SendOwn(a) PROVE PlacesInv'
    <2>0. PICK b : b = built[a]
      OBVIOUS
    <2>1. /\ queue' = Append(queue, b) /\ pc[a] = "send"
          /\ UNCHANGED <<made, heard, pending, next, blk, built>>
      BY <1>10, <2>0 DEF SendOwn
    <2>2. b \in DOMAIN made
      BY <2>0, <2>1, InHand
    <2>3. /\ \A c : c # b => (Queued(c)' => Queued(c)) /\ (Once(c) => Once(c)')
          /\ Queued(b)' /\ (~Queued(b) => Once(b)')
      BY <2>1, <2>2, AppendOnce DEF QueueType
    <2>4. pc'[a] = "after" /\ \A c \in Actors : c # a => pc'[c] = pc[c]
      BY <1>10 DEF SendOwn, Goto, GoType
    <2>5. ASSUME NEW c \in DOMAIN made, c # b PROVE (Single(c) => Single(c)') /\ (Nowhere(c) => Nowhere(c)')
      <3>1. Stays(c) /\ (Once(c) => Once(c)')
        BY <2>0, <2>1, <2>3, <2>4, <2>5 DEF Stays, Waits, Held, Sends, Stored
      <3>. QED BY <3>1, StaysSingle, StaysNowhere DEF Single
    <2>6. Sends(a, b) /\ ~Nowhere(b)
      BY <2>0, <2>1 DEF Sends, Nowhere
    <2>7. ASSUME Single(b) PROVE Single(b)'
      <3>1. /\ ~Waits(b) /\ ~Queued(b) /\ ~Held(b) /\ b \notin Stored
            /\ \A c \in Actors : Sends(c, b) => c = a
        BY <2>6, <2>7 DEF Single
      <3>2. ~Waits(b)' /\ ~Held(b)' /\ b \notin Stored' /\ \A c \in Actors : ~Sends(c, b)'
        BY <2>1, <2>4, <3>1 DEF Waits, Held, Sends, Stored
      <3>. QED BY <2>3, <3>1, <3>2 DEF Single
    <2>8. pc'["main"] \notin {"sync", "deep", "fetch"}
      BY <2>4 DEF PlacesInv
    <2>. QED BY <2>1, <2>5, <2>6, <2>7, <2>8, PlacesKept
  <1>11. CASE Main
    <2>1. LoadFirst \/ AddedFirst \/ LoadNext
      BY <1>11 DEF Main, PlacesInv, SyncBlockHead, SyncNext, SyncFetched
    <2>2. UNCHANGED <<made, heard, queue, pending, built, next>> /\ blk'["saver"] = blk["saver"]
      BY <2>1 DEF LoadFirst, AddedFirst, LoadNext, GoType
    <2>3. pc'["saver"] = pc["saver"] /\ pc'["main"] \in {"done", "check", "next"}
      BY <2>1 DEF LoadFirst, AddedFirst, LoadNext, AfterLoading, Goto, GoType
    <2>4. \A b \in DOMAIN made : Stays(b)
      BY <2>2, <2>3 DEF Stays, Waits, Queued, Held, Sends, Stored
    <2>. QED BY <1>1, <2>2, <2>3, <2>4
  <1>12. CASE \/ \E t \in Txs : PeerTx(t) \/ MulticastTransaction_recv(t) \/ SendToAddress(t)
              \/ UNCHANGED vars
    <2>1. UNCHANGED <<made, heard, queue, pending, goVars, next>>
      BY <1>12 DEF PeerTx, MulticastTransaction_recv, SendToAddress, vars
    <2>2. \A b \in DOMAIN made : Stays(b)
      BY <2>1 DEF Stays, Waits, Queued, Held, Sends, Stored
    <2>. QED BY <1>1, <2>1, <2>2 DEF PlacesInv
  <1>13. CASE Panic \/ Crash
    BY <1>13 DEF Panic, Crash, LoseMemory
  <1>. QED
    BY <1>2, <1>3, <1>4, <1>5, <1>6, <1>7, <1>8, <1>9, <1>10, <1>11, <1>12, <1>13
       DEF Next, Network, Saver, AddBlock

\* Lists only get longer, and nothing is stored: the lists keep what they have.
LEMMA ListKept ==
    ASSUME TypeOK, StoreInv, ListInv, Grows, Stored' = Stored,
           \A b \in Stored : Range(next[b]) \subseteq Range(next'[b]),
           \A b \in DOMAIN made : heard'[b] <= 1 => heard[b] <= 1,
           pc'["saver"] = "save" /\ blk'["saver"] # 1 =>
               \/ pc["saver"] = "save" /\ blk'["saver"] = blk["saver"]
               \/ /\ made'[blk'["saver"]].prev \in Stored
                  /\ blk'["saver"] \in Range(next'[made'[blk'["saver"]].prev])
    PROVE  ListInv'
  <1>1. ASSUME NEW c \in Stored' \ {1}, heard'[made'[c].prev] <= 1
        PROVE  c \in Range(next'[made'[c].prev])
    <2>1. c \in Stored /\ c \in DOMAIN made /\ made'[c] = made[c] /\ made[c].prev \in Stored
      BY DEF TypeOK, DbType, Grows, StoreInv, PrevStored
    <2>2. made[c].prev \in DOMAIN made
      BY <2>1 DEF TypeOK, DbType
    <2>. QED BY <1>1, <2>1, <2>2 DEF ListInv
  <1>2. ASSUME pc'["saver"] = "save", blk'["saver"] # 1, heard'[made'[blk'["saver"]].prev] <= 1
        PROVE  blk'["saver"] \in Range(next'[made'[blk'["saver"]].prev])
    <2>1. CASE pc["saver"] = "save" /\ blk'["saver"] = blk["saver"]
      <3>1. blk["saver"] \in DOMAIN made /\ made[blk["saver"]].prev \in Stored
        BY <1>2, <2>1 DEF StoreInv, HandStored, TypeOK, DbType
      <3>2. made'[blk["saver"]] = made[blk["saver"]] /\ made[blk["saver"]].prev \in DOMAIN made
        BY <3>1 DEF Grows, TypeOK, DbType
      <3>. QED BY <1>2, <2>1, <3>1, <3>2 DEF ListInv
    <2>. QED BY <1>2, <2>1
  <1>. QED BY <1>1, <1>2 DEF ListInv, Range, Stored

LEMMA ListStep ==
    ASSUME TypeOK, Control, StoreInv, ParentHeights, PlacesInv, ListInv, initNode, [Next]_vars, initNode'
    PROVE  ListInv'
  <1>. USE DEF TypeOK, netVars, dbVars, memVars, heightVars, goVars
  <1>0. Grows /\ TypeOK' /\ "saver" \in Actors /\ "main" \in Actors
    BY GrowsStep, TypeStep DEF Actors
  <1>. USE <1>0
  <1>1. ASSUME UNCHANGED <<next, heard>>,
               pc'["saver"] = "save" => pc["saver"] = "save" /\ blk'["saver"] = blk["saver"]
        PROVE  ListInv'
    <2>1. Stored' = Stored /\ \A b \in Stored : Range(next[b]) \subseteq Range(next'[b])
      BY <1>1 DEF Stored
    <2>. QED BY <1>1, <2>1, ListKept
  <1>2. ASSUME NEW b \in DOMAIN made, MulticastBlockHead_recv(b) PROVE ListInv'
    <2>1. UNCHANGED <<next, pc, blk>> /\ heard' = [heard EXCEPT ![b] = @ + 1]
      BY <1>2 DEF MulticastBlockHead_recv
    <2>2. Stored' = Stored /\ \A c \in Stored : Range(next[c]) \subseteq Range(next'[c])
      BY <2>1 DEF Stored
    <2>3. \A c \in DOMAIN made : heard'[c] <= 1 => heard[c] <= 1
      <3>1. \A c \in DOMAIN made : c \in Ids /\ heard[c] \in Nat
        BY HeardType
      <3>2. \A c \in DOMAIN made : heard'[c] = heard[c] \/ heard'[c] = heard[c] + 1
        BY <2>1, <3>1 DEF NetType
      <3>. QED BY <3>1, <3>2
    <2>. QED BY <2>1, <2>2, <2>3, ListKept
  <1>3. CASE LinkPrevious
    <2> DEFINE b == blk["saver"]
               p == made[b].prev
    <2>1. /\ UNCHANGED <<made, heard, blk>> /\ b \in DOMAIN made /\ pc["saver"] = "link"
      BY <1>3, InHand DEF LinkPrevious
    <2>2. CASE ~NeedsPrevious(b) /\ UNCHANGED next
      <3>1. b = 1
        BY <2>1, <2>2, BlockFields DEF NeedsPrevious, StoreInv, Heights, Starts
      <3>. QED BY <2>1, <2>2, <3>1, ListKept DEF Stored
    <2>3. CASE p \in Stored /\ next' = Linked(p, b)
      <3>1. Stored' = Stored /\ next[p] \in Seq(DOMAIN made) /\ next'[p] = Append(next[p], b)
        BY <2>3 DEF Linked, Stored, DbType
      <3>2. Range(next'[p]) = Range(next[p]) \cup {b}
        BY <2>1, <3>1, AppendRange
      <3>3. \A c \in Stored : c # p => next'[c] = next[c]
        BY <2>3 DEF Linked, Stored
      <3>. HIDE DEF p
      <3>4. \A c \in Stored : Range(next[c]) \subseteq Range(next'[c])
        BY <3>2, <3>3
      <3>5. made'[blk'["saver"]].prev = p
        BY <2>1 DEF p
      <3>. QED BY <2>1, <2>3, <3>1, <3>2, <3>4, <3>5, ListKept
    <2>4. CASE pc' = [pc EXCEPT !["saver"] = "recv"] /\ UNCHANGED next
      BY <1>1, <2>1, <2>4 DEF GoType
    <2>. QED BY <1>3, <2>2, <2>3, <2>4 DEF LinkPrevious, AfterMissing, Goto
  <1>4. CASE SaveBlock
    <2> DEFINE b == blk["saver"]
               p == made[b].prev
    <2>1. /\ UNCHANGED <<made, heard, blk>> /\ b \in DOMAIN made /\ pc["saver"] = "save"
          /\ next' = Put(b, <<>>) /\ Stored' = Stored \cup {b}
      BY <1>4, InHand DEF SaveBlock, Put, Stored
    <2>2. pc'["saver"] = "check"
      BY <1>4 DEF SaveBlock, Goto, GoType
    <2>3. heard[b] <= 1 => b \notin Stored
      BY <2>1 DEF PlacesInv, Single, Held
    <2>4. ASSUME NEW c \in Stored' \ {1}, heard[made[c].prev] <= 1
          PROVE  c \in Range(next'[made[c].prev])
      <3>1. c \in DOMAIN made /\ made[c].prev # c
        <4>1. c \in DOMAIN made
          BY <2>1 DEF DbType
        <4>2. made[c].height = made[made[c].prev].height + 1 /\ made[c].height \in Nat
          BY <4>1, BlockFields DEF ParentHeights
        <4>. QED BY <4>1, <4>2
      <3>2. made[c].prev \in Stored /\ c \in Range(next[made[c].prev])
        <4>1. CASE c = b
          BY <2>1, <2>4, <4>1 DEF ListInv, StoreInv, HandStored
        <4>2. CASE c \in Stored
          BY <2>4, <4>2 DEF ListInv, StoreInv, PrevStored
        <4>. QED BY <2>1, <4>1, <4>2
      <3>3. made[c].prev # b
        <4>1. CASE c = b
          BY <3>1, <4>1
        <4>2. CASE c # b
          BY <2>3, <2>4, <3>2
        <4>. QED BY <4>1, <4>2
      <3>4. next'[made[c].prev] = next[made[c].prev]
        BY <2>1, <3>2, <3>3 DEF Put
      <3>. QED BY <3>2, <3>4
    <2>5. \A c \in Stored' \ {1} : heard[made[c].prev] <= 1 => c \in Range(next'[made[c].prev])
      BY <2>4
    <2>. HIDE DEF b, p
    <2>. QED BY <2>1, <2>2, <2>5 DEF ListInv, Range, Stored
  <1>5. CASE TakeBlock \/ SaveTxs \/ RaiseHighest
    <2>1. UNCHANGED <<next, heard>> /\ pc'["saver"] # "save"
      BY <1>5 DEF TakeBlock, SaveTxs, RaiseHighest, Goto, GoType
    <2>. QED BY <1>1, <2>1
  <1>6. CASE Main
    <2>1. LoadFirst \/ AddedFirst \/ LoadNext
      BY <1>6 DEF Main, PlacesInv, SyncBlockHead, SyncNext, SyncFetched
    <2>2. UNCHANGED <<heard, next>> /\ blk'["saver"] = blk["saver"] /\ pc'["saver"] = pc["saver"]
      BY <2>1 DEF LoadFirst, AddedFirst, LoadNext, AfterLoading, Goto, GoType
    <2>. QED BY <1>1, <2>2
  <1>7. ASSUME NEW a \in Actors, AddBlock(a) PROVE ListInv'
    <2>1. UNCHANGED <<heard, next, blk>>
      BY <1>7 DEF AddBlock, CheckHeight, InsertBlock, SkipMining, BuildBlockForPOW, SendOwn
    <2>2. pc'["saver"] = "save" => pc["saver"] = "save"
      BY <1>7 DEF AddBlock, CheckHeight, InsertBlock, SkipMining, BuildBlockForPOW, SendOwn, Goto, GoType
    <2>. QED BY <1>1, <2>1, <2>2
  <1>8. CASE \/ Network /\ ~\E b \in DOMAIN made : MulticastBlockHead_recv(b)
             \/ \E e \in pending : AddBlockHead(e)
             \/ UNCHANGED vars
    BY <1>1, <1>8 DEF Network, PeerBuild, PeerTx, MulticastTransaction_recv, SendToAddress, AddBlockHead, vars
  <1>9. CASE Panic \/ Crash
    BY <1>9 DEF Panic, Crash, LoseMemory
  <1>. QED BY <1>2, <1>3, <1>4, <1>5, <1>6, <1>7, <1>8, <1>9 DEF Next, Network, Saver

\* initNode is only ever lost.
LEMMA InitNodeStep == ASSUME [Next]_vars, initNode' PROVE initNode
  BY DEF Next, Network, Saver, Main, AddBlock, PeerBuild, MulticastBlockHead_recv, PeerTx,
      MulticastTransaction_recv, SendToAddress, AddBlockHead, TakeBlock, SaveTxs, LinkPrevious, SaveBlock,
      RaiseHighest, LoadFirst, AddedFirst, LoadNext, SyncBlockHead, SyncNext, SyncFetched, CheckHeight,
      InsertBlock, SkipMining, BuildBlockForPOW, SendOwn, Panic, Crash, LoseMemory, vars, memVars

\* As long as the first node runs, every stored block whose predecessor was delivered
\* at most once is in its predecessor's Nextblockhash list.
THEOREM AlwaysLinked == Spec => []LinkedFromParent
  <1>1. Init => LinkInv /\ ParentHeights
    BY LinkInit DEF Init, ParentHeights
  <1>2. TypeOK /\ Control /\ StoreInv /\ ParentHeights /\ LinkInv /\ [Next]_vars => LinkInv' /\ ParentHeights'
    BY InitNodeStep, PlacesStep, ListStep, ParentStep DEF LinkInv
  <1>3. LinkInv => LinkedFromParent
    BY DEF LinkInv, ListInv, LinkedFromParent
  <1>. QED BY <1>1, <1>2, <1>3, TypeCorrect, StoreAlways, PTL DEF Spec
=============================================================================
