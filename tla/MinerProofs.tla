----------------------------- MODULE MinerProofs -----------------------------
(***************************************************************************)
(* The miner, for any number of mining threads.                            *)
(*                                                                         *)
(* First, that it is a client of Blockchain: whatever it does, the chain   *)
(* sees calls of addBlock and nothing else, so that every theorem about    *)
(* Blockchain!Spec holds of a chain that is being mined.  Then what it     *)
(* promises itself: the limit of the pool, and a chain at rest after stop. *)
(***************************************************************************)
EXTENDS Spending, BlockchainProofs, FiniteSetTheorems

USE DEF At, In

-----------------------------------------------------------------------------
(* Types of the miner's state.                                             *)

Rewards == {0} \cup {GetBlockSubsidy(n) : n \in Nat}

LoopState ==
    [pc : LoopPCs, prev : Hashes \cup {NullHash}, time : Clock \cup {0},
     reward : Rewards, txs : Seq(Tx), block : Blocks, at : Nat]

\* The blocks the chain is proved about include every block that a miner can
\* build, and the heights every height: it is offered whatever is found.  (The
\* least such set of blocks is the closure of {Genesis} under Candidate.)
Offers ==
    /\ Height = Nat
    /\ \A m \in LoopState, nonce \in 0..MaxNonce : Candidate(m, nonce) \in Block

LoopsTyped ==
    /\ mine \in [Thread -> LoopState]
    /\ \A t \in Thread : mine[t].pc \in {"call", "announce"} => mine[t].block \in Block

PoolTyped ==
    /\ IsFiniteSet(DOMAIN pool)
    /\ \A id \in DOMAIN pool : pool[id] \in Tx /\ TxId(pool[id]) = id

\* Control and the size of the pool.
ControlTyped ==
    /\ mining \in BOOLEAN
    /\ control \in {"idle", "join"}
    /\ threads \subseteq Thread
    /\ Cardinality(DOMAIN pool) <= MAX_MEMPOOL_SIZE

MinerInv == TypeOK /\ LoopsTyped /\ PoolTyped /\ ControlTyped

-----------------------------------------------------------------------------

\* An idle loop has empty locals.
LEMMA LoopType ==
    ASSUME NEW pc \in LoopPCs
    PROVE  Loop(pc) \in LoopState /\ Loop(pc).pc = pc
BY DEF Loop, LoopState, Rewards, Blocks

\* getBlockTemplate returns the pool's transactions.
LEMMA TemplateType ==
    ASSUME PoolTyped
    PROVE  Template \in Seq(Tx) /\ {TxId(Template[i]) : i \in DOMAIN Template} = DOMAIN pool
<1> DEFINE n == Cardinality(DOMAIN pool)
           rows == [1..n -> {pool[id] : id \in DOMAIN pool}]
<1>1. n \in Nat /\ ExistsBijection(1..n, DOMAIN pool)
  BY FS_CardinalityType DEF PoolTyped
<1>2. PICK f \in [1..n -> DOMAIN pool] : \A id \in DOMAIN pool : \E i \in 1..n : f[i] = id
  BY <1>1 DEF ExistsBijection, Bijection, Surjection
<1> DEFINE row == [i \in 1..n |-> pool[f[i]]]
<1>3. row \in rows
  BY <1>2
<1>4. {TxId(row[i]) : i \in DOMAIN row} = DOMAIN pool
  <2>1. \A i \in 1..n : f[i] \in DOMAIN pool
    BY <1>2
  <2>2. \A i \in 1..n : TxId(row[i]) = f[i]
    BY <2>1 DEF PoolTyped
  <2>3. DOMAIN row = 1..n /\ \A i \in 1..n : TxId(row[i]) \in DOMAIN pool
    BY <2>1, <2>2
  <2>4. \A id \in DOMAIN pool : \E i \in 1..n : TxId(row[i]) = id
    BY <1>2, <2>2
  <2> HIDE DEF n, row
  <2> QED
    BY <2>3, <2>4
<1>5. Template \in rows /\ {TxId(Template[i]) : i \in DOMAIN Template} = DOMAIN pool
  BY <1>3, <1>4 DEF Template
<1>6. {pool[id] : id \in DOMAIN pool} \subseteq Tx
  BY DEF PoolTyped
<1> QED
  BY <1>1, <1>5, <1>6

\* A new miner is typed.
LEMMA InitMiner == MinerInit => MinerInv
<1> SUFFICES ASSUME MinerInit PROVE MinerInv
  OBVIOUS
<1>1. TypeOK
  BY InitType DEF MinerInit
<1>2. LoopsTyped
  BY LoopType DEF MinerInit, LoopsTyped, LoopPCs
<1>3. DOMAIN pool = {}
  BY DEF MinerInit
<1>4. PoolTyped
  BY <1>3, FS_EmptySet DEF PoolTyped
<1>5. ControlTyped
  <2>1. Cardinality(DOMAIN pool) = 0
    BY <1>3, FS_EmptySet
  <2>2. Cardinality(DOMAIN pool) <= MAX_MEMPOOL_SIZE
    BY <2>1, MinerConstants
  <2>3. mining \in BOOLEAN /\ control = "idle" /\ threads = {}
    BY DEF MinerInit
  <2> QED
    BY <2>2, <2>3 DEF ControlTyped
<1> QED
  BY <1>1, <1>2, <1>4, <1>5 DEF MinerInv

\* All the chain sees of a step of the miner is a call of addBlock or a step
\* inside one.
LEMMA ClientStep ==
    ASSUME Offers, MinerInv, [MinerNext]_nodeVars
    PROVE  [Next]_vars
<1>1. ASSUME NEW t \in Thread, CallAddBlock(t) PROVE Next
  <2>1. mine[t].block \in Block /\ mine[t].at \in Height
    BY <1>1 DEF CallAddBlock, MinerInv, LoopsTyped, LoopState, Offers
  <2> QED
    BY <1>1, <2>1 DEF CallAddBlock, Next
<1>2. ASSUME NEW t \in Thread, InsideAddBlock(t) PROVE Next
  BY <1>2 DEF InsideAddBlock, Next
<1>3. ASSUME NEW t \in Thread, MiningStep(t), ~CallAddBlock(t), ~InsideAddBlock(t)
      PROVE  UNCHANGED vars
  BY <1>3 DEF MiningStep, LoadFlag, ReadBest, ReadReward, GetBlockTemplate, MineBlock, Announce
<1>4. ASSUME (\E tx \in Tx : Add(tx)) \/ (\E ts \in SUBSET Thread : Start(ts)) \/ Stop \/ Join
      PROVE  UNCHANGED vars
  BY <1>4 DEF Add, Start, Stop, Join
<1> QED
  BY <1>1, <1>2, <1>3, <1>4 DEF MinerNext, nodeVars

\* A step of a loop that replaces its locals by typed ones, with a block to
\* offer when it is about to, keeps the loops typed.
LEMMA LoopStepType ==
    ASSUME LoopsTyped, NEW t \in Thread, NEW m \in LoopState,
           m.pc \in {"call", "announce"} => m.block \in Block,
           mine' = [mine EXCEPT ![t] = m]
    PROVE  LoopsTyped'
<1>1. mine' \in [Thread -> LoopState]
  BY DEF LoopsTyped
<1>2. mine'[t] = m /\ \A u \in Thread \ {t} : mine'[u] = mine[u]
  BY DEF LoopsTyped
<1> QED
  BY <1>1, <1>2 DEF LoopsTyped

\* Every step keeps the loops typed.
LEMMA StepLoops ==
    ASSUME Offers, MinerInv, [MinerNext]_nodeVars
    PROVE  LoopsTyped'
<1>0. /\ LoopsTyped /\ PoolTyped
      /\ mine \in [Thread -> LoopState]
      /\ height \in Nat /\ bestBlockHash \in Hashes
  BY DEF MinerInv, LoopsTyped, TypeOK
<1>1. ASSUME NEW t \in Thread, NEW pc \in {"off", "loop"}, mine' = [mine EXCEPT ![t] = Loop(pc)]
      PROVE  LoopsTyped'
  <2>1. Loop(pc) \in LoopState /\ Loop(pc).pc = pc
    BY LoopType DEF LoopPCs
  <2> QED
    BY <1>0, <1>1, <2>1, LoopStepType
<1>2. ASSUME UNCHANGED mine PROVE LoopsTyped'
  BY <1>0, <1>2 DEF LoopsTyped
<1>3. ASSUME NEW ts \in SUBSET Thread, Start(ts) PROVE LoopsTyped'
  <2>1. mine' = [t \in Thread |-> IF t \in ts THEN Loop("loop") ELSE mine[t]]
    BY <1>3 DEF Start
  <2>2. Loop("loop") \in LoopState /\ Loop("loop").pc = "loop"
    BY LoopType DEF LoopPCs
  <2>3. \A t \in Thread : mine'[t].pc \in {"call", "announce"} => mine'[t] = mine[t]
    BY <2>1, <2>2
  <2>4. mine' \in [Thread -> LoopState]
    BY <1>0, <2>1, <2>2
  <2> QED
    BY <1>0, <2>3, <2>4 DEF LoopsTyped
<1>4. ASSUME NEW t \in Thread, LoadFlag(t) PROVE LoopsTyped'
  <2>1. CASE mine' = [mine EXCEPT ![t].pc = "best"]
    <3> DEFINE m == [mine[t] EXCEPT !.pc = "best"]
    <3>1. m \in LoopState /\ m.pc = "best" /\ mine' = [mine EXCEPT ![t] = m]
      BY <1>0, <2>1 DEF LoopState, LoopPCs
    <3> HIDE DEF m
    <3> QED
      BY <1>0, <3>1, LoopStepType
  <2> QED
    BY <1>1, <1>4, <2>1 DEF LoadFlag
<1>5. ASSUME NEW t \in Thread, ReadBest(t) PROVE LoopsTyped'
  <2>1. PICK now \in Clock : mine' = [mine EXCEPT ![t].pc = "reward", ![t].prev = bestBlockHash,
                                                 ![t].time = now]
    BY <1>5 DEF ReadBest
  <2> DEFINE m == [mine[t] EXCEPT !.pc = "reward", !.prev = bestBlockHash, !.time = now]
  <2>2. m \in LoopState /\ m.pc = "reward" /\ mine' = [mine EXCEPT ![t] = m]
    BY <1>0, <2>1 DEF LoopState, LoopPCs
  <2> HIDE DEF m
  <2> QED
    BY <1>0, <2>2, LoopStepType
<1>6. ASSUME NEW t \in Thread, ReadReward(t) PROVE LoopsTyped'
  <2> DEFINE reward == GetBlockSubsidy(height + 1)
             m == [mine[t] EXCEPT !.pc = "template", !.reward = reward]
  <2>1. reward \in Rewards
    BY <1>0 DEF Rewards
  <2>2. mine' = [mine EXCEPT ![t].pc = "template", ![t].reward = reward]
    BY <1>6 DEF ReadReward
  <2> HIDE DEF reward
  <2>3. m \in LoopState /\ m.pc = "template" /\ mine' = [mine EXCEPT ![t] = m]
    BY <1>0, <2>1, <2>2 DEF LoopState, LoopPCs
  <2> HIDE DEF m
  <2> QED
    BY <1>0, <2>3, LoopStepType
<1>7. ASSUME NEW t \in Thread, GetBlockTemplate(t) PROVE LoopsTyped'
  <2> DEFINE m == [mine[t] EXCEPT !.pc = "mine", !.txs = Template]
  <2>1. Template \in Seq(Tx)
    BY <1>0, TemplateType
  <2>2. m \in LoopState /\ m.pc = "mine" /\ mine' = [mine EXCEPT ![t] = m]
    BY <1>0, <1>7, <2>1 DEF GetBlockTemplate, LoopState, LoopPCs
  <2> HIDE DEF m
  <2> QED
    BY <1>0, <2>2, LoopStepType
<1>8. ASSUME NEW t \in Thread, MineBlock(t) PROVE LoopsTyped'
  <2>1. CASE mine' = [mine EXCEPT ![t] = Loop("loop")]
    BY <1>1, <2>1
  <2>2. ASSUME NEW n \in 0..MaxNonce,
               mine' = [mine EXCEPT ![t] = [Loop("call") EXCEPT !.block = Candidate(mine[t], n),
                                                                !.at = height + 1]]
        PROVE  LoopsTyped'
    <3> DEFINE b == Candidate(mine[t], n)
               m == [Loop("call") EXCEPT !.block = b, !.at = height + 1]
    <3>1. b \in Block
      BY <1>0 DEF Offers
    <3>2. mine' = [mine EXCEPT ![t] = m]
      BY <2>2
    <3> HIDE DEF b
    <3>3. Loop("call") \in LoopState
      BY LoopType DEF LoopPCs
    <3>4. m \in LoopState /\ m.block = b
      <4>1. b \in Blocks /\ height + 1 \in Nat
        BY <1>0, <3>1 DEF Blocks
      <4> QED
        BY <3>3, <4>1 DEF LoopState
    <3> HIDE DEF m
    <3> QED
      BY <1>0, <3>1, <3>2, <3>4, LoopStepType
  <2> QED
    BY <1>8, <2>1, <2>2 DEF MineBlock
<1>9. ASSUME NEW t \in Thread, CallAddBlock(t) PROVE LoopsTyped'
  <2> DEFINE m == [mine[t] EXCEPT !.pc = "announce"]
  <2>1. /\ m \in LoopState /\ m.block = mine[t].block
        /\ mine' = [mine EXCEPT ![t] = m]
    BY <1>0, <1>9 DEF CallAddBlock, LoopState, LoopPCs
  <2>2. mine[t].block \in Block
    BY <1>0, <1>9 DEF CallAddBlock, LoopsTyped
  <2> HIDE DEF m
  <2> QED
    BY <1>0, <2>1, <2>2, LoopStepType
<1>10. ASSUME NEW t \in Thread, InsideAddBlock(t) PROVE LoopsTyped'
  BY <1>2, <1>10 DEF InsideAddBlock, minerVars
<1>11. ASSUME NEW t \in Thread, Announce(t) PROVE LoopsTyped'
  BY <1>1, <1>11 DEF Announce
<1>12. ASSUME (\E tx \in Tx : Add(tx)) \/ Stop \/ Join \/ UNCHANGED nodeVars PROVE LoopsTyped'
  BY <1>2, <1>12 DEF Add, Stop, Join, nodeVars, minerVars
<1> QED
  BY <1>3, <1>4, <1>5, <1>6, <1>7, <1>8, <1>9, <1>10, <1>11, <1>12 DEF MinerNext, MiningStep

\* Only Add changes the pool, and it looks at the limit first.
LEMMA AddPool ==
    ASSUME PoolTyped, ControlTyped, NEW tx \in Tx, Add(tx)
    PROVE  PoolTyped' /\ Cardinality(DOMAIN pool') <= MAX_MEMPOOL_SIZE
<1> DEFINE id == TxId(tx)
           ids == DOMAIN pool
<1>1. pool' = Assign(pool, id, tx)
  BY DEF Add
<1>2. /\ DOMAIN pool' = ids \cup {id} /\ pool'[id] = tx
      /\ \A k \in ids : k # id => pool'[k] = pool[k]
  <2> HIDE DEF id
  <2> QED
    BY <1>1 DEF Assign
<1>3. IsFiniteSet(ids) /\ Cardinality(ids) \in Nat
  BY FS_CardinalityType DEF PoolTyped
<1>4. /\ IsFiniteSet(ids \cup {id})
      /\ Cardinality(ids \cup {id}) = IF id \in ids THEN Cardinality(ids) ELSE Cardinality(ids) + 1
  BY <1>3, FS_AddElement
<1>5. PoolTyped'
  BY <1>2, <1>4 DEF PoolTyped
<1>6. Cardinality(ids \cup {id}) <= MAX_MEMPOOL_SIZE
  <2>1. CASE id \in ids
    BY <1>4, <2>1 DEF ControlTyped
  <2>2. CASE id \notin ids
    <3>1. Cardinality(ids) < MAX_MEMPOOL_SIZE
      BY <2>2 DEF Add
    <3> HIDE DEF id, ids
    <3> QED
      BY <1>3, <1>4, <2>2, <3>1, MinerConstants
  <2> QED
    BY <2>1, <2>2
<1> QED
  BY <1>2, <1>5, <1>6

\* Every step keeps the miner typed.
LEMMA StepMiner == Offers /\ MinerInv /\ [MinerNext]_nodeVars => MinerInv'
<1> SUFFICES ASSUME Offers, MinerInv, [MinerNext]_nodeVars PROVE MinerInv'
  OBVIOUS
<1>1. TypeOK'
  BY ClientStep, StepType DEF MinerInv
<1>2. LoopsTyped'
  BY StepLoops
<1>3. PoolTyped' /\ Cardinality(DOMAIN pool') <= MAX_MEMPOOL_SIZE
  <2>1. ASSUME NEW tx \in Tx, Add(tx)
        PROVE  PoolTyped' /\ Cardinality(DOMAIN pool') <= MAX_MEMPOOL_SIZE
    BY <2>1, AddPool DEF MinerInv
  <2>2. ASSUME UNCHANGED pool
        PROVE  PoolTyped' /\ Cardinality(DOMAIN pool') <= MAX_MEMPOOL_SIZE
    BY <2>2 DEF MinerInv, PoolTyped, ControlTyped
  <2>3. ASSUME NEW t \in Thread, MiningStep(t)
        PROVE  UNCHANGED pool
    BY <2>3 DEF MiningStep, LoadFlag, ReadBest, ReadReward, GetBlockTemplate, MineBlock,
       CallAddBlock, InsideAddBlock, Announce, minerVars
  <2>4. ASSUME (\E ts \in SUBSET Thread : Start(ts)) \/ Stop \/ Join \/ UNCHANGED nodeVars
        PROVE  UNCHANGED pool
    BY <2>4 DEF Start, Stop, Join, nodeVars, minerVars
  <2> QED
    BY <2>1, <2>2, <2>3, <2>4 DEF MinerNext
<1>4. mining' \in BOOLEAN /\ control' \in {"idle", "join"} /\ threads' \subseteq Thread
  <2>1. mining \in BOOLEAN /\ control \in {"idle", "join"} /\ threads \subseteq Thread
    BY DEF MinerInv, ControlTyped
  <2>2. ASSUME NEW t \in Thread, MiningStep(t)
        PROVE  UNCHANGED <<mining, control, threads>>
    BY <2>2 DEF MiningStep, LoadFlag, ReadBest, ReadReward, GetBlockTemplate, MineBlock,
       CallAddBlock, InsideAddBlock, Announce, minerVars
  <2>3. ASSUME (\E tx \in Tx : Add(tx)) \/ UNCHANGED nodeVars
        PROVE  UNCHANGED <<mining, control, threads>>
    BY <2>3 DEF Add, nodeVars, minerVars
  <2>4. ASSUME NEW ts \in SUBSET Thread, Start(ts)
        PROVE  mining' = TRUE /\ control' = control /\ threads' \subseteq Thread
    BY <2>1, <2>4 DEF Start
  <2>5. CASE Stop
    BY <2>1, <2>5 DEF Stop
  <2>6. CASE Join
    BY <2>1, <2>6 DEF Join
  <2> QED
    BY <2>1, <2>2, <2>3, <2>4, <2>5, <2>6 DEF MinerNext
<1> QED
  BY <1>1, <1>2, <1>3, <1>4 DEF MinerInv, ControlTyped

\* The miner is a client of the chain: what Blockchain's theorems say of any
\* callers holds of a chain that is mined, started and stopped.
THEOREM MinerIsClient == ASSUME Offers PROVE MinerSpec => Spec
<1>1. MinerInv /\ [MinerNext]_nodeVars => MinerInv'
  BY StepMiner
<1>2. MinerInv /\ [MinerNext]_nodeVars => [Next]_vars
  BY ClientStep
<1>3. MinerInit => Init
  BY DEF MinerInit
<1> QED
  BY <1>1, <1>2, <1>3, InitMiner, PTL DEF MinerSpec, Spec

-----------------------------------------------------------------------------
(* stop.                                                                   *)

\* What makes StopIsFinal inductive: a thread that stop would not join has left
\* its loop, a thread is inside addBlock only on behalf of its loop, and stop
\* has forgotten a thread only once it was joined.
StopInv ==
    /\ \A t \in Thread \ threads : In(t, "off")
    /\ \A t \in Thread : ~In(t, "announce") => At(t, "idle")
    /\ control = "idle" /\ ~mining => threads = {}

\* A thread changes its own locals only, in the loop and inside addBlock, and it
\* is in addBlock after the step only if it waits there for the result.
LEMMA OwnLocals ==
    ASSUME MinerInv, StopInv, NEW t \in Thread, MiningStep(t)
    PROVE  /\ \A u \in Thread \ {t} : mine'[u] = mine[u] /\ frame'[u] = frame[u]
           /\ mine[t].pc # "off"
           /\ mine'[t].pc # "announce" => frame'[t].pc = "idle"
           /\ UNCHANGED <<mining, control, threads>>
<1>0. mine \in [Thread -> LoopState] /\ frame \in [Thread -> Frame] /\ TypeOK
  BY DEF MinerInv, LoopsTyped, TypeOK
<1>1. ASSUME NEW m, mine' = [mine EXCEPT ![t] = m]
      PROVE  \A u \in Thread \ {t} : mine'[u] = mine[u]
  BY <1>0, <1>1
<1>2. ASSUME UNCHANGED vars, ~In(t, "announce")
      PROVE  \A u \in Thread : frame'[u] = frame[u] /\ frame'[t].pc = "idle"
  BY <1>2 DEF vars, StopInv
<1>3. CASE LoadFlag(t)
  BY <1>0, <1>2, <1>3 DEF LoadFlag
<1>4. CASE ReadBest(t)
  BY <1>0, <1>2, <1>4 DEF ReadBest
<1>5. CASE ReadReward(t)
  BY <1>0, <1>2, <1>5 DEF ReadReward
<1>6. CASE GetBlockTemplate(t)
  BY <1>0, <1>2, <1>6 DEF GetBlockTemplate
<1>7. CASE MineBlock(t)
  BY <1>0, <1>2, <1>7 DEF MineBlock
<1>8. CASE CallAddBlock(t)
  <2>1. mine'[t].pc = "announce" /\ \A u \in Thread \ {t} : mine'[u] = mine[u]
    BY <1>0, <1>8 DEF CallAddBlock, LoopState
  <2>2. \A u \in Thread \ {t} : frame'[u] = frame[u]
    BY <1>0, <1>8 DEF CallAddBlock, AddBlock, Return
  <2> QED
    BY <1>8, <2>1, <2>2 DEF CallAddBlock
<1>9. CASE InsideAddBlock(t)
  <2>1. \A u \in Thread \ {t} : frame'[u] = frame[u]
    <3>1. CASE Commit(t)
      BY <1>0, <3>1 DEF Commit, Return
    <3>2. CASE ~Commit(t)
      BY <1>0, <1>9, <3>2, InnerStep DEF InsideAddBlock, KeepsCall
    <3> QED
      BY <3>1, <3>2
  <2>2. In(t, "announce")
    BY <1>9 DEF StopInv, InsideAddBlock, Step, ValidateStructure, ReadHeight, ReadPrevBlock,
       ReadFirstBlock, ValidateTransactions, CheckInput, HasInput, SpendInput, PutOutput, Commit
  <2> QED
    BY <1>9, <2>1, <2>2 DEF InsideAddBlock, minerVars
<1>10. CASE Announce(t)
  BY <1>0, <1>10 DEF Announce, vars
<1> QED
  BY <1>3, <1>4, <1>5, <1>6, <1>7, <1>8, <1>9, <1>10 DEF MiningStep

\* A new miner is stopped.
LEMMA InitStop == MinerInit => StopInv
BY DEF MinerInit, Init, StopInv, Loop, IdleFrame

\* Every step keeps it.
LEMMA StepStop == MinerInv /\ StopInv /\ [MinerNext]_nodeVars => StopInv'
<1> SUFFICES ASSUME MinerInv, StopInv, [MinerNext]_nodeVars PROVE StopInv'
  OBVIOUS
<1>1. ASSUME NEW t \in Thread, MiningStep(t) PROVE StopInv'
  BY <1>1, OwnLocals DEF StopInv
<1>2. ASSUME UNCHANGED <<frame, mine>>, UNCHANGED <<mining, control, threads>> PROVE StopInv'
  BY <1>2 DEF StopInv
<1>3. ASSUME (\E tx \in Tx : Add(tx)) \/ UNCHANGED nodeVars PROVE StopInv'
  BY <1>2, <1>3 DEF Add, nodeVars, minerVars, vars
<1>4. ASSUME NEW ts \in SUBSET Thread, Start(ts) PROVE StopInv'
  <2>1. \A t \in Thread : In(t, "off") /\ At(t, "idle")
    BY <1>4 DEF Start, StopInv
  <2>2. \A t \in Thread : mine'[t] = IF t \in ts THEN Loop("loop") ELSE mine[t]
    BY <1>4 DEF Start
  <2>3. threads' = threads \cup ts /\ mining' = TRUE /\ frame' = frame
    BY <1>4 DEF Start, vars
  <2> QED
    BY <2>1, <2>2, <2>3 DEF StopInv
<1>5. CASE Stop
  BY <1>5 DEF Stop, StopInv, vars
<1>6. CASE Join
  BY <1>6 DEF Join, StopInv, vars
<1> QED
  BY <1>1, <1>3, <1>4, <1>5, <1>6 DEF MinerNext

\* MinerTypeOK: the pool never grows over its limit and keeps each transaction
\* under its txid, whatever is submitted and however often; only threads that
\* stop will join are in the loop, and only they are inside addBlock.
THEOREM MinerTypeCorrect == ASSUME Offers PROVE MinerSpec => []MinerTypeOK
<1>1. MinerInv /\ StopInv => MinerTypeOK
  BY DEF MinerInv, LoopsTyped, PoolTyped, ControlTyped, MinerTypeOK, LoopState, StopInv
<1>2. MinerInv /\ [MinerNext]_nodeVars => MinerInv'
  BY StepMiner
<1> QED
  BY <1>1, <1>2, InitMiner, InitStop, StepStop, PTL DEF MinerSpec

\* StopIsFinal: when stop has returned, no thread is in its loop or between two
\* steps of addBlock, however often the miner was started before.
THEOREM StopLeavesNobody == ASSUME Offers PROVE MinerSpec => []StopIsFinal
<1>1. MinerInv /\ StopInv => StopIsFinal
  BY DEF StopInv, StopIsFinal, LoopsTyped, MinerInv, LoopState
<1>2. MinerInv /\ [MinerNext]_nodeVars => MinerInv'
  BY StepMiner
<1> QED
  BY <1>1, <1>2, InitMiner, InitStop, StepStop, PTL DEF MinerSpec

-----------------------------------------------------------------------------
(* Two mining threads.                                                     *)
(*                                                                         *)
(* A thread reads the hash it builds upon, the height of the reward and    *)
(* the height for addBlock at three moments.  With one other thread the    *)
(* tip can go back only once in between, by a block that the other offered *)
(* before (a commit that comes late), and then it never again is the block *)
(* that the first one builds upon.  With two others it can be: neither     *)
(* property holds for three threads.                                       *)

TwoThreads == \A t, u, v \in Thread : t = u \/ u = v \/ t = v

\* makeGenesisBlock pays the subsidy of height 0.
GenesisPays == Genesis.txs[1].outputs[1].amount = GetBlockSubsidy(0)

Pays(block, n) == block.txs[1].outputs[1].amount = GetBlockSubsidy(n)

InCall(t) == ~At(t, "idle")

\* From reading the tip to offering a block on it.
Building(t) == mine[t].pc \in {"reward", "template", "mine", "call"}

Basis(t) == IF In(t, "call") THEN mine[t].block.prev ELSE mine[t].prev

Reward(t) ==
    IF In(t, "call") THEN mine[t].block.txs[1].outputs[1].amount ELSE mine[t].reward

\* The tip is what a thread builds upon, if the other one is offering that block
\* again; so the tip cannot come back to it at another height.
BasisStays ==
    \A t \in Thread : Building(t) =>
        /\ \E a \in accepted : a[1] = Basis(t)
        /\ \A u \in Thread \ {t} :
              InCall(u) /\ BlockHash(frame[u].block) = Basis(t) => bestBlockHash = Basis(t)

\* A reward that does not fit the tip comes with a hash that does not either.
RewardFits ==
    /\ \A t \in Thread : Building(t) /\ ~In(t, "reward") /\ Basis(t) = bestBlockHash
          => Reward(t) = GetBlockSubsidy(height + 1)
    /\ \A t \in Thread : InCall(t) => Pays(frame[t].block, frame[t].at)
    /\ RewardIsSubsidy

BasisInv == MinerInv /\ StopInv /\ DepthInv /\ BasisStays

RewardInv == BasisInv /\ RewardFits

\* Something was built on the block with this hash.
HasChild(hash) == \E a \in accepted : a[2] > 0 /\ blockCache[a[1]].prev = hash

\* A late commit cannot set the tip back below a block that has a child.
ChildrenHold ==
    /\ \A t \in Thread : InCall(t) =>
          /\ HasChild(BlockHash(frame[t].block)) => height >= frame[t].at
          /\ HasChild(bestBlockHash) => frame[t].at > height
    /\ \A t, u \in Thread : t # u /\ InCall(t) /\ InCall(u) =>
          (HasChild(BlockHash(frame[t].block)) => frame[u].at > frame[t].at)

\* Once there is, or may be, a child of the block that a thread builds upon, the
\* tip stays at least as high as that block.
BasisHolds ==
    \A t \in Thread : Building(t) =>
        \A a \in accepted : a[1] = Basis(t) =>
            /\ HasChild(a[1]) => height >= a[2]
            /\ \A u \in Thread \ {t} :
                  InCall(u) /\ (HasChild(a[1]) \/ frame[u].block.prev = a[1])
                     => height >= a[2] /\ frame[u].at > a[2]

\* A height that was read too low belongs to a block nobody else can offer.
LowIsAlone ==
    \A t \in Thread : In(t, "call") =>
        \A a \in accepted : a[1] = Basis(t) /\ mine[t].at <= a[2] =>
            /\ ~HasChild(a[1])
            /\ bestBlockHash # a[1]
            /\ \A u \in Thread \ {t} : InCall(u) => frame[u].block.prev # a[1]

\* The result of addBlock is about the block and the height it was called with.
ResultsTrue ==
    \A t \in Thread : In(t, "announce") =>
        IF InCall(t)
        THEN frame[t].block = mine[t].block /\ frame[t].at = mine[t].at
        ELSE frame[t].result =>
                \E a \in accepted : a[1] = BlockHash(mine[t].block) /\ a[2] <= mine[t].at

CachedIsAccepted == \A h \in DOMAIN blockCache : \E a \in accepted : a[1] = h

AnnounceInv ==
    /\ BasisInv /\ CachedIsAccepted
    /\ ChildrenHold /\ BasisHolds /\ LowIsAlone /\ ResultsTrue
    /\ AnnouncedIsAccepted

\* The steps of a loop that touch nothing of the chain.
LoopStep(t) ==
    \/ LoadFlag(t)
    \/ ReadBest(t)
    \/ ReadReward(t)
    \/ GetBlockTemplate(t)
    \/ MineBlock(t)
    \/ Announce(t)

\* What they do to the thread's basis and reward.
LEMMA LoopEffect ==
    ASSUME MinerInv, NEW t \in Thread, LoopStep(t)
    PROVE  /\ UNCHANGED vars
           /\ \A u \in Thread \ {t} : mine'[u] = mine[u]
           /\ \/ mine'[t].pc \in {"off", "loop", "best"}
              \/ mine'[t].pc = "reward" /\ mine'[t].prev = bestBlockHash
              \/ /\ mine[t].pc = "reward" /\ mine'[t].pc = "template"
                 /\ mine'[t].prev = mine[t].prev
                 /\ mine'[t].reward = GetBlockSubsidy(height + 1)
              \/ /\ mine[t].pc = "template" /\ mine'[t].pc = "mine"
                 /\ mine'[t].prev = mine[t].prev /\ mine'[t].reward = mine[t].reward
              \/ /\ mine[t].pc = "mine" /\ mine'[t].pc = "call"
                 /\ mine'[t].block.prev = mine[t].prev
                 /\ mine'[t].block.txs[1].outputs[1].amount = mine[t].reward
                 /\ mine'[t].at = height + 1
<1>0. mine \in [Thread -> LoopState]
  BY DEF MinerInv, LoopsTyped
<1>1. UNCHANGED vars
  BY DEF LoopStep, LoadFlag, ReadBest, ReadReward, GetBlockTemplate, MineBlock, Announce
<1>2. \A u \in Thread \ {t} : mine'[u] = mine[u]
  BY <1>0 DEF LoopStep, LoadFlag, ReadBest, ReadReward, GetBlockTemplate, MineBlock, Announce
<1>3. CASE LoadFlag(t)
  <2>1. mine'[t].pc \in {"off", "best"}
    BY <1>0, <1>3 DEF LoadFlag, Loop, LoopState
  <2> QED
    BY <1>1, <1>2, <2>1
<1>4. CASE ReadBest(t)
  <2>1. mine'[t].pc = "reward" /\ mine'[t].prev = bestBlockHash
    BY <1>0, <1>4 DEF ReadBest, LoopState
  <2> QED
    BY <1>1, <1>2, <2>1
<1>5. CASE ReadReward(t)
  <2> DEFINE reward == GetBlockSubsidy(height + 1)
  <2>1. /\ mine[t].pc = "reward"
        /\ mine' = [mine EXCEPT ![t].pc = "template", ![t].reward = reward]
    BY <1>5 DEF ReadReward
  <2> HIDE DEF reward
  <2>2. /\ mine'[t].pc = "template" /\ mine'[t].prev = mine[t].prev
        /\ mine'[t].reward = reward
    BY <1>0, <2>1 DEF LoopState
  <2> QED
    BY <1>1, <1>2, <2>1, <2>2 DEF reward
<1>6. CASE GetBlockTemplate(t)
  <2>1. /\ mine[t].pc = "template" /\ mine'[t].pc = "mine"
        /\ mine'[t].prev = mine[t].prev /\ mine'[t].reward = mine[t].reward
    BY <1>0, <1>6 DEF GetBlockTemplate, LoopState
  <2> QED
    BY <1>1, <1>2, <2>1
<1>7. CASE MineBlock(t)
  <2>1. CASE mine' = [mine EXCEPT ![t] = Loop("loop")]
    <3>1. mine'[t].pc = "loop"
      BY <1>0, <2>1 DEF Loop
    <3> QED
      BY <1>1, <1>2, <3>1
  <2>2. ASSUME NEW n,
               mine' = [mine EXCEPT ![t] = [Loop("call") EXCEPT !.block = Candidate(mine[t], n),
                                                                !.at = height + 1]]
        PROVE  /\ mine'[t].pc = "call"
               /\ mine'[t].block.prev = mine[t].prev
               /\ mine'[t].block.txs[1].outputs[1].amount = mine[t].reward
               /\ mine'[t].at = height + 1
    <3> DEFINE b == Candidate(mine[t], n)
    <3>1. mine'[t].pc = "call" /\ mine'[t].block = b /\ mine'[t].at = height + 1
      BY <1>0, <2>2 DEF Loop
    <3>2. b.prev = mine[t].prev /\ b.txs = <<Coinbase(mine[t].reward)>> \o mine[t].txs
      BY DEF Candidate
    <3>3. b.txs[1] = Coinbase(mine[t].reward)
      <4>1. mine[t].txs \in Seq(Tx)
        BY <1>0 DEF LoopState
      <4> DEFINE first == Coinbase(mine[t].reward)
                 rest == mine[t].txs
      <4>2. b.txs = <<first>> \o rest /\ rest \in Seq(Tx)
        BY <3>2, <4>1
      <4> HIDE DEF first, rest, b
      <4>3. b.txs[1] = first
        BY <4>2
      <4> QED
        BY <4>3 DEF first
    <3>4. Coinbase(mine[t].reward).outputs[1].amount = mine[t].reward
      BY DEF Coinbase
    <3> QED
      BY <3>1, <3>2, <3>3, <3>4
  <2> QED
    BY <1>1, <1>2, <1>7, <2>1, <2>2 DEF MineBlock
<1>8. CASE Announce(t)
  <2>1. mine'[t].pc = "loop"
    BY <1>0, <1>8 DEF Announce, Loop
  <2> QED
    BY <1>1, <1>2, <2>1
<1> QED
  BY <1>3, <1>4, <1>5, <1>6, <1>7, <1>8 DEF LoopStep

\* What a call of addBlock does until it gives up its first lock.
LEMMA CallEffect ==
    ASSUME MinerInv, NEW t \in Thread, CallAddBlock(t)
    PROVE  /\ UNCHANGED <<chainVars, accepted, announced>>
           /\ \A u \in Thread \ {t} : mine'[u] = mine[u] /\ frame'[u] = frame[u]
           /\ mine[t].pc = "call" /\ frame[t].pc = "idle" /\ mine'[t].pc = "announce"
           /\ mine'[t].block = mine[t].block /\ mine'[t].at = mine[t].at
           /\ \/ /\ frame'[t].pc = "idle"
                 /\ frame'[t].result => BlockHash(mine[t].block) \in DOMAIN blockCache
              \/ /\ frame'[t].pc # "idle"
                 /\ frame'[t].block = mine[t].block /\ frame'[t].at = mine[t].at
                 /\ mine[t].at = height + 1 /\ mine[t].block.prev = bestBlockHash
                 /\ BlockHash(mine[t].block) \notin DOMAIN blockCache
<1>0. mine \in [Thread -> LoopState] /\ frame \in [Thread -> Frame]
  BY DEF MinerInv, LoopsTyped, TypeOK
<1> DEFINE b == mine[t].block
           n == mine[t].at
<1>1. /\ mine[t].pc = "call" /\ AddBlock(t, b, n)
      /\ mine' = [mine EXCEPT ![t].pc = "announce"] /\ announced' = announced
  BY DEF CallAddBlock
<1>2. /\ \A u \in Thread \ {t} : mine'[u] = mine[u]
      /\ mine'[t].pc = "announce" /\ mine'[t].block = b /\ mine'[t].at = n
  BY <1>0, <1>1 DEF LoopState
<1>3. frame[t].pc = "idle" /\ UNCHANGED <<chainVars, accepted>>
  BY <1>1 DEF AddBlock, historyVars
<1> HIDE DEF b, n
<1>4. CASE BlockHash(b) \in DOMAIN blockCache /\ Return(t, TRUE)
  <2>1. frame'[t].pc = "idle" /\ \A u \in Thread \ {t} : frame'[u] = frame[u]
    BY <1>0, <1>4 DEF Return, IdleFrame
  <2> QED
    BY <1>1, <1>2, <1>3, <1>4, <2>1 DEF b, n
<1>5. CASE Return(t, FALSE)
  <2>1. /\ frame'[t].pc = "idle" /\ ~frame'[t].result
        /\ \A u \in Thread \ {t} : frame'[u] = frame[u]
    BY <1>0, <1>5 DEF Return, IdleFrame
  <2> QED
    BY <1>1, <1>2, <1>3, <2>1 DEF b, n
<1>6. CASE /\ frame' = [frame EXCEPT ![t].pc = "structure", ![t].block = b, ![t].at = n]
           /\ BlockHash(b) \notin DOMAIN blockCache
           /\ n = height + 1 /\ b.prev = bestBlockHash
  <2>1. /\ frame'[t].pc = "structure" /\ frame'[t].block = b /\ frame'[t].at = n
        /\ \A u \in Thread \ {t} : frame'[u] = frame[u]
    BY <1>0, <1>6 DEF Frame
  <2> QED
    BY <1>1, <1>2, <1>3, <1>6, <2>1 DEF b, n
<1> QED
  BY <1>1, <1>4, <1>5, <1>6 DEF AddBlock

\* A step inside addBlock before its commit refuses the block or goes on with it.
LEMMA InsideEffect ==
    ASSUME MinerInv, StopInv, NEW t \in Thread, InsideAddBlock(t), ~Commit(t)
    PROVE  /\ UNCHANGED <<chainVars, accepted, mine, announced>>
           /\ \A u \in Thread \ {t} : frame'[u] = frame[u]
           /\ mine[t].pc = "announce" /\ frame[t].pc # "idle"
           /\ \/ frame'[t].pc = "idle" /\ ~frame'[t].result
              \/ /\ frame'[t].pc # "idle"
                 /\ frame'[t].block = frame[t].block /\ frame'[t].at = frame[t].at
<1>0. TypeOK /\ frame \in [Thread -> Frame]
  BY DEF MinerInv, TypeOK
<1>1. KeepsCall(t) /\ UNCHANGED minerVars
  BY <1>0, InnerStep DEF InsideAddBlock
<1>2. mine[t].pc = "announce"
  BY <1>1 DEF KeepsCall, StopInv
<1>3. frame'[t].pc = "idle" => ~frame'[t].result
  <2>1. CASE Return(t, FALSE)
    BY <1>0, <2>1 DEF Return, IdleFrame
  <2>2. ASSUME NEW pc, NEW todo, pc # "idle", Goto(t, pc) \/ GotoWith(t, pc, todo)
        PROVE  frame'[t].pc # "idle"
    BY <1>0, <2>2 DEF Goto, GotoWith, Frame
  <2>3. CASE ReadHeight(t)
    BY <1>0, <2>2, <2>3 DEF ReadHeight, Frame
  <2>4. CASE ReadPrevBlock(t)
    <3>1. CASE Goto(t, "txs") \/ Return(t, FALSE)
      BY <2>1, <2>2, <3>1
    <3>2. ASSUME NEW b, frame' = [frame EXCEPT ![t].pc = "first", ![t].prev = b]
          PROVE  frame'[t].pc # "idle"
      BY <1>0, <3>2 DEF Frame
    <3>3. \/ Goto(t, "txs") \/ Return(t, FALSE)
          \/ frame' = [frame EXCEPT ![t].pc = "first", ![t].prev = BlockAt(frame[t].tip)]
      BY <2>4 DEF ReadPrevBlock
    <3> QED
      BY <3>1, <3>2, <3>3
  <2>5. CASE ValidateStructure(t)
    <3>1. Goto(t, "height") \/ Return(t, FALSE)
      BY <2>5 DEF ValidateStructure
    <3> QED
      BY <2>1, <2>2, <3>1
  <2>9. CASE ReadFirstBlock(t)
    BY <2>1, <2>2, <2>9 DEF ReadFirstBlock
  <2>10. CASE ValidateTransactions(t)
    BY <2>1, <2>2, <2>10 DEF ValidateTransactions
  <2>6. CASE CheckInput(t)
    BY <2>1, <2>2, <2>6 DEF CheckInput
  <2>7. CASE HasInput(t)
    BY <2>1, <2>2, <2>7 DEF HasInput
  <2>8. CASE SpendInput(t) \/ PutOutput(t)
    BY <2>1, <2>2, <2>8 DEF SpendInput, PutOutput
  <2> QED
    BY <2>3, <2>4, <2>5, <2>6, <2>7, <2>8, <2>9, <2>10 DEF InsideAddBlock, Step
<1> QED
  BY <1>1, <1>2, <1>3 DEF KeepsCall, minerVars, historyVars

\* A commit makes its block the tip, and the call returns true.
LEMMA CommitEffect ==
    ASSUME MinerInv, StopInv, NEW t \in Thread, InsideAddBlock(t), Commit(t)
    PROVE  /\ UNCHANGED <<mine, announced>>
           /\ \A u \in Thread \ {t} : frame'[u] = frame[u]
           /\ mine[t].pc = "announce" /\ frame[t].pc # "idle" /\ frame'[t].pc = "idle"
           /\ frame[t].at \in Nat /\ height' = frame[t].at
           /\ bestBlockHash' = BlockHash(frame[t].block)
           /\ accepted' = accepted \cup {<<bestBlockHash', height'>>}
           /\ DOMAIN blockCache' = DOMAIN blockCache \cup {bestBlockHash'}
           /\ blockCache'[bestBlockHash'] = frame[t].block
           /\ \A h \in DOMAIN blockCache : h # bestBlockHash' => blockCache'[h] = blockCache[h]
<1>0. frame \in [Thread -> Frame]
  BY DEF MinerInv, TypeOK
<1> DEFINE b == frame[t].block
           hash == BlockHash(b)
<1>1. /\ frame[t].pc = "put" /\ Return(t, TRUE) /\ height' = frame[t].at
      /\ bestBlockHash' = hash /\ blockCache' = Assign(blockCache, hash, b)
      /\ accepted' = accepted \cup {<<hash, frame[t].at>>}
  BY DEF Commit
<1>2. UNCHANGED <<mine, announced>>
  BY DEF InsideAddBlock, minerVars
<1>3. mine[t].pc = "announce"
  BY <1>1 DEF StopInv
<1>4. frame[t].at \in Nat
  BY <1>0 DEF Frame
<1>5. frame'[t].pc = "idle" /\ \A u \in Thread \ {t} : frame'[u] = frame[u]
  BY <1>0, <1>1 DEF Return, IdleFrame
<1> HIDE DEF hash, b
<1>6. /\ DOMAIN blockCache' = DOMAIN blockCache \cup {hash}
      /\ blockCache'[hash] = b
      /\ \A h \in DOMAIN blockCache : h # hash => blockCache'[h] = blockCache[h]
  BY <1>1 DEF Assign
<1> QED
  BY <1>1, <1>2, <1>3, <1>4, <1>5, <1>6 DEF hash, b

\* A step of a loop leaves what a thread builds upon as it was, or it reads the
\* tip; rewards and heights are read off the tip too.
LEMMA BasisEffect ==
    ASSUME MinerInv, NEW t \in Thread, LoopStep(t), NEW w \in Thread, Building(w)'
    PROVE  \/ mine'[w].pc = "reward" /\ Basis(w)' = bestBlockHash
           \/ /\ Building(w) /\ Basis(w)' = Basis(w)
              /\ mine'[w].pc # "reward" =>
                    \/ Reward(w)' = GetBlockSubsidy(height + 1)
                    \/ ~In(w, "reward") /\ Reward(w)' = Reward(w)
              /\ mine'[w].pc = "call" =>
                    \/ mine'[w].at = height + 1
                    \/ In(w, "call") /\ mine'[w].at = mine[w].at
<1>1. CASE w # t
  <2>1. mine'[w] = mine[w]
    BY <1>1, LoopEffect
  <2> QED
    BY <2>1 DEF Building, Basis, Reward
<1>2. CASE w = t
  <2>1. \/ mine'[t].pc = "reward" /\ mine'[t].prev = bestBlockHash
        \/ /\ mine[t].pc = "reward" /\ mine'[t].pc = "template"
           /\ mine'[t].prev = mine[t].prev
           /\ mine'[t].reward = GetBlockSubsidy(height + 1)
        \/ /\ mine[t].pc = "template" /\ mine'[t].pc = "mine"
           /\ mine'[t].prev = mine[t].prev /\ mine'[t].reward = mine[t].reward
        \/ /\ mine[t].pc = "mine" /\ mine'[t].pc = "call"
           /\ mine'[t].block.prev = mine[t].prev
           /\ mine'[t].block.txs[1].outputs[1].amount = mine[t].reward
           /\ mine'[t].at = height + 1
    BY <1>2, LoopEffect DEF Building
  <2> QED
    BY <1>2, <2>1 DEF Building, Basis, Reward
<1> QED
  BY <1>1, <1>2

\* Whatever happens, it is one of five things: no locals change but those of a
\* loop that is reset, or a thread takes a step.
LEMMA MinerSteps ==
    ASSUME MinerInv, StopInv, [MinerNext]_nodeVars
    PROVE  \/ /\ UNCHANGED <<vars, announced>>
              /\ \A t \in Thread : mine'[t] = mine[t] \/ mine'[t].pc = "loop"
           \/ \E t \in Thread : LoopStep(t)
           \/ \E t \in Thread : CallAddBlock(t)
           \/ \E t \in Thread : InsideAddBlock(t)
<1>1. ASSUME NEW ts \in SUBSET Thread, Start(ts)
      PROVE  /\ UNCHANGED <<vars, announced>>
             /\ \A t \in Thread : mine'[t] = mine[t] \/ mine'[t].pc = "loop"
  <2>1. mine' = [t \in Thread |-> IF t \in ts THEN Loop("loop") ELSE mine[t]]
    BY <1>1 DEF Start
  <2>2. \A t \in Thread : mine'[t] = IF t \in ts THEN Loop("loop") ELSE mine[t]
    BY <2>1
  <2>3. Loop("loop").pc = "loop"
    BY DEF Loop
  <2> QED
    BY <1>1, <2>2, <2>3 DEF Start
<1>2. ASSUME (\E tx \in Tx : Add(tx)) \/ Stop \/ Join \/ UNCHANGED nodeVars
      PROVE  UNCHANGED <<vars, announced, mine>>
  BY <1>2 DEF Add, Stop, Join, nodeVars, minerVars
<1> QED
  BY <1>1, <1>2 DEF MinerNext, MiningStep, LoopStep

-----------------------------------------------------------------------------
(* Tips and what is built upon them.                                       *)

\* Reading the tip is building upon it.
LEMMA LoopBasis ==
    ASSUME BasisInv, NEW t \in Thread, LoopStep(t)
    PROVE  BasisStays'
<1> USE DEF BasisInv
<1>1. /\ UNCHANGED <<chainVars, frame, accepted>>
      /\ UNCHANGED <<bestBlockHash, height, blockCache>>
  BY LoopEffect DEF vars, chainVars, historyVars
<1>2. <<bestBlockHash, height>> \in accepted /\ height \in Nat
  BY DEF DepthInv, Recorded, TypeOK
<1>3. BasisStays'
  <2> SUFFICES ASSUME NEW w \in Thread, Building(w)'
               PROVE  /\ \E a \in accepted' : a[1] = Basis(w)'
                      /\ \A u \in Thread \ {w} :
                            InCall(u)' /\ BlockHash(frame'[u].block) = Basis(w)'
                               => bestBlockHash' = Basis(w)'
    BY DEF BasisStays
  <2>1. CASE Basis(w)' = bestBlockHash
    BY <1>1, <1>2, <2>1
  <2>2. CASE Building(w) /\ Basis(w)' = Basis(w)
    BY <1>1, <2>2 DEF BasisStays, InCall
  <2> QED
    BY <2>1, <2>2, BasisEffect
<1> QED
  BY <1>3

\* A block that is admitted is new: nobody builds upon it.
LEMMA CallBasis ==
    ASSUME BasisInv, NEW t \in Thread, CallAddBlock(t)
    PROVE  BasisStays'
<1> USE DEF BasisInv
<1>1. /\ UNCHANGED <<bestBlockHash, height, blockCache, accepted>>
      /\ \A u \in Thread \ {t} : mine'[u] = mine[u] /\ frame'[u] = frame[u]
      /\ mine[t].pc = "call" /\ mine'[t].pc = "announce"
  BY CallEffect DEF chainVars
<1>2. InCall(t)' => /\ frame'[t].block = mine[t].block /\ frame'[t].at = height + 1
                    /\ mine[t].block.prev = bestBlockHash
                    /\ BlockHash(frame'[t].block) \notin DOMAIN blockCache
  BY CallEffect DEF InCall
<1>3. \A w \in Thread : Building(w)' => w # t
  BY <1>1 DEF Building
<1>4. \A w \in Thread : w # t => /\ Building(w)' <=> Building(w)
                                 /\ Basis(w)' = Basis(w)
                                 /\ InCall(w)' <=> InCall(w)
  BY <1>1 DEF Building, Basis, InCall
<1>5. BasisStays'
  <2> SUFFICES ASSUME NEW w \in Thread, Building(w)'
               PROVE  /\ \E a \in accepted' : a[1] = Basis(w)'
                      /\ \A u \in Thread \ {w} :
                            InCall(u)' /\ BlockHash(frame'[u].block) = Basis(w)'
                               => bestBlockHash' = Basis(w)'
    BY DEF BasisStays
  <2>1. Building(w) /\ Basis(w)' = Basis(w) /\ w # t
    BY <1>3, <1>4
  <2>2. PICK a \in accepted : a[1] = Basis(w)
    BY <2>1 DEF BasisStays
  <2>3. Basis(w) \in DOMAIN blockCache
    BY <2>2 DEF DepthInv, Recorded
  <2>4. ASSUME NEW u \in Thread \ {w}, InCall(u)', BlockHash(frame'[u].block) = Basis(w)'
        PROVE  bestBlockHash' = Basis(w)'
    BY <1>1, <1>2, <1>4, <2>1, <2>3, <2>4 DEF BasisStays
  <2> QED
    BY <1>1, <2>1, <2>2, <2>4
<1> QED
  BY <1>5

\* A commit leaves no other thread in its call but the one that builds.
LEMMA CommitBasis ==
    ASSUME TwoThreads, BasisInv, NEW t \in Thread, InsideAddBlock(t), Commit(t)
    PROVE  BasisStays'
<1> USE DEF BasisInv
<1>1. /\ UNCHANGED mine
      /\ mine[t].pc = "announce" /\ ~InCall(t)'
      /\ accepted' = accepted \cup {<<bestBlockHash', height'>>}
  BY CommitEffect DEF InCall
<1>2. \A w \in Thread : /\ Building(w)' <=> Building(w)
                        /\ Building(w) => w # t
                        /\ Basis(w)' = Basis(w)
  BY <1>1 DEF Building, Basis
<1>3. BasisStays'
  <2> SUFFICES ASSUME NEW w \in Thread, Building(w)'
               PROVE  /\ \E a \in accepted' : a[1] = Basis(w)'
                      /\ \A u \in Thread \ {w} : ~InCall(u)'
    BY DEF BasisStays
  <2>1. \A u \in Thread \ {w} : u = t
    BY <1>2 DEF TwoThreads
  <2> QED
    BY <1>1, <1>2, <2>1 DEF BasisStays
<1> QED
  BY <1>3

\* Any other step inside addBlock keeps the frames that stay in their call.
LEMMA InsideFrames ==
    ASSUME MinerInv, StopInv, NEW t \in Thread, InsideAddBlock(t), ~Commit(t)
    PROVE  /\ UNCHANGED <<bestBlockHash, height, blockCache, accepted, mine, announced>>
           /\ \A u \in Thread : InCall(u)' =>
                 /\ InCall(u)
                 /\ frame'[u].block = frame[u].block /\ frame'[u].at = frame[u].at
           /\ \A u \in Thread : InCall(u) /\ ~InCall(u)' => ~frame'[u].result
           /\ \A u \in Thread : ~InCall(u) => frame'[u] = frame[u]
BY InsideEffect DEF chainVars, InCall

\* A thread whose loop is reset builds nothing.
LEMMA QuietBasis ==
    ASSUME UNCHANGED vars, \A t \in Thread : mine'[t] = mine[t] \/ mine'[t].pc = "loop"
    PROVE  /\ UNCHANGED <<bestBlockHash, height, blockCache, frame, accepted>>
           /\ \A t \in Thread : Building(t)' =>
                 /\ mine'[t] = mine[t] /\ Building(t)
                 /\ Basis(t)' = Basis(t) /\ Reward(t)' = Reward(t)
<1>1. UNCHANGED <<bestBlockHash, height, blockCache, frame, accepted>>
  BY DEF vars, chainVars, historyVars
<1>2. \A t \in Thread : Building(t)' => mine'[t] = mine[t]
  BY DEF Building
<1> QED
  BY <1>1, <1>2 DEF Building, Basis, Reward

\* The tip never comes back to a block that somebody builds upon.
LEMMA StepBasis == Offers /\ TwoThreads /\ BasisInv /\ [MinerNext]_nodeVars => BasisInv'
<1> SUFFICES ASSUME Offers, TwoThreads, BasisInv, [MinerNext]_nodeVars PROVE BasisInv'
  OBVIOUS
<1>1. MinerInv' /\ StopInv' /\ DepthInv'
  BY StepMiner, StepStop, StepDepth, ClientStep DEF BasisInv
<1>2. ASSUME UNCHANGED vars, \A t \in Thread : mine'[t] = mine[t] \/ mine'[t].pc = "loop"
      PROVE  BasisStays'
  BY <1>2, QuietBasis DEF BasisStays, BasisInv, InCall
<1>3. ASSUME NEW t \in Thread, InsideAddBlock(t), ~Commit(t) PROVE BasisStays'
  BY <1>3, InsideFrames DEF BasisInv, BasisStays, Building, Basis
<1>4. BasisStays'
  BY <1>1, <1>2, <1>3, LoopBasis, CallBasis, CommitBasis, MinerSteps DEF BasisInv
<1> QED
  BY <1>1, <1>4 DEF BasisInv

\* At first nobody builds.
LEMMA InitBasis == MinerInit => BasisInv
<1> SUFFICES ASSUME MinerInit PROVE BasisInv
  OBVIOUS
<1>1. \A t \in Thread : mine[t].pc = "off"
  BY DEF MinerInit, Loop
<1>2. MinerInv /\ StopInv /\ DepthInv
  BY InitMiner, InitStop, InitDepth DEF MinerInit
<1> QED
  BY <1>1, <1>2 DEF BasisInv, BasisStays, Building

-----------------------------------------------------------------------------
(* Rewards.                                                                *)

\* The steps of a loop keep rewards and tips together.
LEMMA LoopReward ==
    ASSUME RewardInv, NEW t \in Thread, LoopStep(t)
    PROVE  RewardFits'
<1> USE DEF RewardInv, BasisInv
<1>1. /\ UNCHANGED <<chainVars, frame, accepted>>
      /\ UNCHANGED <<bestBlockHash, height, blockCache>>
  BY LoopEffect DEF vars, chainVars, historyVars
<1>2. <<bestBlockHash, height>> \in accepted /\ height \in Nat
  BY DEF DepthInv, Recorded, TypeOK
<1>4. ASSUME NEW w \in Thread, Building(w)', mine'[w].pc # "reward", Basis(w)' = bestBlockHash'
      PROVE  Reward(w)' = GetBlockSubsidy(height' + 1)
  BY <1>1, <1>4, BasisEffect DEF RewardFits
<1>5. \A w \in Thread : InCall(w)' => Pays(frame'[w].block, frame'[w].at)
  BY <1>1 DEF RewardFits, InCall
<1>6. RewardIsSubsidy'
  BY <1>1 DEF RewardFits, RewardIsSubsidy
<1> QED
  BY <1>4, <1>5, <1>6 DEF RewardFits, Pays

\* So does a call of addBlock: a block it admits is on the tip.
LEMMA CallReward ==
    ASSUME RewardInv, NEW t \in Thread, CallAddBlock(t)
    PROVE  RewardFits'
<1> USE DEF RewardInv, BasisInv
<1>1. /\ UNCHANGED <<bestBlockHash, height, blockCache, accepted>>
      /\ \A u \in Thread \ {t} : mine'[u] = mine[u] /\ frame'[u] = frame[u]
      /\ mine[t].pc = "call" /\ mine'[t].pc = "announce"
  BY CallEffect DEF chainVars
<1>2. InCall(t)' => /\ frame'[t].block = mine[t].block /\ frame'[t].at = height + 1
                    /\ mine[t].block.prev = bestBlockHash
                    /\ BlockHash(frame'[t].block) \notin DOMAIN blockCache
  BY CallEffect DEF InCall
<1>3. \A w \in Thread : Building(w)' => w # t
  BY <1>1 DEF Building
<1>4. \A w \in Thread : w # t => /\ Building(w)' <=> Building(w)
                                 /\ Basis(w)' = Basis(w) /\ Reward(w)' = Reward(w)
                                 /\ InCall(w)' <=> InCall(w)
  BY <1>1 DEF Building, Basis, Reward, InCall
<1>6. ASSUME NEW w \in Thread, Building(w)', mine'[w].pc # "reward", Basis(w)' = bestBlockHash'
      PROVE  Reward(w)' = GetBlockSubsidy(height' + 1)
  BY <1>1, <1>3, <1>4, <1>6 DEF RewardFits
<1>7. ASSUME NEW w \in Thread, InCall(w)' PROVE Pays(frame'[w].block, frame'[w].at)
  <2>1. CASE w = t
    <3>1. Building(t) /\ ~In(t, "reward") /\ Basis(t) = mine[t].block.prev
          /\ Reward(t) = mine[t].block.txs[1].outputs[1].amount
      BY <1>1 DEF Building, Basis, Reward
    <3>2. Reward(t) = GetBlockSubsidy(height + 1)
      BY <1>2, <1>7, <2>1, <3>1 DEF RewardFits
    <3> QED
      BY <1>2, <1>7, <2>1, <3>1, <3>2 DEF Pays
  <2>2. CASE w # t
    BY <1>1, <1>4, <1>7, <2>2 DEF RewardFits
  <2> QED
    BY <2>1, <2>2
<1>8. RewardIsSubsidy'
  BY <1>1 DEF RewardFits, RewardIsSubsidy
<1> QED
  BY <1>6, <1>7, <1>8 DEF RewardFits, Pays

\* A late commit may set the tip back, but not to a block that the other thread
\* has left behind.
LEMMA CommitReward ==
    ASSUME TwoThreads, RewardInv, DepthInv',
           NEW t \in Thread, InsideAddBlock(t), Commit(t)
    PROVE  RewardFits'
<1> USE DEF RewardInv, BasisInv
<1>1. /\ UNCHANGED mine
      /\ \A u \in Thread \ {t} : frame'[u] = frame[u]
      /\ mine[t].pc = "announce" /\ InCall(t) /\ ~InCall(t)'
      /\ bestBlockHash' = BlockHash(frame[t].block) /\ height' = frame[t].at
      /\ accepted' = accepted \cup {<<bestBlockHash', height'>>}
      /\ blockCache'[bestBlockHash'] = frame[t].block
      /\ \A h \in DOMAIN blockCache : h # bestBlockHash' => blockCache'[h] = blockCache[h]
  BY CommitEffect DEF InCall
<1>2. \A w \in Thread : /\ Building(w)' <=> Building(w)
                        /\ Building(w) => w # t
                        /\ Basis(w)' = Basis(w) /\ Reward(w)' = Reward(w)
  BY <1>1 DEF Building, Basis, Reward
<1>4. ASSUME NEW w \in Thread, Building(w)', mine'[w].pc # "reward", Basis(w)' = bestBlockHash'
      PROVE  Reward(w)' = GetBlockSubsidy(height' + 1)
  <2>1. Building(w) /\ w # t /\ Basis(w) = BlockHash(frame[t].block)
    BY <1>1, <1>2, <1>4
  <2>2. bestBlockHash = Basis(w)
    BY <1>1, <2>1 DEF BasisStays
  <2>3. height' = height
    <3>1. <<bestBlockHash, height>> \in accepted'
      BY <1>1 DEF DepthInv, Recorded
    <3>2. <<bestBlockHash', height'>> \in accepted'
      BY <1>1
    <3>3. bestBlockHash' = bestBlockHash
      BY <1>1, <2>1, <2>2
    <3> QED
      BY <3>1, <3>2, <3>3 DEF DepthInv, HeightIsDepth
  <2>4. ~In(w, "reward") /\ Basis(w) = bestBlockHash
    BY <1>1, <1>4, <2>2
  <2>5. Reward(w) = GetBlockSubsidy(height + 1)
    BY <2>1, <2>4 DEF RewardFits
  <2> QED
    BY <1>2, <2>3, <2>5
<1>5. \A w \in Thread : InCall(w)' => Pays(frame'[w].block, frame'[w].at)
  BY <1>1 DEF RewardFits, InCall
<1>6. ASSUME NEW a \in accepted'
      PROVE  blockCache'[a[1]].txs[1].outputs[1].amount = GetBlockSubsidy(a[2])
  <2>1. CASE a[1] = bestBlockHash'
    <3>1. a[2] = height'
      <4>1. <<bestBlockHash', height'>> \in accepted'
        BY <1>1
      <4>2. \A c, d \in accepted' : c[1] = d[1] => c[2] = d[2]
        BY DEF DepthInv, HeightIsDepth
      <4> QED
        BY <2>1, <4>1, <4>2
    <3> QED
      BY <1>1, <2>1, <3>1 DEF RewardFits, Pays
  <2>2. CASE a[1] # bestBlockHash'
    BY <1>1, <2>2 DEF RewardFits, RewardIsSubsidy, DepthInv, Recorded
  <2> QED
    BY <2>1, <2>2
<1>7. RewardIsSubsidy'
  BY <1>6 DEF RewardIsSubsidy
<1> QED
  BY <1>4, <1>5, <1>7 DEF RewardFits, Pays

\* Genesis pays, and nobody builds yet.
LEMMA InitReward == GenesisPays /\ MinerInit => RewardInv
<1> SUFFICES ASSUME GenesisPays, MinerInit PROVE RewardInv
  OBVIOUS
<1>1. \A t \in Thread : mine[t].pc = "off" /\ frame[t].pc = "idle"
  BY DEF MinerInit, Init, Loop, IdleFrame
<1>2. RewardIsSubsidy
  <2>1. blockCache[BlockHash(Genesis)] = Genesis /\ accepted = {<<BlockHash(Genesis), 0>>}
    BY DEF MinerInit, Init, Assign
  <2> QED
    BY <2>1 DEF RewardIsSubsidy, GenesisPays
<1> QED
  BY <1>1, <1>2, InitBasis DEF RewardInv, RewardFits, Building, InCall

\* Every step keeps the rewards right.
LEMMA StepReward ==
    Offers /\ TwoThreads /\ RewardInv /\ [MinerNext]_nodeVars => RewardInv'
<1> SUFFICES ASSUME Offers, TwoThreads, RewardInv, [MinerNext]_nodeVars PROVE RewardInv'
  OBVIOUS
<1>1. BasisInv'
  BY StepBasis DEF RewardInv
<1>2. ASSUME UNCHANGED vars, \A t \in Thread : mine'[t] = mine[t] \/ mine'[t].pc = "loop"
      PROVE  RewardFits'
  BY <1>2, QuietBasis DEF RewardFits, RewardInv, RewardIsSubsidy, InCall, Pays
<1>3. ASSUME NEW t \in Thread, InsideAddBlock(t), ~Commit(t) PROVE RewardFits'
  BY <1>3, InsideFrames
  DEF RewardInv, BasisInv, RewardFits, RewardIsSubsidy, Building, Basis, Reward, Pays
<1>4. RewardFits'
  BY <1>1, <1>2, <1>3, LoopReward, CallReward, CommitReward, MinerSteps
  DEF RewardInv, BasisInv
<1> QED
  BY <1>1, <1>4 DEF RewardInv

\* RewardIsSubsidy: with at most two mining threads every accepted block pays
\* the subsidy of its own height, although the coinbase is written for a tip
\* that may have gone and no check of addBlock looks at the amount.
THEOREM TwoThreadsRewards ==
    ASSUME Offers, TwoThreads, GenesisPays
    PROVE  MinerSpec => []RewardIsSubsidy
<1>1. RewardInv => RewardIsSubsidy
  BY DEF RewardInv, RewardFits
<1>2. MinerInit => RewardInv
  BY InitReward
<1>3. RewardInv /\ [MinerNext]_nodeVars => RewardInv'
  BY StepReward
<1> QED
  BY <1>1, <1>2, <1>3, PTL DEF MinerSpec

-----------------------------------------------------------------------------
(* Announcements.                                                          *)

\* A hash is committed at one height.
LEMMA OneDepth ==
    ASSUME DepthInv, NEW a \in accepted, NEW b \in accepted, a[1] = b[1]
    PROVE  a = b /\ a[2] \in Nat /\ a[1] \in DOMAIN blockCache
<1>1. a[2] = b[2]
  BY DEF DepthInv, HeightIsDepth
<1>2. accepted \subseteq Hashes \X Nat
  BY DEF DepthInv, TypeOK
<1>3. a[1] \in DOMAIN blockCache
  BY DEF DepthInv, Recorded
<1> QED
  BY <1>1, <1>2, <1>3

\* What has a child was committed, one below the child.
LEMMA ChildDepth ==
    ASSUME DepthInv, NEW hash, HasChild(hash)
    PROVE  \E n \in Nat : <<hash, n>> \in accepted
<1>1. PICK a \in accepted : a[2] > 0 /\ blockCache[a[1]].prev = hash
  BY DEF HasChild
<1>2. a[2] \in Nat
  BY OneDepth
<1>3. <<hash, a[2] - 1>> \in accepted
  BY <1>1 DEF DepthInv, HeightIsDepth
<1> QED
  BY <1>1, <1>2, <1>3

\* The parent of a block in its call was committed one below, and the block
\* itself nowhere but at the height it was called with.
LEMMA CallDepth ==
    ASSUME DepthInv, NEW t \in Thread, InCall(t)
    PROVE  /\ frame[t].at \in Nat /\ frame[t].at > 0
           /\ <<frame[t].block.prev, frame[t].at - 1>> \in accepted
           /\ \A a \in accepted : a[1] = frame[t].block.prev => a[2] = frame[t].at - 1
           /\ \A a \in accepted : a[1] = BlockHash(frame[t].block) => a[2] = frame[t].at
<1> DEFINE b == frame[t].block
           n == frame[t].at
<1>1. n \in Nat
  BY DEF DepthInv, TypeOK, Frame
<1>2. n > 0 /\ BlockHash(b) # BlockHash(Genesis) /\ <<b.prev, n - 1>> \in accepted
  BY DEF DepthInv, Admitted, InCall
<1>3. ASSUME NEW a \in accepted, a[1] = b.prev PROVE a[2] = n - 1
  <2> HIDE DEF b, n
  <2> QED
    BY <1>2, <1>3, OneDepth
<1>4. ASSUME NEW a \in accepted, a[1] = BlockHash(b) PROVE a[2] = n
  <2>1. a[2] \in Nat /\ a[1] \in DOMAIN blockCache
    BY OneDepth
  <2>2. a[2] > 0
    BY <1>2, <1>4, <2>1 DEF DepthInv, Recorded
  <2>3. <<blockCache[a[1]].prev, a[2] - 1>> \in accepted
    BY <2>2 DEF DepthInv, HeightIsDepth
  <2>4. blockCache[a[1]].prev = b.prev
    <3>1. BlockHash(blockCache[a[1]]) = BlockHash(b)
      BY <1>4, <2>1 DEF DepthInv, TypeOK, BlockMap
    <3> QED
      BY <3>1, HashHasPrev
  <2>5. a[2] - 1 = n - 1
    <3> HIDE DEF b, n
    <3> QED
      BY <1>3, <2>3, <2>4
  <2> HIDE DEF n
  <2> QED
    BY <1>1, <2>1, <2>5
<1> QED
  BY <1>1, <1>2, <1>3, <1>4

\* Only a thread that has its result announces, and only a true one.
LEMMA LoopAnnounces ==
    ASSUME MinerInv, NEW t \in Thread, LoopStep(t)
    PROVE  \/ UNCHANGED announced
           \/ /\ mine[t].pc = "announce" /\ ~InCall(t) /\ frame[t].result
              /\ announced' = announced \cup {<<mine[t].at, BlockHash(mine[t].block)>>}
<1>1. CASE Announce(t)
  BY <1>1 DEF Announce, InCall
<1>2. CASE ~Announce(t)
  BY <1>2 DEF LoopStep, LoadFlag, ReadBest, ReadReward, GetBlockTemplate, MineBlock
<1> QED
  BY <1>1, <1>2

\* A step of a loop keeps what the heights promise: the tip that it reads is
\* above nothing that was, or may be, built upon it.
LEMMA LoopAnnounceInv ==
    ASSUME AnnounceInv, NEW t \in Thread, LoopStep(t)
    PROVE  /\ CachedIsAccepted' /\ ChildrenHold' /\ BasisHolds' /\ LowIsAlone'
           /\ ResultsTrue' /\ AnnouncedIsAccepted'
<1> USE DEF AnnounceInv, BasisInv
<1>1. /\ UNCHANGED <<bestBlockHash, height, blockCache, frame, accepted>>
      /\ \A u \in Thread \ {t} : mine'[u] = mine[u]
      /\ mine'[t].pc # "announce"
  BY LoopEffect DEF vars, chainVars, historyVars
<1>2. \A hash : HasChild(hash)' <=> HasChild(hash)
  BY <1>1 DEF HasChild
<1>3. \A u \in Thread : InCall(u)' <=> InCall(u)
  BY <1>1 DEF InCall
<1>4. CachedIsAccepted' /\ ChildrenHold'
  BY <1>1, <1>2, <1>3 DEF CachedIsAccepted, ChildrenHold
<1>5. <<bestBlockHash, height>> \in accepted /\ height \in Nat
  BY DEF DepthInv, Recorded, TypeOK
<1>6. \A a \in accepted : a[1] = bestBlockHash => a[2] = height
  BY <1>5, OneDepth
<1>7. BasisHolds'
  <2> SUFFICES ASSUME NEW w \in Thread, Building(w)', NEW a \in accepted, a[1] = Basis(w)'
               PROVE  /\ HasChild(a[1]) => height >= a[2]
                      /\ \A u \in Thread \ {w} :
                            InCall(u) /\ (HasChild(a[1]) \/ frame[u].block.prev = a[1])
                               => height >= a[2] /\ frame[u].at > a[2]
    BY <1>1, <1>2, <1>3 DEF BasisHolds
  <2>1. CASE Basis(w)' = bestBlockHash
    <3>1. a[2] = height
      BY <1>6, <2>1
    <3>2. ASSUME NEW u \in Thread, InCall(u), HasChild(a[1]) \/ frame[u].block.prev = a[1]
          PROVE  frame[u].at > a[2]
      <4>1. CASE HasChild(a[1])
        BY <2>1, <3>1, <3>2, <4>1 DEF ChildrenHold
      <4>2. CASE frame[u].block.prev = a[1]
        <5>1. frame[u].at \in Nat /\ a[2] = frame[u].at - 1
          BY <3>2, <4>2, CallDepth
        <5> QED
          BY <5>1
      <4> QED
        BY <3>2, <4>1, <4>2
    <3> QED
      BY <1>5, <3>1, <3>2
  <2>2. CASE Building(w) /\ Basis(w)' = Basis(w)
    BY <2>2 DEF BasisHolds
  <2> QED
    BY <2>1, <2>2, BasisEffect
<1>8. LowIsAlone'
  <2> SUFFICES ASSUME NEW w \in Thread, mine'[w].pc = "call", NEW a \in accepted,
                      a[1] = Basis(w)', mine'[w].at <= a[2]
               PROVE  /\ ~HasChild(a[1])
                      /\ bestBlockHash # a[1]
                      /\ \A u \in Thread \ {w} : InCall(u) => frame[u].block.prev # a[1]
    BY <1>1, <1>2, <1>3 DEF LowIsAlone
  <2>1. Building(w) /\ Basis(w)' = Basis(w)
    BY BasisEffect DEF Building
  <2>2. CASE mine'[w].at = height + 1
    <3>1. a[2] \in Nat /\ ~(height >= a[2])
      BY <1>5, <2>2, OneDepth
    <3>2. ~HasChild(a[1])
          /\ \A u \in Thread \ {w} : InCall(u) => frame[u].block.prev # a[1]
      BY <2>1, <3>1 DEF BasisHolds
    <3>3. bestBlockHash # a[1]
      BY <1>5, <1>6, <3>1
    <3> QED
      BY <3>2, <3>3
  <2>3. CASE In(w, "call") /\ mine'[w].at = mine[w].at
    BY <2>1, <2>3 DEF LowIsAlone
  <2> QED
    BY <2>2, <2>3, BasisEffect DEF Building
<1>9. ResultsTrue'
  BY <1>1, <1>3 DEF ResultsTrue
<1>10. AnnouncedIsAccepted'
  <2>1. CASE UNCHANGED announced
    BY <1>1, <2>1 DEF AnnouncedIsAccepted
  <2>2. CASE /\ mine[t].pc = "announce" /\ ~InCall(t) /\ frame[t].result
             /\ announced' = announced \cup {<<mine[t].at, BlockHash(mine[t].block)>>}
    <3>1. \E a \in accepted : a[1] = BlockHash(mine[t].block) /\ a[2] <= mine[t].at
      BY <2>2 DEF ResultsTrue
    <3> QED
      BY <1>1, <2>2, <3>1 DEF AnnouncedIsAccepted
  <2> QED
    BY <2>1, <2>2, LoopAnnounces
<1> QED
  BY <1>4, <1>7, <1>8, <1>9, <1>10

\* A call keeps it: a block that is admitted is new and above the tip, and one
\* that is known already has a parent with a child, so that the height it was
\* offered with is not too low.
LEMMA CallAnnounceInv ==
    ASSUME AnnounceInv, NEW t \in Thread, CallAddBlock(t)
    PROVE  /\ CachedIsAccepted' /\ ChildrenHold' /\ BasisHolds' /\ LowIsAlone'
           /\ ResultsTrue' /\ AnnouncedIsAccepted'
<1> USE DEF AnnounceInv, BasisInv
<1> DEFINE b == mine[t].block
           n == mine[t].at
<1>1. /\ UNCHANGED <<bestBlockHash, height, blockCache, accepted, announced>>
      /\ \A u \in Thread \ {t} : mine'[u] = mine[u] /\ frame'[u] = frame[u]
      /\ mine[t].pc = "call" /\ mine'[t].pc = "announce"
      /\ mine'[t].block = b /\ mine'[t].at = n
  BY CallEffect DEF chainVars
<1>2. InCall(t)' => /\ frame'[t].block = b /\ frame'[t].at = n /\ n = height + 1
                    /\ b.prev = bestBlockHash
                    /\ BlockHash(b) \notin DOMAIN blockCache
  BY CallEffect DEF InCall
<1>3. ~InCall(t)' /\ frame'[t].result => BlockHash(b) \in DOMAIN blockCache
  BY CallEffect DEF InCall
<1>4. Building(t) /\ Basis(t) = b.prev
  BY <1>1 DEF Building, Basis
<1> HIDE DEF b, n
<1>5. \A hash : HasChild(hash)' <=> HasChild(hash)
  BY <1>1 DEF HasChild
<1>6. \A u \in Thread \ {t} : InCall(u)' <=> InCall(u)
  BY <1>1 DEF InCall
<1>7. <<bestBlockHash, height>> \in accepted /\ height \in Nat
  BY DEF DepthInv, Recorded, TypeOK
<1>8. \A a \in accepted : a[1] = bestBlockHash => a[2] = height
  BY <1>7, OneDepth
<1>9. InCall(t)' => ~HasChild(BlockHash(frame'[t].block))
  <2>1. ASSUME HasChild(BlockHash(b)) PROVE BlockHash(b) \in DOMAIN blockCache
    <3>1. \E k \in Nat : <<BlockHash(b), k>> \in accepted
      BY <2>1, ChildDepth
    <3> QED
      BY <3>1 DEF DepthInv, Recorded
  <2> QED
    BY <1>2, <2>1
<1>10. CachedIsAccepted' /\ AnnouncedIsAccepted'
  BY <1>1 DEF CachedIsAccepted, AnnouncedIsAccepted
<1>11. ChildrenHold'
  <2>1. ASSUME NEW u \in Thread, InCall(u)'
        PROVE  /\ HasChild(BlockHash(frame'[u].block)) => height >= frame'[u].at
               /\ HasChild(bestBlockHash) => frame'[u].at > height
    <3>1. CASE u = t
      BY <1>2, <1>7, <1>9, <2>1, <3>1
    <3>2. CASE u # t
      BY <1>1, <1>6, <2>1, <3>2 DEF ChildrenHold
    <3> QED
      BY <3>1, <3>2
  <2>2. ASSUME NEW u \in Thread, NEW v \in Thread, u # v, InCall(u)', InCall(v)',
               HasChild(BlockHash(frame'[u].block))
        PROVE  frame'[v].at > frame'[u].at
    <3>1. u # t /\ InCall(u) /\ frame'[u] = frame[u]
      BY <1>1, <1>6, <1>9, <2>2
    <3>2. CASE v = t
      <4>1. height >= frame[u].at /\ frame'[t].at = height + 1 /\ frame[u].at \in Nat
        BY <1>2, <2>2, <3>1, <3>2, CallDepth DEF ChildrenHold
      <4> QED
        BY <1>7, <3>1, <3>2, <4>1
    <3>3. CASE v # t
      BY <1>1, <1>6, <2>2, <3>1, <3>3 DEF ChildrenHold
    <3> QED
      BY <3>2, <3>3
  <2> QED
    BY <1>1, <1>5, <2>1, <2>2 DEF ChildrenHold
<1>12. \A w \in Thread : Building(w)' => w # t /\ Building(w) /\ Basis(w)' = Basis(w)
  BY <1>1 DEF Building, Basis
<1>13. BasisHolds'
  <2> SUFFICES ASSUME NEW w \in Thread, Building(w)', NEW a \in accepted, a[1] = Basis(w)'
               PROVE  /\ HasChild(a[1]) => height >= a[2]
                      /\ \A u \in Thread \ {w} :
                            InCall(u)' /\ (HasChild(a[1]) \/ frame'[u].block.prev = a[1])
                               => height >= a[2] /\ frame'[u].at > a[2]
    BY <1>1, <1>5 DEF BasisHolds
  <2>1. w # t /\ Building(w) /\ a[1] = Basis(w) /\ a[2] \in Nat
    BY <1>12, OneDepth
  <2>2. HasChild(a[1]) => height >= a[2]
    BY <2>1 DEF BasisHolds
  <2>3. ASSUME NEW u \in Thread \ {w}, InCall(u)',
               HasChild(a[1]) \/ frame'[u].block.prev = a[1]
        PROVE  height >= a[2] /\ frame'[u].at > a[2]
    <3>1. CASE u = t
      <4>1. height >= a[2]
        BY <1>2, <1>7, <1>8, <2>2, <2>3, <3>1
      <4> QED
        BY <1>2, <1>7, <2>1, <2>3, <3>1, <4>1
    <3>2. CASE u # t
      BY <1>1, <1>6, <2>1, <2>3, <3>2 DEF BasisHolds
    <3> QED
      BY <3>1, <3>2
  <2> QED
    BY <2>2, <2>3
<1>14. LowIsAlone'
  <2> SUFFICES ASSUME NEW w \in Thread, mine'[w].pc = "call", NEW a \in accepted,
                      a[1] = Basis(w)', mine'[w].at <= a[2]
               PROVE  /\ ~HasChild(a[1])
                      /\ bestBlockHash # a[1]
                      /\ \A u \in Thread \ {w} : InCall(u)' => frame'[u].block.prev # a[1]
    BY <1>1, <1>5 DEF LowIsAlone
  <2>1. w # t /\ In(w, "call") /\ a[1] = Basis(w) /\ mine[w].at <= a[2]
    BY <1>1, <1>12 DEF Building
  <2>2. /\ ~HasChild(a[1])
        /\ bestBlockHash # a[1]
        /\ \A u \in Thread \ {w} : InCall(u) => frame[u].block.prev # a[1]
    BY <2>1 DEF LowIsAlone
  <2>3. ASSUME NEW u \in Thread \ {w}, InCall(u)' PROVE frame'[u].block.prev # a[1]
    BY <1>1, <1>2, <1>6, <2>2, <2>3
  <2> QED
    BY <2>2, <2>3
<1>15. ResultsTrue'
  <2>1. ASSUME ~InCall(t)', frame'[t].result
        PROVE  \E a \in accepted : a[1] = BlockHash(b) /\ a[2] <= n
    <3>1. PICK a \in accepted : a[1] = BlockHash(b)
      BY <1>3, <2>1 DEF CachedIsAccepted
    <3>2. a[2] \in Nat /\ a[1] \in DOMAIN blockCache
      BY OneDepth
    <3>3. n \in Nat
      BY DEF n, MinerInv, LoopsTyped, LoopState
    <3>4. CASE a[2] > 0
      <4>1. BlockHash(blockCache[a[1]]) = BlockHash(b)
        BY <3>1, <3>2 DEF DepthInv, TypeOK, BlockMap
      <4>2. blockCache[a[1]].prev = b.prev
        BY <4>1, HashHasPrev
      <4>3. HasChild(b.prev)
        BY <3>4, <4>2 DEF HasChild
      <4>4. <<b.prev, a[2] - 1>> \in accepted
        BY <3>4, <4>2 DEF DepthInv, HeightIsDepth
      <4>5. ~(n <= a[2] - 1)
        <5> DEFINE p == <<b.prev, a[2] - 1>>
        <5>1. p \in accepted /\ p[1] = b.prev /\ p[2] = a[2] - 1
          BY <4>4
        <5> HIDE DEF p
        <5> QED
          BY <1>1, <1>4, <4>3, <5>1 DEF LowIsAlone, n
      <4> QED
        BY <3>1, <3>2, <3>3, <4>5
    <3>5. CASE a[2] = 0
      BY <3>1, <3>3, <3>5
    <3> QED
      BY <3>2, <3>4, <3>5
  <2>2. ASSUME NEW u \in Thread \ {t}
        PROVE  mine'[u] = mine[u] /\ frame'[u] = frame[u] /\ (InCall(u)' <=> InCall(u))
    BY <1>1, <1>6
  <2> QED
    BY <1>1, <1>2, <2>1, <2>2 DEF ResultsTrue
<1> QED
  BY <1>10, <1>11, <1>13, <1>14, <1>15

\* So does a step inside addBlock that commits nothing.
LEMMA InsideAnnounceInv ==
    ASSUME AnnounceInv, NEW t \in Thread, InsideAddBlock(t), ~Commit(t)
    PROVE  /\ CachedIsAccepted' /\ ChildrenHold' /\ BasisHolds' /\ LowIsAlone'
           /\ ResultsTrue' /\ AnnouncedIsAccepted'
<1> USE DEF AnnounceInv, BasisInv
<1>1. /\ UNCHANGED <<bestBlockHash, height, blockCache, accepted, mine, announced>>
      /\ \A u \in Thread : InCall(u)' =>
            /\ InCall(u)
            /\ frame'[u].block = frame[u].block /\ frame'[u].at = frame[u].at
      /\ \A u \in Thread : InCall(u) /\ ~InCall(u)' => ~frame'[u].result
      /\ \A u \in Thread : ~InCall(u) => frame'[u] = frame[u]
  BY InsideFrames
<1>2. \A hash : HasChild(hash)' <=> HasChild(hash)
  BY <1>1 DEF HasChild
<1>3. \A w \in Thread : (Building(w)' <=> Building(w)) /\ Basis(w)' = Basis(w)
  BY <1>1 DEF Building, Basis
<1>4. CachedIsAccepted' /\ AnnouncedIsAccepted'
  BY <1>1 DEF CachedIsAccepted, AnnouncedIsAccepted
<1>5. ChildrenHold'
  BY <1>1, <1>2 DEF ChildrenHold
<1>6. BasisHolds'
  BY <1>1, <1>2, <1>3 DEF BasisHolds
<1>7. LowIsAlone'
  BY <1>1, <1>2, <1>3 DEF LowIsAlone
<1>8. ResultsTrue'
  BY <1>1 DEF ResultsTrue
<1> QED
  BY <1>4, <1>5, <1>6, <1>7, <1>8

\* And so does a commit: the tip is set back below nothing that has a child, and
\* the other thread, if it builds or waits in its call, is above the new tip.
LEMMA CommitAnnounceInv ==
    ASSUME TwoThreads, AnnounceInv, DepthInv',
           NEW t \in Thread, InsideAddBlock(t), Commit(t)
    PROVE  /\ CachedIsAccepted' /\ ChildrenHold' /\ BasisHolds' /\ LowIsAlone'
           /\ ResultsTrue' /\ AnnouncedIsAccepted'
<1> USE DEF AnnounceInv, BasisInv
<1> DEFINE b == frame[t].block
           n == frame[t].at
           hash == BlockHash(b)
           HasChildNow(h) == \E a \in accepted' : a[2] > 0 /\ blockCache'[a[1]].prev = h
<1>1. /\ UNCHANGED <<mine, announced>>
      /\ \A u \in Thread \ {t} : frame'[u] = frame[u]
      /\ mine[t].pc = "announce" /\ InCall(t) /\ ~InCall(t)'
      /\ bestBlockHash' = hash /\ height' = n
      /\ accepted' = accepted \cup {<<hash, n>>}
      /\ DOMAIN blockCache' = DOMAIN blockCache \cup {hash}
      /\ blockCache'[hash] = b
      /\ \A h \in DOMAIN blockCache : h # hash => blockCache'[h] = blockCache[h]
  BY CommitEffect DEF InCall
<1>2. /\ n \in Nat /\ n > 0 /\ <<b.prev, n - 1>> \in accepted
      /\ \A a \in accepted : a[1] = b.prev => a[2] = n - 1
      /\ \A a \in accepted : a[1] = hash => a[2] = n
  BY <1>1, CallDepth
<1>3. \A w \in Thread : Building(w)' => /\ w # t /\ Building(w) /\ Basis(w)' = Basis(w)
                                        /\ \E a \in accepted : a[1] = Basis(w)
  BY <1>1 DEF Building, Basis, BasisStays
<1>4. \A u \in Thread : InCall(u)' => u # t /\ InCall(u) /\ frame'[u] = frame[u]
  BY <1>1 DEF InCall
<1>5. \A w, u \in Thread : w # u /\ w # t => ~InCall(u)'
  BY <1>1 DEF TwoThreads
<1> HIDE DEF hash, b, n
<1>6. ASSUME NEW h, HasChildNow(h) PROVE HasChild(h) \/ h = b.prev
  <2>1. PICK a \in accepted' : a[2] > 0 /\ blockCache'[a[1]].prev = h
    BY <1>6
  <2>2. CASE a[1] = hash
    BY <1>1, <2>1, <2>2
  <2>3. CASE a[1] # hash
    <3>1. a \in accepted
      BY <1>1, <2>3
    <3>2. blockCache'[a[1]] = blockCache[a[1]]
      BY <1>1, <2>3, <3>1, OneDepth
    <3> QED
      BY <2>1, <3>1, <3>2 DEF HasChild
  <2> QED
    BY <2>2, <2>3
<1> HIDE DEF HasChildNow
<1>7. ASSUME NEW a \in accepted', NEW w \in Thread, Building(w)', a[1] = Basis(w)
      PROVE  a \in accepted
  <2>1. PICK c \in accepted : c[1] = Basis(w)
    BY <1>3, <1>7
  <2>2. c \in accepted'
    BY <1>1
  <2>3. a[2] = c[2]
    BY <1>7, <2>1, <2>2 DEF DepthInv, HeightIsDepth
  <2>4. accepted' \subseteq Hashes \X Nat
    BY DEF DepthInv, TypeOK, Hashes
  <2>5. a = c
    BY <1>7, <2>1, <2>2, <2>3, <2>4
  <2> QED
    BY <2>5
<1>8. CachedIsAccepted'
  <2> SUFFICES ASSUME NEW h \in DOMAIN blockCache' PROVE \E a \in accepted' : a[1] = h
    BY DEF CachedIsAccepted
  <2>1. CASE h = hash
    <3>1. <<hash, n>> \in accepted'
      BY <1>1
    <3> QED
      BY <2>1, <3>1
  <2>2. CASE h \in DOMAIN blockCache
    BY <1>1, <2>2 DEF CachedIsAccepted
  <2> QED
    BY <1>1, <2>1, <2>2
<1>9. ChildrenHold'
  <2>1. ASSUME NEW u \in Thread, InCall(u)', HasChildNow(BlockHash(frame'[u].block))
        PROVE  height' >= frame'[u].at
    <3>1. u # t /\ InCall(u) /\ frame'[u] = frame[u] /\ frame[u].at \in Nat
      BY <1>4, <2>1, CallDepth
    <3>2. CASE HasChild(BlockHash(frame[u].block))
      BY <1>1, <1>2, <3>1, <3>2 DEF ChildrenHold, n
    <3>3. CASE BlockHash(frame[u].block) = b.prev
      <4> DEFINE p == <<b.prev, n - 1>>
      <4>1. p \in accepted /\ p[1] = b.prev /\ p[2] = n - 1
        BY <1>2
      <4> HIDE DEF p
      <4>2. n - 1 = frame[u].at
        BY <3>1, <3>3, <4>1, CallDepth
      <4> QED
        BY <1>1, <1>2, <3>1, <4>2
    <3> QED
      BY <1>6, <2>1, <3>1, <3>2, <3>3
  <2>2. ASSUME NEW u \in Thread, InCall(u)', HasChildNow(bestBlockHash')
        PROVE  frame'[u].at > height'
    <3>1. u # t /\ InCall(u) /\ frame'[u] = frame[u]
      BY <1>4, <2>2
    <3>2. HasChildNow(hash)
      BY <1>1, <2>2
    <3>3. CASE HasChild(hash)
      BY <1>1, <3>1, <3>3 DEF ChildrenHold, hash, b, n
    <3>4. CASE hash = b.prev
      BY <1>2, <3>4
    <3> QED
      BY <1>6, <3>2, <3>3, <3>4
  <2>3. \A u, v \in Thread : u # v /\ InCall(u)' => ~InCall(v)'
    BY <1>4, <1>5
  <2> QED
    BY <2>1, <2>2, <2>3 DEF ChildrenHold, HasChild, HasChildNow
<1>10. BasisHolds'
  <2> SUFFICES ASSUME NEW w \in Thread, Building(w)', NEW a \in accepted', a[1] = Basis(w)'
               PROVE  /\ HasChildNow(a[1]) => height' >= a[2]
                      /\ \A u \in Thread \ {w} : ~InCall(u)'
    BY DEF BasisHolds, HasChild, HasChildNow
  <2>1. w # t /\ Building(w) /\ a[1] = Basis(w) /\ a \in accepted
    BY <1>3, <1>7
  <2>2. a[2] \in Nat
    BY <2>1, OneDepth
  <2>3. ASSUME HasChildNow(a[1]) PROVE height' >= a[2]
    <3>1. HasChild(a[1]) \/ b.prev = a[1]
      BY <1>6, <2>3
    <3>2. n > a[2]
      BY <1>1, <2>1, <3>1 DEF BasisHolds, n, b
    <3> QED
      BY <1>1, <1>2, <2>2, <3>2
  <2> QED
    BY <1>5, <2>1, <2>3
<1>11. LowIsAlone'
  <2> SUFFICES ASSUME NEW w \in Thread, mine'[w].pc = "call", NEW a \in accepted',
                      a[1] = Basis(w)', mine'[w].at <= a[2]
               PROVE  /\ ~HasChildNow(a[1])
                      /\ bestBlockHash' # a[1]
                      /\ \A u \in Thread \ {w} : ~InCall(u)'
    BY DEF LowIsAlone, HasChild, HasChildNow
  <2>1. Building(w)' /\ mine[w].pc = "call" /\ mine[w].at <= a[2]
    BY <1>1 DEF Building
  <2>2. w # t /\ Building(w) /\ a[1] = Basis(w) /\ a \in accepted
    BY <1>3, <1>7, <2>1
  <2>3. /\ ~HasChild(a[1])
        /\ bestBlockHash # a[1]
        /\ b.prev # a[1]
    BY <1>1, <2>1, <2>2 DEF LowIsAlone, b
  <2>4. hash # a[1]
    BY <1>1, <2>2, <2>3 DEF BasisStays, hash, b
  <2> QED
    BY <1>1, <1>5, <1>6, <2>2, <2>3, <2>4
<1>12. ResultsTrue'
  <2> SUFFICES ASSUME NEW u \in Thread, mine'[u].pc = "announce"
               PROVE  IF InCall(u)'
                      THEN frame'[u].block = mine'[u].block /\ frame'[u].at = mine'[u].at
                      ELSE frame'[u].result =>
                              \E a \in accepted' : /\ a[1] = BlockHash(mine'[u].block)
                                                   /\ a[2] <= mine'[u].at
    BY DEF ResultsTrue
  <2>1. CASE u = t
    <3> DEFINE p == <<hash, n>>
    <3>1. p \in accepted' /\ p[1] = hash /\ p[2] = n
      BY <1>1
    <3>2. hash = BlockHash(mine[t].block) /\ n = mine[t].at
      BY <1>1 DEF ResultsTrue, hash, b, n
    <3> HIDE DEF p
    <3>3. p[1] = BlockHash(mine'[u].block) /\ p[2] <= mine'[u].at
      BY <1>1, <1>2, <2>1, <3>1, <3>2
    <3> QED
      BY <1>1, <2>1, <3>1, <3>3
  <2>2. CASE u # t
    <3>1. frame'[u] = frame[u] /\ mine'[u] = mine[u] /\ (InCall(u)' <=> InCall(u))
      BY <1>1, <2>2 DEF InCall
    <3> QED
      BY <1>1, <3>1 DEF ResultsTrue
  <2> QED
    BY <2>1, <2>2
<1>13. AnnouncedIsAccepted'
  BY <1>1 DEF AnnouncedIsAccepted
<1> QED
  BY <1>8, <1>9, <1>10, <1>11, <1>12, <1>13

\* At first nothing is announced and nobody calls.
LEMMA InitAnnounce == MinerInit => AnnounceInv
<1> SUFFICES ASSUME MinerInit PROVE AnnounceInv
  OBVIOUS
<1>1. \A t \in Thread : mine[t].pc = "off" /\ frame[t].pc = "idle"
  BY DEF MinerInit, Init, Loop, IdleFrame
<1>2. /\ announced = {}
      /\ accepted = {<<BlockHash(Genesis), 0>>}
      /\ DOMAIN blockCache = {BlockHash(Genesis)}
  BY DEF MinerInit, Init, Assign
<1>3. CachedIsAccepted
  BY <1>2 DEF CachedIsAccepted
<1>4. ChildrenHold /\ BasisHolds /\ LowIsAlone /\ ResultsTrue
  BY <1>1 DEF ChildrenHold, BasisHolds, LowIsAlone, ResultsTrue, InCall, Building
<1> QED
  BY <1>2, <1>3, <1>4, InitBasis DEF AnnounceInv, AnnouncedIsAccepted

\* Every step keeps announcements true.
LEMMA StepAnnounce ==
    Offers /\ TwoThreads /\ AnnounceInv /\ [MinerNext]_nodeVars => AnnounceInv'
<1> SUFFICES ASSUME Offers, TwoThreads, AnnounceInv, [MinerNext]_nodeVars PROVE AnnounceInv'
  OBVIOUS
<1> DEFINE Kept == /\ CachedIsAccepted' /\ ChildrenHold' /\ BasisHolds' /\ LowIsAlone'
                   /\ ResultsTrue' /\ AnnouncedIsAccepted'
<1>1. BasisInv'
  BY StepBasis DEF AnnounceInv
<1>2. ASSUME UNCHANGED <<vars, announced>>,
             \A t \in Thread : mine'[t] = mine[t] \/ mine'[t].pc = "loop"
      PROVE  Kept
  <2>1. /\ UNCHANGED <<bestBlockHash, height, blockCache, frame, accepted>>
        /\ \A t \in Thread : Building(t)' =>
              mine'[t] = mine[t] /\ Building(t) /\ Basis(t)' = Basis(t)
    BY <1>2, QuietBasis
  <2>2. \A hash : HasChild(hash)' <=> HasChild(hash)
    BY <2>1 DEF HasChild
  <2>3. \A t \in Thread : InCall(t)' <=> InCall(t)
    BY <2>1 DEF InCall
  <2>4. CachedIsAccepted' /\ AnnouncedIsAccepted'
    BY <1>2, <2>1 DEF AnnounceInv, CachedIsAccepted, AnnouncedIsAccepted
  <2>5. ChildrenHold'
    BY <2>1, <2>2, <2>3 DEF AnnounceInv, ChildrenHold
  <2>6. BasisHolds'
    BY <2>1, <2>2, <2>3 DEF AnnounceInv, BasisHolds
  <2>7. LowIsAlone'
    <3>1. \A t \in Thread : mine'[t].pc = "call" => Building(t)'
      BY DEF Building
    <3> QED
      BY <2>1, <2>2, <2>3, <3>1 DEF AnnounceInv, LowIsAlone
  <2>8. ResultsTrue'
    BY <1>2, <2>1, <2>3 DEF AnnounceInv, ResultsTrue
  <2> QED
    BY <2>4, <2>5, <2>6, <2>7, <2>8
<1>3. ASSUME NEW t \in Thread, InsideAddBlock(t) PROVE Kept
  <2>1. CASE Commit(t)
    BY <1>1, <1>3, <2>1, CommitAnnounceInv DEF BasisInv
  <2>2. CASE ~Commit(t)
    BY <1>3, <2>2, InsideAnnounceInv
  <2> QED
    BY <2>1, <2>2
<1>4. ASSUME NEW t \in Thread, LoopStep(t) \/ CallAddBlock(t) PROVE Kept
  BY <1>4, LoopAnnounceInv, CallAnnounceInv
<1>5. MinerInv /\ StopInv
  BY DEF AnnounceInv, BasisInv
<1> HIDE DEF Kept
<1>6. Kept
  BY <1>2, <1>3, <1>4, <1>5, MinerSteps
<1> QED
  BY <1>1, <1>6 DEF AnnounceInv, Kept

\* AnnouncedIsAccepted: with at most two mining threads every block the feed
\* calls mined was committed, at the announced height or below it.
THEOREM TwoThreadsAnnounce ==
    ASSUME Offers, TwoThreads
    PROVE  MinerSpec => []AnnouncedIsAccepted
<1>1. AnnounceInv => AnnouncedIsAccepted
  BY DEF AnnounceInv
<1>2. MinerInit => AnnounceInv
  BY InitAnnounce
<1>3. AnnounceInv /\ [MinerNext]_nodeVars => AnnounceInv'
  BY StepAnnounce
<1> QED
  BY <1>1, <1>2, <1>3, PTL DEF MinerSpec

-----------------------------------------------------------------------------
(* What is spent is backed by what was put, for any number of threads.     *)

\* What a step of connectBlock does to the coins and to what the thread has
\* still to do.
Progress(t) ==
    LET block == frame[t].block
        todo  == frame[t].todo
        Goes(pc, rest) == frame'[t].pc = pc /\ frame'[t].block = block /\ frame'[t].todo = rest
    IN  \/ /\ UNCHANGED utxo /\ ~At(t, "put")
           /\ frame'[t].pc \notin {"inputs", "has", "spend", "put"}
        \/ UNCHANGED utxo /\ At(t, "txs") /\ Goes("inputs", InputPositions(block))
        \/ \E p \in todo :
              /\ UNCHANGED utxo /\ At(t, "inputs") /\ SpentAt(block, p) \in DOMAIN utxo
              /\ Goes("inputs", todo \ {p})
        \/ UNCHANGED utxo /\ At(t, "inputs") /\ todo = {} /\ Goes("has", InputPositions(block))
        \/ UNCHANGED utxo /\ At(t, "has") /\ Goes("spend", todo)
        \/ UNCHANGED utxo /\ At(t, "has") /\ todo = {} /\ Goes("put", OutputPositions(block))
        \/ \E p \in todo :
              /\ At(t, "spend") /\ DOMAIN utxo' = DOMAIN utxo \ {SpentAt(block, p)}
              /\ Goes("has", todo \ {p})
        \/ \E p \in todo :
              /\ At(t, "put") /\ DOMAIN utxo' = DOMAIN utxo \cup {CreatedAt(block, p)}
              /\ Goes("put", todo \ {p})

\* Every step before the commit is one of these.
LEMMA InsideProgress ==
    ASSUME TypeOK, NEW t \in Thread, Step(t), ~Commit(t)
    PROVE  Progress(t)
<1>0. frame \in [Thread -> Frame]
  BY DEF TypeOK
<1>1. ASSUME NEW r, Return(t, r) PROVE frame'[t].pc = "idle"
  BY <1>0, <1>1 DEF Return, IdleFrame
<1>2. ASSUME NEW pc, Goto(t, pc)
      PROVE  frame'[t].pc = pc /\ frame'[t].block = frame[t].block
             /\ frame'[t].todo = frame[t].todo
  BY <1>0, <1>2 DEF Goto, Frame
<1>3. ASSUME NEW pc, NEW todo, GotoWith(t, pc, todo)
      PROVE  frame'[t].pc = pc /\ frame'[t].block = frame[t].block /\ frame'[t].todo = todo
  BY <1>0, <1>3 DEF GotoWith, Frame
<1>4. CASE ValidateStructure(t)
  <2>1. /\ UNCHANGED utxo /\ frame[t].pc = "structure"
        /\ Goto(t, "height") \/ Return(t, FALSE)
    BY <1>4 DEF ValidateStructure
  <2> QED
    BY <1>1, <1>2, <2>1 DEF Progress
<1>5. CASE ReadHeight(t)
  <2>1. CASE frame' = [frame EXCEPT ![t].pc = "prev", ![t].tip = height]
    <3>1. frame'[t].pc = "prev"
      BY <1>0, <2>1 DEF Frame
    <3>2. UNCHANGED utxo /\ frame[t].pc = "height"
      BY <1>5 DEF ReadHeight
    <3> QED
      BY <3>1, <3>2 DEF Progress
  <2>2. /\ UNCHANGED utxo /\ frame[t].pc = "height"
        /\ Goto(t, "txs") \/ frame' = [frame EXCEPT ![t].pc = "prev", ![t].tip = height]
    BY <1>5 DEF ReadHeight
  <2> QED
    BY <1>2, <2>1, <2>2 DEF Progress
<1>6. CASE ReadPrevBlock(t)
  <2>1. ASSUME NEW b, frame' = [frame EXCEPT ![t].pc = "first", ![t].prev = b]
        PROVE  frame'[t].pc = "first"
    BY <1>0, <2>1 DEF Frame
  <2>2. /\ UNCHANGED utxo /\ frame[t].pc = "prev"
        /\ \/ Goto(t, "txs") \/ Return(t, FALSE)
           \/ frame' = [frame EXCEPT ![t].pc = "first", ![t].prev = BlockAt(frame[t].tip)]
    BY <1>6 DEF ReadPrevBlock
  <2> QED
    BY <1>1, <1>2, <2>1, <2>2 DEF Progress
<1>7. CASE ReadFirstBlock(t)
  <2>1. /\ UNCHANGED utxo /\ frame[t].pc = "first"
        /\ Goto(t, "txs") \/ Return(t, FALSE)
    BY <1>7 DEF ReadFirstBlock
  <2> QED
    BY <1>1, <1>2, <2>1 DEF Progress
<1>8. CASE ValidateTransactions(t)
  <2>1. /\ UNCHANGED utxo /\ frame[t].pc = "txs"
        /\ GotoWith(t, "inputs", InputPositions(frame[t].block)) \/ Return(t, FALSE)
    BY <1>8 DEF ValidateTransactions
  <2> QED
    BY <1>1, <1>3, <2>1 DEF Progress
<1>9. CASE CheckInput(t)
  <2>1. UNCHANGED utxo /\ frame[t].pc = "inputs"
    BY <1>9 DEF CheckInput
  <2>2. \/ frame[t].todo = {} /\ GotoWith(t, "has", InputPositions(frame[t].block))
        \/ Return(t, FALSE)
        \/ \E p \in frame[t].todo : /\ SpentAt(frame[t].block, p) \in DOMAIN utxo
                                    /\ GotoWith(t, "inputs", frame[t].todo \ {p})
    BY <1>9 DEF CheckInput
  <2> QED
    BY <1>1, <1>3, <2>1, <2>2 DEF Progress
<1>10. CASE HasInput(t)
  <2>1. UNCHANGED utxo /\ frame[t].pc = "has"
    BY <1>10 DEF HasInput
  <2>2. \/ frame[t].todo = {} /\ GotoWith(t, "put", OutputPositions(frame[t].block))
        \/ Return(t, FALSE)
        \/ Goto(t, "spend")
    BY <1>10 DEF HasInput
  <2> QED
    BY <1>1, <1>2, <1>3, <2>1, <2>2 DEF Progress
<1>11. CASE SpendInput(t)
  <2>1. PICK p \in frame[t].todo : /\ frame[t].pc = "spend"
                                   /\ utxo' = Erase(utxo, SpentAt(frame[t].block, p))
                                   /\ GotoWith(t, "has", frame[t].todo \ {p})
    BY <1>11 DEF SpendInput
  <2>2. DOMAIN utxo' = DOMAIN utxo \ {SpentAt(frame[t].block, p)}
    BY <2>1 DEF Erase
  <2> QED
    BY <1>3, <2>1, <2>2 DEF Progress
<1>12. CASE PutOutput(t)
  <2>1. PICK p \in frame[t].todo :
            /\ frame[t].pc = "put"
            /\ utxo' = Assign(utxo, CreatedAt(frame[t].block, p), OutputAt(frame[t].block, p))
            /\ GotoWith(t, "put", frame[t].todo \ {p})
    BY <1>12 DEF PutOutput
  <2>2. DOMAIN utxo' = DOMAIN utxo \cup {CreatedAt(frame[t].block, p)}
    BY <2>1 DEF Assign
  <2> QED
    BY <1>3, <2>1, <2>2 DEF Progress
<1> QED
  BY <1>4, <1>5, <1>6, <1>7, <1>8, <1>9, <1>10, <1>11, <1>12 DEF Step

\* A branch holds its blocks' parents.
LEMMA BranchCloses ==
    ASSUME NEW hash, NEW h \in Branch(hash), blockCache[h].prev \in DOMAIN blockCache
    PROVE  blockCache[h].prev \in Branch(hash)
BY DEF Branch, Closed

\* A block that is put on another one, or put there again, adds nothing to the
\* branches of the others, and itself to that of its parent.
LEMMA BranchGrows ==
    ASSUME NEW x, NEW p, DOMAIN blockCache' = DOMAIN blockCache \cup {x}, blockCache'[x].prev = p,
           \A h \in DOMAIN blockCache : blockCache'[h].prev = blockCache[h].prev,
           \A h \in DOMAIN blockCache : x \notin DOMAIN blockCache => blockCache[h].prev # x
    PROVE  /\ \A hash \in DOMAIN blockCache : Branch(hash)' \subseteq Branch(hash)
           /\ x \notin DOMAIN blockCache /\ p \in DOMAIN blockCache =>
                 Branch(x)' \subseteq {x} \cup Branch(p)
<1>1. ASSUME NEW S \in SUBSET DOMAIN blockCache, Closed(S)
      PROVE  Closed(S)'
  BY <1>1 DEF Closed
<1>2. ASSUME NEW hash \in DOMAIN blockCache, NEW g \in Branch(hash)'
      PROVE  g \in Branch(hash)
  <2>1. \A S \in SUBSET DOMAIN blockCache' : hash \in S /\ Closed(S)' => g \in S
    BY <1>2 DEF Branch
  <2>2. \A S \in SUBSET DOMAIN blockCache : hash \in S /\ Closed(S) => g \in S
    BY <1>1, <2>1
  <2>3. Closed(DOMAIN blockCache)
    BY DEF Closed
  <2> QED
    BY <2>2, <2>3 DEF Branch
<1>3. ASSUME x \notin DOMAIN blockCache, p \in DOMAIN blockCache, NEW g \in Branch(x)'
      PROVE  g \in {x} \cup Branch(p)
  <2>0. PICK S : S = {x} \cup Branch(p)
    OBVIOUS
  <2>1. Branch(p) \subseteq DOMAIN blockCache /\ p \in Branch(p)
    BY <1>3 DEF Branch
  <2>2. S \in SUBSET DOMAIN blockCache' /\ x \in S
    BY <2>0, <2>1
  <2>3. Closed(S)'
    <3>1. ASSUME NEW h \in S, blockCache'[h].prev \in DOMAIN blockCache'
          PROVE  blockCache'[h].prev \in S
      <4>1. CASE h = x
        BY <2>0, <2>1, <4>1
      <4>2. CASE h # x
        <5>1. h \in Branch(p) /\ h \in DOMAIN blockCache
          BY <2>0, <2>1, <4>2
        <5>2. blockCache[h].prev \in DOMAIN blockCache
          BY <1>3, <3>1, <5>1
        <5>3. blockCache[h].prev \in Branch(p)
          BY <5>1, <5>2, BranchCloses
        <5> QED
          BY <2>0, <5>1, <5>3
      <4> QED
        BY <4>1, <4>2
    <3> QED
      BY <3>1 DEF Closed
  <2>4. \A T \in SUBSET DOMAIN blockCache' : x \in T /\ Closed(T)' => g \in T
    BY <1>3 DEF Branch
  <2>5. g \in S
    BY <2>2, <2>3, <2>4
  <2> QED
    BY <2>0, <2>5
<1> QED
  BY <1>2, <1>3

-----------------------------------------------------------------------------
(* What miners offer.                                                      *)

\* A transaction that Add has taken.
FromPool(tx) == tx \in Tx /\ TxId(tx) \in DOMAIN pool /\ tx.outputs # << >>

\* A coinbase and transactions of the pool.
Built(block) ==
    /\ Len(block.txs) \in Nat /\ DOMAIN block.txs = 1..Len(block.txs)
    /\ block.txs # << >> => block.txs[1].inputs = Coinbase(0).inputs
    /\ \A i \in 2..Len(block.txs) : FromPool(block.txs[i])

\* Only blocks of the miner are offered, and are in the chain besides genesis.
Offered ==
    /\ \A id \in DOMAIN pool : pool[id].outputs # << >>
    /\ \A t \in Thread : In(t, "mine") => \A i \in DOMAIN mine[t].txs : FromPool(mine[t].txs[i])
    /\ \A t \in Thread : In(t, "call") => Built(mine[t].block)
    /\ \A t \in Thread : InCall(t) => Built(frame[t].block)
    /\ \A h \in DOMAIN blockCache :
          IF h = BlockHash(Genesis) THEN blockCache[h] = Genesis ELSE Built(blockCache[h])

\* A template is taken from the pool.
LEMMA TemplateFromPool ==
    ASSUME PoolTyped, \A id \in DOMAIN pool : pool[id].outputs # << >>
    PROVE  \A i \in DOMAIN Template : FromPool(Template[i])
<1> SUFFICES ASSUME NEW i \in DOMAIN Template PROVE FromPool(Template[i])
  OBVIOUS
<1>1. Template \in Seq(Tx) /\ {TxId(Template[j]) : j \in DOMAIN Template} = DOMAIN pool
  BY TemplateType
<1> DEFINE tx == Template[i]
           id == TxId(tx)
<1>2. tx \in Tx /\ id \in DOMAIN pool
  BY <1>1
<1>3. TxId(pool[id]) = id
  BY <1>2 DEF PoolTyped
<1> HIDE DEF tx
<1>4. pool[id].outputs = tx.outputs
  BY <1>3 DEF TxId
<1> HIDE DEF id
<1>5. tx.outputs # << >>
  BY <1>2, <1>4
<1> QED
  BY <1>2, <1>5 DEF FromPool, tx, id

\* A candidate is a coinbase and its template.
LEMMA CandidateIsBuilt ==
    ASSUME NEW m, m.txs \in Seq(Tx), \A i \in DOMAIN m.txs : FromPool(m.txs[i]), NEW nonce
    PROVE  Built(Candidate(m, nonce))
<1> DEFINE first == Coinbase(m.reward)
           rest == m.txs
           all == <<first>> \o rest
<1>1. Candidate(m, nonce).txs = all
  BY DEF Candidate
<1>2. first.inputs = Coinbase(0).inputs
  BY DEF Coinbase
<1>3. /\ Len(all) \in Nat /\ DOMAIN all = 1..Len(all) /\ all[1] = first
      /\ \A i \in 2..Len(all) : i - 1 \in DOMAIN rest /\ all[i] = rest[i - 1]
  <2>1. rest \in Seq(Tx)
    OBVIOUS
  <2> HIDE DEF first, rest
  <2> QED
    BY <2>1
<1>4. \A i \in 2..Len(all) : FromPool(all[i])
  BY <1>3
<1> HIDE DEF all, first
<1> QED
  BY <1>1, <1>2, <1>3, <1>4 DEF Built

\* What was taken from the pool is still there: nothing leaves it.
LEMMA PoolGrows ==
    ASSUME Offered, DOMAIN pool \subseteq DOMAIN pool'
    PROVE  /\ \A tx : FromPool(tx) => FromPool(tx)'
           /\ \A b : Built(b) => Built(b)'
<1>1. \A tx : FromPool(tx) => FromPool(tx)'
  BY DEF FromPool
<1> QED
  BY <1>1 DEF Built

\* At first nothing is offered.
LEMMA InitOffered == MinerInit => Offered
<1> SUFFICES ASSUME MinerInit PROVE Offered
  OBVIOUS
<1>1. /\ DOMAIN pool = {} /\ \A t \in Thread : mine[t].pc = "off" /\ frame[t].pc = "idle"
  BY DEF MinerInit, Init, Loop, IdleFrame
<1>2. DOMAIN blockCache = {BlockHash(Genesis)} /\ blockCache[BlockHash(Genesis)] = Genesis
  BY DEF MinerInit, Init, Assign
<1> QED
  BY <1>1, <1>2 DEF Offered, InCall

\* Every step offers the pool's transactions and nothing else.
LEMMA StepOffered ==
    ASSUME MinerInv, StopInv, DepthInv, Offered, [MinerNext]_nodeVars
    PROVE  Offered'
<1>0. mine \in [Thread -> LoopState] /\ PoolTyped
  BY DEF MinerInv, LoopsTyped
<1>1. ASSUME NEW tx \in Tx, Add(tx) PROVE Offered'
  <2>1. /\ tx.outputs # << >> /\ pool' = Assign(pool, TxId(tx), tx)
        /\ UNCHANGED <<mine, frame, blockCache>>
    BY <1>1 DEF Add, ValidateTransactionStructure, vars, chainVars
  <2> DEFINE id == TxId(tx)
  <2> HIDE DEF id
  <2>2. /\ DOMAIN pool' = DOMAIN pool \cup {id}
        /\ \A k \in DOMAIN pool' : pool'[k] = IF k = id THEN tx ELSE pool[k]
    BY <2>1 DEF Assign, id
  <2>3. \A k \in DOMAIN pool' : pool'[k].outputs # << >>
    BY <2>1, <2>2 DEF Offered
  <2>4. (\A x : FromPool(x) => FromPool(x)') /\ (\A b : Built(b) => Built(b)')
    BY <2>2, PoolGrows
  <2> QED
    BY <2>1, <2>3, <2>4 DEF Offered, InCall
<1>2. ASSUME ~(\E tx \in Tx : Add(tx)) PROVE UNCHANGED pool
  BY <1>2 DEF MinerNext, Start, Stop, Join, MiningStep, LoadFlag, ReadBest, ReadReward,
     GetBlockTemplate, MineBlock, CallAddBlock, InsideAddBlock, Announce, nodeVars, minerVars
<1>3. ASSUME UNCHANGED pool
      PROVE  /\ \A id \in DOMAIN pool' : pool'[id].outputs # << >>
             /\ \A x : FromPool(x) <=> FromPool(x)'
             /\ \A b : Built(b) <=> Built(b)'
  BY <1>3 DEF Offered, FromPool, Built
<1>4. ASSUME UNCHANGED pool, UNCHANGED vars,
             \A t \in Thread : mine'[t] = mine[t] \/ mine'[t].pc \notin {"mine", "call"}
      PROVE  Offered'
  <2>1. UNCHANGED <<frame, blockCache>>
    BY <1>4 DEF vars, chainVars
  <2> QED
    BY <1>3, <1>4, <2>1 DEF Offered, InCall
<1>5. ASSUME NEW t \in Thread, LoopStep(t) PROVE Offered'
  <2>1. UNCHANGED vars /\ \A u \in Thread \ {t} : mine'[u] = mine[u]
    BY <1>0, <1>5, LoopEffect
  <2>2. UNCHANGED pool /\ UNCHANGED <<frame, blockCache>>
    BY <1>5, <2>1 DEF LoopStep, LoadFlag, ReadBest, ReadReward, GetBlockTemplate, MineBlock,
       Announce, vars, chainVars
  <2>3. CASE mine'[t].pc \notin {"mine", "call"}
    BY <1>4, <2>1, <2>2, <2>3
  <2>4. CASE GetBlockTemplate(t)
    <3>1. mine'[t].pc = "mine" /\ mine'[t].txs = Template
      BY <1>0, <2>4 DEF GetBlockTemplate, LoopState
    <3>2. \A i \in DOMAIN mine'[t].txs : FromPool(mine'[t].txs[i])
      BY <1>0, <3>1, TemplateFromPool DEF Offered
    <3> QED
      BY <1>3, <2>1, <2>2, <3>1, <3>2 DEF Offered, InCall
  <2>5. CASE MineBlock(t) /\ mine'[t].pc = "call"
    <3>1. PICK n : mine' = [mine EXCEPT ![t] = [Loop("call") EXCEPT !.block = Candidate(mine[t], n),
                                                                    !.at = height + 1]]
      <4>1. mine' # [mine EXCEPT ![t] = Loop("loop")]
        BY <1>0, <2>5 DEF Loop
      <4> QED
        BY <2>5, <4>1 DEF MineBlock
    <3> DEFINE b == Candidate(mine[t], n)
    <3>2. Built(b)
      <4>1. mine[t].txs \in Seq(Tx) /\ \A i \in DOMAIN mine[t].txs : FromPool(mine[t].txs[i])
        BY <1>0, <2>5 DEF MineBlock, Offered, LoopState
      <4> QED
        BY <4>1, CandidateIsBuilt
    <3> HIDE DEF b
    <3>3. mine'[t].pc = "call" /\ mine'[t].block = b
      BY <1>0, <3>1 DEF Loop, b
    <3> QED
      BY <1>3, <2>1, <2>2, <3>2, <3>3 DEF Offered, InCall
  <2>6. \/ mine'[t].pc \notin {"mine", "call"}
        \/ GetBlockTemplate(t)
        \/ MineBlock(t) /\ mine'[t].pc = "call"
    <3>1. CASE LoadFlag(t)
      BY <1>0, <3>1 DEF LoadFlag, Loop, LoopState
    <3>5. CASE Announce(t)
      BY <1>0, <3>5 DEF Announce, Loop
    <3>2. CASE ReadBest(t)
      BY <1>0, <3>2 DEF ReadBest
    <3>3. CASE ReadReward(t)
      <4> DEFINE reward == GetBlockSubsidy(height + 1)
      <4> HIDE DEF reward
      <4>1. mine' = [mine EXCEPT ![t].pc = "template", ![t].reward = reward]
        BY <3>3 DEF ReadReward, reward
      <4> QED
        BY <1>0, <4>1
    <3>4. CASE MineBlock(t)
      <4>1. CASE mine' = [mine EXCEPT ![t] = Loop("loop")]
        BY <1>0, <4>1 DEF Loop
      <4>2. ASSUME NEW n,
                   mine' = [mine EXCEPT ![t] = [Loop("call") EXCEPT !.block = Candidate(mine[t], n),
                                                                    !.at = height + 1]]
            PROVE  mine'[t].pc = "call"
        <5> DEFINE b == Candidate(mine[t], n)
        <5> HIDE DEF b
        <5>1. mine' = [mine EXCEPT ![t] = [Loop("call") EXCEPT !.block = b, !.at = height + 1]]
          BY <4>2 DEF b
        <5> QED
          BY <1>0, <5>1 DEF Loop
      <4> QED
        BY <3>4, <4>1, <4>2 DEF MineBlock
    <3> QED
      BY <1>5, <3>1, <3>2, <3>3, <3>4, <3>5 DEF LoopStep
  <2> QED
    BY <2>3, <2>4, <2>5, <2>6
<1>6. ASSUME NEW t \in Thread, CallAddBlock(t) PROVE Offered'
  <2>1. UNCHANGED pool
    BY <1>6 DEF CallAddBlock
  <2> QED
    BY <1>3, <1>6, <2>1, CallEffect DEF Offered, InCall, chainVars
<1>7. ASSUME NEW t \in Thread, InsideAddBlock(t), ~Commit(t) PROVE Offered'
  <2>1. UNCHANGED pool
    BY <1>7 DEF InsideAddBlock, minerVars
  <2> QED
    BY <1>3, <1>7, <2>1, InsideEffect DEF Offered, InCall, chainVars
<1>8. ASSUME NEW t \in Thread, InsideAddBlock(t), Commit(t) PROVE Offered'
  <2>1. UNCHANGED pool
    BY <1>8 DEF InsideAddBlock, minerVars
  <2>2. BlockHash(frame[t].block) # BlockHash(Genesis) /\ Built(frame[t].block)
    BY <1>8 DEF Commit, DepthInv, Admitted, Offered, InCall
  <2>3. /\ UNCHANGED mine /\ frame'[t].pc = "idle"
        /\ \A u \in Thread \ {t} : frame'[u] = frame[u]
        /\ bestBlockHash' = BlockHash(frame[t].block)
        /\ DOMAIN blockCache' = DOMAIN blockCache \cup {bestBlockHash'}
        /\ blockCache'[bestBlockHash'] = frame[t].block
        /\ \A h \in DOMAIN blockCache : h # bestBlockHash' => blockCache'[h] = blockCache[h]
    BY <1>8, CommitEffect
  <2>4. \A h \in DOMAIN blockCache' :
            IF h = BlockHash(Genesis) THEN blockCache'[h] = Genesis ELSE Built(blockCache'[h])
    BY <2>2, <2>3 DEF Offered
  <2> QED
    BY <1>3, <2>1, <2>3, <2>4 DEF Offered, InCall
<1>9. ASSUME UNCHANGED <<vars, pool>>, \A t \in Thread : mine'[t] = mine[t] \/ mine'[t].pc = "loop"
      PROVE  Offered'
  BY <1>4, <1>9
<1> QED
  BY <1>1, <1>2, <1>5, <1>6, <1>7, <1>8, <1>9, MinerSteps

-----------------------------------------------------------------------------
(* What was put, what is spent, and what is on a branch.                   *)

PutsTyped ==
    /\ IsFiniteSet(DOMAIN blockCache)
    /\ CoinbaseOutPoint \notin DOMAIN puts
    /\ \A op \in DOMAIN puts : puts[op] \in Nat

\* The branch may spend the coin as many times more.
Backs(hash, op, more) == Cardinality(Spenders(hash, op)) + more <= Minted(op)

Left(op) == IF op \in DOMAIN utxo THEN 1 ELSE 0

\* The thread builds on this branch, and has found this coin unspent.
Found(t, hash, op) ==
    /\ frame[t].pc \in {"inputs", "has", "spend", "put"}
    /\ hash = frame[t].block.prev
    /\ \E p \in InputPositions(frame[t].block) :
          op = SpentAt(frame[t].block, p) /\ (At(t, "inputs") => p \notin frame[t].todo)

\* Or has spent it, though it may have been put again since.
Spent(t, hash, op) ==
    /\ frame[t].pc \in {"has", "spend", "put"}
    /\ hash = frame[t].block.prev
    /\ \E p \in InputPositions(frame[t].block) :
          op = SpentAt(frame[t].block, p) /\ (At(t, "put") \/ p \notin frame[t].todo)

\* Then its branch may spend the coin once more, and what is unspent besides.
FoundIsBacked(t) == \A hash, op : Found(t, hash, op) => Backs(hash, op, 1)

SpentIsBacked(t) == \A hash, op : Spent(t, hash, op) => Backs(hash, op, 1 + Left(op))

\* A branch can spend what is unspent.
ChainIsBacked == \A hash \in DOMAIN blockCache : \A op : Backs(hash, op, Left(op))

CoinsBacked == ChainIsBacked /\ \A t \in Thread : FoundIsBacked(t) /\ SpentIsBacked(t)

ChainInv == MinerInv /\ StopInv /\ DepthInv /\ StoreIsClosed /\ CoinInv /\ Offered

BackedInv == ChainInv /\ PutsTyped /\ CoinsBacked

\* The hash of a block commits to the coins that it spends.
LEMMA SameSpends ==
    ASSUME NEW b \in Blocks, NEW c \in Blocks, HasItsRoot(b), HasItsRoot(c),
           BlockHash(b) = BlockHash(c), Built(b), Built(c),
           NEW op \in SpentBy(b), op # CoinbaseOutPoint
    PROVE  op \in SpentBy(c)
<1>1. PICK p \in InputPositions(b) : op = SpentAt(b, p)
  BY DEF SpentBy
<1>2. PICK i \in 2..Len(b.txs) : \E j \in DOMAIN b.txs[i].inputs : p = <<i, j>>
  BY <1>1 DEF InputPositions
<1>3. PICK j \in DOMAIN b.txs[i].inputs : p = <<i, j>>
  BY <1>2
<1> DEFINE tx == b.txs[i]
<1>4. op = tx.inputs[j].prev /\ tx \in Tx /\ tx.outputs # << >> /\ i \in DOMAIN b.txs
  BY <1>1, <1>3 DEF SpentAt, Built, FromPool
<1>5. 1 \in DOMAIN tx.outputs
  <2> HIDE DEF tx
  <2>1. tx.outputs \in Seq({tx.outputs[k] : k \in DOMAIN tx.outputs}) /\ tx.outputs # << >>
    BY <1>4, OutputsAreLists
  <2> DEFINE S == {tx.outputs[k] : k \in DOMAIN tx.outputs}
             o == tx.outputs
  <2>2. o \in Seq(S) /\ o # << >>
    BY <2>1
  <2> HIDE DEF S, o
  <2>3. 1 \in DOMAIN o
    BY <2>2
  <2> QED
    BY <2>3 DEF o
<1>6. OutPoint(TxId(tx), 0) \in CreatedBy(b)
  <2>1. <<i, 1>> \in OutputPositions(b)
    BY <1>4, <1>5 DEF OutputPositions
  <2>2. CreatedAt(b, <<i, 1>>) = OutPoint(TxId(tx), 0)
    BY DEF CreatedAt
  <2> QED
    BY <2>1, <2>2 DEF CreatedBy
<1>7. OutPoint(TxId(tx), 0) \in CreatedBy(c)
  BY <1>6, HashCommits DEF Blocks
<1>8. PICK q \in OutputPositions(c) : CreatedAt(c, q) = OutPoint(TxId(tx), 0)
  BY <1>7 DEF CreatedBy
<1> DEFINE k == q[1]
           other == c.txs[k]
<1>9. k \in DOMAIN c.txs
  BY DEF OutputPositions
<1>10. TxId(other) = TxId(tx)
  BY <1>8 DEF CreatedAt, OutPoint
<1>11. DOMAIN other.inputs = DOMAIN tx.inputs /\ other.inputs[j].prev = tx.inputs[j].prev
  <2> HIDE DEF other, tx
  <2>1. [n \in DOMAIN other.inputs |-> other.inputs[n].prev] = [n \in DOMAIN tx.inputs |-> tx.inputs[n].prev]
    BY <1>10 DEF TxId
  <2>2. j \in DOMAIN tx.inputs
    BY DEF tx
  <2> QED
    BY <2>1, <2>2
<1>12. Len(c.txs) \in Nat /\ k \in 1..Len(c.txs)
  BY <1>9 DEF Built
<1>13. CASE k = 1
  <2>1. other.inputs = Coinbase(0).inputs
    <3>1. c.txs # << >>
      BY <1>9
    <3> QED
      BY <1>13, <3>1 DEF Built
  <2>2. Coinbase(0).inputs = <<[prev |-> CoinbaseOutPoint, sig |-> NullHash]>>
    BY DEF Coinbase
  <2>3. j = 1 /\ other.inputs[j].prev = CoinbaseOutPoint
    <3>1. DOMAIN other.inputs = {1} /\ other.inputs[1].prev = CoinbaseOutPoint
      BY <2>1, <2>2
    <3> QED
      BY <1>11, <3>1
  <2> QED
    BY <1>4, <1>11, <2>3
<1>14. CASE k # 1
  <2>1. k \in 2..Len(c.txs) /\ j \in DOMAIN other.inputs
    BY <1>11, <1>12, <1>14
  <2>2. <<k, j>> \in InputPositions(c)
    BY <2>1 DEF InputPositions
  <2>3. SpentAt(c, <<k, j>>) = op
    BY <1>4, <1>11 DEF SpentAt
  <2> QED
    BY <2>2, <2>3 DEF SpentBy
<1> QED
  BY <1>13, <1>14

\* Puts are counted: their number never falls.
LEMMA PutsAreCounted ==
    ASSUME PutsTyped, CountPuts, NEW op
    PROVE  /\ Minted(op) \in Nat /\ Minted(op)' \in Nat
           /\ Minted(op)' = Minted(op) + IF op \in PutNow THEN 1 ELSE 0
<1>1. Minted(op) \in Nat
  BY DEF Minted, PutsTyped
<1>2. puts' = [o \in DOMAIN puts \cup PutNow |-> Minted(o) + IF o \in PutNow THEN 1 ELSE 0]
  BY DEF CountPuts
<1> DEFINE new == PutNow
<1> HIDE DEF new
<1>3. puts' = [o \in DOMAIN puts \cup new |-> Minted(o) + IF o \in new THEN 1 ELSE 0]
  BY <1>2 DEF new
<1>4. DOMAIN puts' = DOMAIN puts \cup new
  BY <1>3
<1>5. Minted(op)' = Minted(op) + IF op \in new THEN 1 ELSE 0
  <2>1. CASE op \in DOMAIN puts \cup new
    <3>1. puts'[op] = Minted(op) + IF op \in new THEN 1 ELSE 0
      BY <1>3, <2>1
    <3> QED
      BY <1>4, <2>1, <3>1 DEF Minted
  <2>2. CASE op \notin DOMAIN puts \cup new
    BY <1>1, <1>4, <2>2 DEF Minted
  <2> QED
    BY <2>1, <2>2
<1> QED
  BY <1>1, <1>5 DEF new

\* Branches are finite, and their spenders can be counted.
LEMMA SpendersAreFinite ==
    ASSUME PutsTyped, NEW hash, NEW op
    PROVE  IsFiniteSet(Spenders(hash, op)) /\ Cardinality(Spenders(hash, op)) \in Nat
<1>1. Spenders(hash, op) \subseteq DOMAIN blockCache
  BY DEF Spenders, Branch
<1> QED
  BY <1>1, FS_Subset, FS_CardinalityType DEF PutsTyped

\* The counts keep their types.
LEMMA StepPuts ==
    ASSUME ChainInv, PutsTyped, CountPuts,
           UNCHANGED blockCache \/ \E x : DOMAIN blockCache' = DOMAIN blockCache \cup {x}
    PROVE  PutsTyped'
<1>1. IsFiniteSet(DOMAIN blockCache')
  BY FS_AddElement DEF PutsTyped
<1>2. DOMAIN puts' = DOMAIN puts \cup PutNow
  BY DEF CountPuts
<1>3. CoinbaseOutPoint \notin PutNow
  <2> SUFFICES ASSUME NEW t \in Thread, At(t, "put"), NEW p \in frame[t].todo,
                      CreatedAt(frame[t].block, p) = CoinbaseOutPoint
               PROVE  FALSE
    BY DEF PutNow
  <2>1. p \in OutputPositions(frame[t].block) /\ frame[t].block \in Blocks
    BY DEF ChainInv, CoinInv, TypeOK, Frame
  <2>2. PICK b \in Blocks : b = frame[t].block
    BY <2>1
  <2>3. p[1] \in DOMAIN b.txs /\ p[2] \in DOMAIN b.txs[p[1]].outputs
    BY <2>1, <2>2 DEF OutputPositions
  <2>4. p[2] \in Nat \ {0}
    BY <2>2, <2>3, ChainConstants DEF Blocks
  <2>5. p[2] - 1 = -1
    BY DEF CreatedAt, CoinbaseOutPoint, OutPoint
  <2> QED
    BY <2>4, <2>5
<1>4. \A op \in DOMAIN puts' : puts'[op] \in Nat
  <2> SUFFICES ASSUME NEW op \in DOMAIN puts' PROVE puts'[op] \in Nat
    OBVIOUS
  <2>1. Minted(op)' = puts'[op]
    BY DEF Minted
  <2> QED
    BY <2>1, PutsAreCounted
<1> QED
  BY <1>1, <1>2, <1>3, <1>4 DEF PutsTyped

\* A step that leaves the chain alone and puts no coin that is not counted keeps
\* what holds of the chain and of the threads that it does not move.
LEMMA KeepsBacked ==
    ASSUME PutsTyped, CoinsBacked, CountPuts, UNCHANGED blockCache,
           DOMAIN utxo' \subseteq DOMAIN utxo \cup PutNow,
           \A t \in Thread : frame'[t] # frame[t] => FoundIsBacked(t)' /\ SpentIsBacked(t)'
    PROVE  CoinsBacked'
<1>1. \A hash, op : Spenders(hash, op)' = Spenders(hash, op)
  BY DEF Spenders, Branch, Closed
<1>2. ASSUME NEW hash, NEW op
      PROVE  /\ Backs(hash, op, Left(op)) => Backs(hash, op, Left(op))'
             /\ Backs(hash, op, 1) => Backs(hash, op, 1)'
             /\ Backs(hash, op, 1 + Left(op)) => Backs(hash, op, 1 + Left(op))'
  <2>1. /\ Minted(op) \in Nat /\ Minted(op)' \in Nat
        /\ Minted(op)' = Minted(op) + IF op \in PutNow THEN 1 ELSE 0
    BY PutsAreCounted
  <2>2. Cardinality(Spenders(hash, op)) \in Nat
    BY SpendersAreFinite
  <2>3. Left(op)' + Minted(op) <= Left(op) + Minted(op)' /\ Left(op) \in 0..1 /\ Left(op)' \in 0..1
    BY <2>1 DEF Left
  <2> DEFINE n == Cardinality(Spenders(hash, op))
             l == Left(op)
             k == Left(op)'
             m == Minted(op)
             w == Minted(op)'
  <2>4. /\ Backs(hash, op, Left(op)) = (n + l <= m)
        /\ Backs(hash, op, Left(op))' = (n + k <= w)
        /\ Backs(hash, op, 1) = (n + 1 <= m)
        /\ Backs(hash, op, 1)' = (n + 1 <= w)
        /\ Backs(hash, op, 1 + Left(op)) = (n + (1 + l) <= m)
        /\ Backs(hash, op, 1 + Left(op))' = (n + (1 + k) <= w)
    BY <1>1, Zenon DEF Backs
  <2>5. m \in Nat /\ w \in Nat /\ m <= w /\ n \in Nat /\ k + m <= l + w /\ l \in 0..1 /\ k \in 0..1
    BY <2>1, <2>2, <2>3
  <2> HIDE DEF n, l, k, m, w
  <2>6. /\ n + l <= m => n + k <= w
        /\ n + 1 <= m => n + 1 <= w
        /\ n + (1 + l) <= m => n + (1 + k) <= w
    BY <2>5
  <2> QED
    BY <2>4, <2>6, Zenon
<1>3. ChainIsBacked'
  BY <1>2 DEF CoinsBacked, ChainIsBacked
<1>4. ASSUME NEW u \in Thread, frame'[u] = frame[u]
      PROVE  FoundIsBacked(u)' /\ SpentIsBacked(u)'
  <2>1. frame'[u] = frame[u] /\ FoundIsBacked(u) /\ SpentIsBacked(u)
    BY <1>4 DEF CoinsBacked
  <2>2. \A hash, op : Found(u, hash, op)' = Found(u, hash, op) /\ Spent(u, hash, op)' = Spent(u, hash, op)
    BY <2>1 DEF Found, Spent
  <2> QED
    BY <1>2, <2>1, <2>2 DEF FoundIsBacked, SpentIsBacked
<1>5. ASSUME NEW u \in Thread PROVE FoundIsBacked(u)' /\ SpentIsBacked(u)'
  <2>1. CASE frame'[u] = frame[u]
    BY <1>4, <2>1
  <2>2. CASE frame'[u] # frame[u]
    BY <2>2
  <2> QED
    BY <2>1, <2>2
<1> QED
  BY <1>3, <1>5 DEF CoinsBacked

\* A step before the commit: an input that is found unspent is backed by the coin
\* that is there, an input that is spent takes it, and what is put is counted.
LEMMA InsideBacked ==
    ASSUME BackedInv, NEW t \in Thread, InsideAddBlock(t), ~Commit(t), CountPuts
    PROVE  CoinsBacked' /\ UNCHANGED blockCache
<1> DEFINE block == frame[t].block
           todo == frame[t].todo
<1>1. Progress(t) /\ KeepsCall(t) /\ UNCHANGED blockCache
  BY InsideProgress, InnerStep DEF BackedInv, ChainInv, MinerInv, InsideAddBlock, KeepsCall, chainVars
<1>2. block.prev \in DOMAIN blockCache
  BY <1>1 DEF BackedInv, ChainInv, DepthInv, Admitted, Recorded, KeepsCall
<1>3. ChainIsBacked /\ FoundIsBacked(t) /\ SpentIsBacked(t) /\ PutsTyped
  BY DEF BackedInv, CoinsBacked
<1>4. \A hash, op : Spenders(hash, op)' = Spenders(hash, op)
  BY <1>1 DEF Spenders, Branch, Closed
<1>5. DOMAIN utxo' \subseteq DOMAIN utxo \cup PutNow
  <2>1. \/ DOMAIN utxo' \subseteq DOMAIN utxo
        \/ \E p \in todo : /\ At(t, "put") /\ frame'[t].todo = todo \ {p}
                           /\ DOMAIN utxo' = DOMAIN utxo \cup {CreatedAt(block, p)}
    BY <1>1 DEF Progress
  <2>2. ASSUME NEW p \in todo, At(t, "put"), frame'[t].todo = todo \ {p}
        PROVE  CreatedAt(block, p) \in PutNow
    <3>1. p \in frame[t].todo \ frame'[t].todo
      BY <2>2
    <3> QED
      BY <2>2, <3>1 DEF PutNow
  <2>3. ASSUME NEW p \in todo, At(t, "put"), frame'[t].todo = todo \ {p},
               DOMAIN utxo' = DOMAIN utxo \cup {CreatedAt(block, p)}
        PROVE  DOMAIN utxo' \subseteq DOMAIN utxo \cup PutNow
    BY <2>2, <2>3
  <2> QED
    BY <2>1, <2>3
\* What was backed still is, as long as the coin is not put.
<1>6. ASSUME NEW hash, NEW op, NEW m \in Nat, Backs(hash, op, m) PROVE Backs(hash, op, m)'
  <2>1. /\ Minted(op) \in Nat /\ Minted(op)' \in Nat
        /\ Minted(op)' = Minted(op) + IF op \in PutNow THEN 1 ELSE 0
    BY <1>3, PutsAreCounted DEF BackedInv
  <2>2. Cardinality(Spenders(hash, op)) \in Nat
    BY <1>3, SpendersAreFinite
  <2> QED
    BY <1>4, <1>6, <2>1, <2>2 DEF Backs
<1>7. ASSUME NEW hash, NEW op, Backs(hash, op, 1 + Left(op)) PROVE Backs(hash, op, 1 + Left(op))'
  <2>1. /\ Minted(op) \in Nat /\ Minted(op)' \in Nat
        /\ Minted(op)' = Minted(op) + IF op \in PutNow THEN 1 ELSE 0
    BY <1>3, PutsAreCounted DEF BackedInv
  <2>2. Cardinality(Spenders(hash, op)) \in Nat
    BY <1>3, SpendersAreFinite
  <2>3. op \in DOMAIN utxo' => op \in DOMAIN utxo \/ op \in PutNow
    BY <1>5
  <2> QED
    BY <1>4, <1>7, <2>1, <2>2, <2>3 DEF Backs, Left
<1>8. FoundIsBacked(t)'
  <2> SUFFICES ASSUME NEW hash, NEW op, Found(t, hash, op)' PROVE Backs(hash, op, 1)'
    BY DEF FoundIsBacked
  <2>1. PICK p \in InputPositions(frame'[t].block) :
            /\ op = SpentAt(frame'[t].block, p) /\ hash = frame'[t].block.prev
            /\ frame'[t].pc = "inputs" => p \notin frame'[t].todo
            /\ frame'[t].pc \in {"inputs", "has", "spend", "put"}
    BY DEF Found
  <2>2. /\ frame'[t].block = block /\ op = SpentAt(block, p) /\ hash = block.prev
        /\ p \in InputPositions(block)
    BY <1>1, <2>1 DEF Progress
  <2>3. CASE Found(t, hash, op)
    BY <1>3, <1>6, <2>3 DEF FoundIsBacked
  <2>4. CASE ~Found(t, hash, op)
    <3>1. ~(/\ frame[t].pc \in {"inputs", "has", "spend", "put"}
            /\ (At(t, "inputs") => p \notin todo))
      BY <2>2, <2>4 DEF Found
    <3>2. op \in DOMAIN utxo
      BY <1>1, <2>1, <2>2, <3>1 DEF Progress
    <3>3. Backs(hash, op, 1)
      BY <1>2, <1>3, <2>2, <3>2 DEF ChainIsBacked, Left
    <3> QED
      BY <1>6, <3>3
  <2> QED
    BY <2>3, <2>4
<1>9. SpentIsBacked(t)'
  <2> SUFFICES ASSUME NEW hash, NEW op, Spent(t, hash, op)' PROVE Backs(hash, op, 1 + Left(op))'
    BY DEF SpentIsBacked
  <2>1. PICK p \in InputPositions(frame'[t].block) :
            /\ op = SpentAt(frame'[t].block, p) /\ hash = frame'[t].block.prev
            /\ frame'[t].pc = "put" \/ p \notin frame'[t].todo
            /\ frame'[t].pc \in {"has", "spend", "put"}
    BY DEF Spent
  <2>2. /\ frame'[t].block = block /\ op = SpentAt(block, p) /\ hash = block.prev
        /\ p \in InputPositions(block)
    BY <1>1, <2>1 DEF Progress
  <2>3. CASE Spent(t, hash, op)
    BY <1>3, <1>7, <2>3 DEF SpentIsBacked
  <2>4. CASE ~Spent(t, hash, op)
    <3>1. ~(frame[t].pc \in {"has", "spend", "put"} /\ (At(t, "put") \/ p \notin todo))
      BY <2>2, <2>4 DEF Spent
    <3>2. At(t, "spend") /\ DOMAIN utxo' = DOMAIN utxo \ {op}
      BY <1>1, <2>1, <2>2, <3>1 DEF Progress
    <3>3. Found(t, hash, op)
      BY <2>2, <3>2 DEF Found
    <3>4. Backs(hash, op, 1)'
      BY <1>3, <1>6, <3>3 DEF FoundIsBacked
    <3>5. Left(op)' = 0
      BY <3>2 DEF Left
    <3> QED
      BY <3>4, <3>5 DEF Backs
  <2> QED
    BY <2>3, <2>4
<1>10. ASSUME NEW u \in Thread, frame'[u] # frame[u]
       PROVE  FoundIsBacked(u)' /\ SpentIsBacked(u)'
  <2>1. u = t
    BY <1>1, <1>10 DEF KeepsCall
  <2> QED
    BY <1>8, <1>9, <2>1 DEF FoundIsBacked, SpentIsBacked, Found, Spent
<1> QED
  BY <1>1, <1>3, <1>5, <1>10, KeepsBacked DEF BackedInv

\* A step that touches neither the chain nor a coin, and brings no thread into the
\* loops over inputs.
LEMMA QuietBacked ==
    ASSUME PutsTyped, CoinsBacked, CountPuts, UNCHANGED <<blockCache, utxo>>,
           \A u \in Thread : frame'[u] = frame[u] \/ frame'[u].pc \in {"idle", "structure"}
    PROVE  CoinsBacked'
<1>1. ASSUME NEW t \in Thread, frame'[t] # frame[t]
      PROVE  FoundIsBacked(t)' /\ SpentIsBacked(t)'
  BY <1>1 DEF FoundIsBacked, SpentIsBacked, Found, Spent
<1> QED
  BY <1>1, KeepsBacked

\* Every block but genesis has its parent in the cache, as it has in the store.
LEMMA ParentStays ==
    ASSUME DepthInv, StoreIsClosed, NEW h \in DOMAIN blockCache, h # BlockHash(Genesis)
    PROVE  blockCache[h].prev \in DOMAIN blockCache
<1>1. h \in DOMAIN store.blocks
  BY DEF StoreIsClosed
<1>2. /\ blockCache[h] \in Blocks /\ store.blocks[h] \in Blocks
      /\ BlockHash(blockCache[h]) = h /\ BlockHash(store.blocks[h]) = h
  BY <1>1 DEF DepthInv, TypeOK, IsStore, BlockMap
<1>3. blockCache[h].prev = store.blocks[h].prev
  BY <1>2, HashHasPrev
<1>4. store.blocks[h].prev \in DOMAIN store.blocks \cup {BlockHash(Genesis)}
  BY <1>1 DEF StoreIsClosed, HoldsItsChain
<1> QED
  BY <1>3, <1>4 DEF StoreIsClosed, DepthInv, Recorded

\* A commit puts a block on its branch.  The coins that it spends were spent for it
\* before; it may replace one of the same hash, which spends the same.
LEMMA CommitBacked ==
    ASSUME BackedInv, NEW t \in Thread, InsideAddBlock(t), Commit(t), CountPuts
    PROVE  CoinsBacked' /\ \E x : DOMAIN blockCache' = DOMAIN blockCache \cup {x}
<1>b. PICK b : b = frame[t].block
  OBVIOUS
<1>x. PICK x : x = BlockHash(b)
  OBVIOUS
<1>1. /\ \A u \in Thread \ {t} : frame'[u] = frame[u]
      /\ frame'[t].pc = "idle" /\ At(t, "put")
      /\ DOMAIN blockCache' = DOMAIN blockCache \cup {x} /\ blockCache'[x] = b
      /\ \A h \in DOMAIN blockCache : h # x => blockCache'[h] = blockCache[h]
      /\ UNCHANGED utxo
  BY <1>b, <1>x, CommitEffect DEF BackedInv, ChainInv, Commit
<1>2. /\ x # BlockHash(Genesis) /\ b.prev \in DOMAIN blockCache /\ b \in Blocks
      /\ HasItsRoot(b) /\ Built(b)
  <2>1. InCall(t) /\ frame[t] \in Frame
    BY <1>1 DEF BackedInv, ChainInv, DepthInv, TypeOK, InCall
  <2>2. x # BlockHash(Genesis) /\ b.prev \in DOMAIN blockCache
    BY <1>b, <1>x, <2>1 DEF BackedInv, ChainInv, DepthInv, Admitted, Recorded, InCall
  <2>3. HasItsRoot(b) /\ Built(b)
    BY <1>b, <1>1, <2>1 DEF BackedInv, ChainInv, CoinInv, RootsChecked, Offered
  <2> QED
    BY <1>b, <2>1, <2>2, <2>3 DEF Frame
<1>3. ChainIsBacked /\ FoundIsBacked(t) /\ SpentIsBacked(t) /\ PutsTyped
  BY DEF BackedInv, CoinsBacked
\* Every coin of the block is backed, and so no coinbase's null outpoint.
<1>4. ASSUME NEW op \in SpentBy(b) PROVE Backs(b.prev, op, 1 + Left(op)) /\ op # CoinbaseOutPoint
  <2>1. PICK p \in InputPositions(b) : op = SpentAt(b, p)
    BY <1>4 DEF SpentBy
  <2>2. Spent(t, b.prev, op)
    BY <1>b, <1>1, <2>1 DEF Spent
  <2>3. Backs(b.prev, op, 1 + Left(op))
    BY <1>3, <2>2 DEF SpentIsBacked
  <2>4. Cardinality(Spenders(b.prev, op)) \in Nat /\ Left(op) \in Nat
    BY <1>3, SpendersAreFinite DEF Left
  <2>5. op # CoinbaseOutPoint
    <3>1. op = CoinbaseOutPoint => Minted(op) = 0
      BY <1>3 DEF PutsTyped, Minted
    <3>2. Cardinality(Spenders(b.prev, op)) + (1 + Left(op)) <= Minted(op)
      BY <2>3 DEF Backs
    <3> QED
      BY <2>4, <3>1, <3>2
  <2> QED
    BY <2>3, <2>5
<1>5. ASSUME x \in DOMAIN blockCache
      PROVE  /\ blockCache[x] \in Blocks /\ HasItsRoot(blockCache[x]) /\ Built(blockCache[x])
             /\ BlockHash(blockCache[x]) = x
  <2>1. blockCache[x] \in Blocks /\ BlockHash(blockCache[x]) = x
    BY <1>5 DEF BackedInv, ChainInv, DepthInv, TypeOK, BlockMap
  <2> QED
    BY <1>2, <1>5, <2>1 DEF BackedInv, ChainInv, CoinInv, RootsChecked, Offered
<1>6. \A h \in DOMAIN blockCache : blockCache'[h].prev = blockCache[h].prev
  <2>1. x \in DOMAIN blockCache => blockCache[x].prev = b.prev
    BY <1>x, <1>2, <1>5, HashHasPrev
  <2> QED
    BY <1>1, <2>1
<1>7. ASSUME NEW h \in DOMAIN blockCache, NEW op \in SpentBy(blockCache'[h])
      PROVE  op \in SpentBy(blockCache[h])
  <2>1. CASE h = x
    <3>1. op \in SpentBy(b) /\ op # CoinbaseOutPoint
      BY <1>1, <1>4, <1>7, <2>1
    <3> QED
      BY <1>x, <1>2, <1>5, <1>7, <2>1, <3>1, SameSpends
  <2>2. CASE h # x
    BY <1>1, <1>7, <2>2
  <2> QED
    BY <2>1, <2>2
\* Branches of old blocks are what they were; b's is on its parent's.
<1>8. /\ \A hash \in DOMAIN blockCache : Branch(hash)' \subseteq Branch(hash)
      /\ x \notin DOMAIN blockCache => Branch(x)' \subseteq {x} \cup Branch(b.prev)
  <2>1. \A h \in DOMAIN blockCache : x \notin DOMAIN blockCache => blockCache[h].prev # x
    <3> SUFFICES ASSUME NEW h \in DOMAIN blockCache, x \notin DOMAIN blockCache,
                        blockCache[h].prev = x
                 PROVE  FALSE
      OBVIOUS
    <3>1. CASE h = BlockHash(Genesis)
      BY <1>x, <1>2, <3>1, GenesisIsFirst DEF BackedInv, ChainInv, Offered, Blocks
    <3>2. CASE h # BlockHash(Genesis)
      <4>1. blockCache[h].prev \in DOMAIN blockCache
        BY <3>2, ParentStays DEF BackedInv, ChainInv
      <4> QED
        BY <4>1
    <3> QED
      BY <3>1, <3>2
  <2>p. PICK p : p = b.prev
    OBVIOUS
  <2>2. p \in DOMAIN blockCache /\ blockCache'[x].prev = p
    BY <1>1, <1>2, <2>p
  <2>3. /\ \A hash \in DOMAIN blockCache : Branch(hash)' \subseteq Branch(hash)
        /\ x \notin DOMAIN blockCache => Branch(x)' \subseteq {x} \cup Branch(p)
    BY <1>1, <1>6, <2>1, <2>2, BranchGrows
  <2> QED
    BY <2>3, <2>p
<1>9. \A hash \in DOMAIN blockCache : \A op : Spenders(hash, op)' \subseteq Spenders(hash, op)
  BY <1>7, <1>8 DEF Spenders, Branch
<1>10. ASSUME NEW op
       PROVE  /\ Minted(op) \in Nat /\ Minted(op)' \in Nat /\ Minted(op) <= Minted(op)'
              /\ Left(op)' = Left(op) /\ Left(op) \in Nat
  <2>1. /\ Minted(op) \in Nat /\ Minted(op)' \in Nat
        /\ Minted(op)' = Minted(op) + IF op \in PutNow THEN 1 ELSE 0
    BY <1>3, PutsAreCounted
  <2> QED
    BY <1>1, <2>1 DEF Left
<1>11. ASSUME NEW hash \in DOMAIN blockCache, NEW op, NEW m \in Nat, Backs(hash, op, m)
       PROVE  Backs(hash, op, m)'
  <2>1. /\ IsFiniteSet(Spenders(hash, op)) /\ Cardinality(Spenders(hash, op)) \in Nat
    BY <1>3, SpendersAreFinite
  <2>2. /\ Cardinality(Spenders(hash, op)') \in Nat
        /\ Cardinality(Spenders(hash, op)') <= Cardinality(Spenders(hash, op))
    BY <1>9, <2>1, FS_Subset, FS_CardinalityType
  <2> QED
    BY <1>10, <1>11, <2>1, <2>2 DEF Backs
<1>12. ChainIsBacked'
  <2> SUFFICES ASSUME NEW y \in DOMAIN blockCache', NEW op PROVE Backs(y, op, Left(op))'
    BY DEF ChainIsBacked
  <2>1. CASE y \in DOMAIN blockCache
    <3>1. Backs(y, op, Left(op))
      BY <1>3, <2>1 DEF ChainIsBacked
    <3>2. PICK m \in Nat : m = Left(op) /\ m = Left(op)'
      BY <1>10
    <3>3. Backs(y, op, m)'
      BY <1>11, <2>1, <3>1, <3>2
    <3> QED
      BY <3>2, <3>3 DEF Backs
  <2>2. CASE y \notin DOMAIN blockCache
    <3>1. y = x /\ blockCache'[y] = b
      BY <1>1, <2>2
    <3>p. PICK p : p = b.prev
      OBVIOUS
    <3>2. /\ IsFiniteSet(Spenders(p, op)) /\ Cardinality(Spenders(p, op)) \in Nat
      BY <1>3, SpendersAreFinite
    <3>3. ASSUME NEW h \in Spenders(y, op)'
          PROVE  (h = x /\ op \in SpentBy(b)) \/ h \in Spenders(p, op)
      <4>1. h \in {x} \cup Branch(p) /\ op \in SpentBy(blockCache'[h])
        BY <1>8, <2>2, <3>1, <3>3, <3>p DEF Spenders
      <4>2. CASE h = x
        BY <3>1, <4>1, <4>2
      <4>3. CASE h \in Branch(p)
        BY <1>7, <4>1, <4>3 DEF Spenders, Branch
      <4> QED
        BY <4>1, <4>2, <4>3
    <3>4. CASE op \in SpentBy(b)
      <4>1. Spenders(y, op)' \subseteq Spenders(p, op) \cup {x}
        BY <3>3
      <4>2. /\ IsFiniteSet(Spenders(p, op) \cup {x})
            /\ Cardinality(Spenders(p, op) \cup {x}) <= Cardinality(Spenders(p, op)) + 1
            /\ Cardinality(Spenders(p, op) \cup {x}) \in Nat
        <5>1. /\ IsFiniteSet(Spenders(p, op) \cup {x})
              /\ \/ Cardinality(Spenders(p, op) \cup {x}) = Cardinality(Spenders(p, op))
                 \/ Cardinality(Spenders(p, op) \cup {x}) = Cardinality(Spenders(p, op)) + 1
          BY <3>2, FS_AddElement
        <5> QED
          BY <3>2, <5>1
      <4>3. /\ Cardinality(Spenders(y, op)') <= Cardinality(Spenders(p, op) \cup {x})
            /\ Cardinality(Spenders(y, op)') \in Nat
        BY <4>1, <4>2, FS_Subset, FS_CardinalityType
      <4>4. Cardinality(Spenders(p, op)) + (1 + Left(op)) <= Minted(op)
        BY <1>4, <3>4, <3>p DEF Backs
      <4> QED
        BY <1>10, <3>2, <4>2, <4>3, <4>4 DEF Backs
    <3>5. CASE op \notin SpentBy(b)
      <4>1. Spenders(y, op)' \subseteq Spenders(p, op)
        BY <3>3, <3>5
      <4>2. /\ Cardinality(Spenders(y, op)') <= Cardinality(Spenders(p, op))
            /\ Cardinality(Spenders(y, op)') \in Nat
        BY <3>2, <4>1, FS_Subset, FS_CardinalityType
      <4>3. Cardinality(Spenders(p, op)) + Left(op) <= Minted(op)
        BY <1>2, <1>3, <3>p DEF ChainIsBacked, Backs
      <4> QED
        BY <1>10, <3>2, <4>2, <4>3 DEF Backs
    <3> QED
      BY <3>4, <3>5
  <2> QED
    BY <2>1, <2>2
<1>13. ASSUME NEW u \in Thread PROVE FoundIsBacked(u)' /\ SpentIsBacked(u)'
  <2>1. CASE u = t
    BY <1>1, <2>1 DEF FoundIsBacked, SpentIsBacked, Found, Spent
  <2>2. CASE u # t
    <3>1. frame'[u] = frame[u] /\ FoundIsBacked(u) /\ SpentIsBacked(u)
      BY <1>1, <2>2 DEF BackedInv, CoinsBacked
    <3>2. \A hash, op : Found(u, hash, op)' = Found(u, hash, op) /\ Spent(u, hash, op)' = Spent(u, hash, op)
      BY <3>1 DEF Found, Spent
    <3>3. \A hash, op : Found(u, hash, op) \/ Spent(u, hash, op) => hash \in DOMAIN blockCache
      BY DEF BackedInv, ChainInv, DepthInv, Admitted, Recorded, Found, Spent
    <3>4. FoundIsBacked(u)'
      BY <1>11, <3>1, <3>2, <3>3 DEF FoundIsBacked
    <3>5. SpentIsBacked(u)'
      <4> SUFFICES ASSUME NEW hash, NEW op, Spent(u, hash, op)' PROVE Backs(hash, op, 1 + Left(op))'
        BY DEF SpentIsBacked
      <4>1. hash \in DOMAIN blockCache /\ Backs(hash, op, 1 + Left(op))
        BY <3>1, <3>2, <3>3 DEF SpentIsBacked
      <4>2. PICK m \in Nat : m = 1 + Left(op) /\ m = 1 + Left(op)'
        BY <1>10
      <4>3. Backs(hash, op, m)'
        BY <1>11, <4>1, <4>2
      <4> QED
        BY <4>2, <4>3 DEF Backs
    <3> QED
      BY <3>4, <3>5
  <2> QED
    BY <2>1, <2>2
<1> QED
  BY <1>1, <1>12, <1>13 DEF CoinsBacked

\* At first the coins of genesis are there, and nothing is spent.
LEMMA InitBacked == SpendingInit => BackedInv
<1> SUFFICES ASSUME SpendingInit PROVE BackedInv
  OBVIOUS
<1>1. Init /\ MinerInit
  BY DEF MinerInit, SpendingInit
<1>2. DOMAIN blockCache = {BlockHash(Genesis)} /\ blockCache[BlockHash(Genesis)] = Genesis
  BY <1>1 DEF Init, Assign
<1>3. SpentBy(Genesis) = {} /\ DOMAIN utxo = CreatedBy(Genesis)
  <2>1. SpentBy(Genesis) = {}
    BY GenesisIsFirst DEF SpentBy, InputPositions
  <2> QED
    BY <1>1, <2>1 DEF Init, ApplyBlock, NoCoins
<1>4. PutsTyped
  <2>1. puts = [op \in CreatedBy(Genesis) |-> 1]
    BY DEF SpendingInit
  <2>2. CoinbaseOutPoint \notin CreatedBy(Genesis)
    <3> SUFFICES ASSUME NEW p \in OutputPositions(Genesis), CreatedAt(Genesis, p) = CoinbaseOutPoint
                 PROVE  FALSE
      BY DEF CreatedBy
    <3>1. p[1] \in DOMAIN Genesis.txs /\ p[2] \in DOMAIN Genesis.txs[p[1]].outputs
      BY DEF OutputPositions
    <3>2. p[2] \in Nat \ {0}
      BY <3>1, ChainConstants
    <3>3. p[2] - 1 = -1
      BY DEF CreatedAt, CoinbaseOutPoint, OutPoint
    <3> QED
      BY <3>2, <3>3
  <2>3. IsFiniteSet(DOMAIN blockCache)
    BY <1>2, FS_Singleton
  <2> QED
    BY <2>1, <2>2, <2>3 DEF PutsTyped
<1>5. ChainIsBacked
  <2> SUFFICES ASSUME NEW hash \in DOMAIN blockCache, NEW op PROVE Backs(hash, op, Left(op))
    BY DEF ChainIsBacked
  <2>1. Spenders(hash, op) = {}
    BY <1>2, <1>3 DEF Spenders, Branch
  <2>2. Cardinality(Spenders(hash, op)) = 0
    BY <2>1, FS_EmptySet
  <2>3. Left(op) <= Minted(op)
    BY <1>3 DEF Left, Minted, SpendingInit
  <2>4. Left(op) \in Nat
    BY DEF Left
  <2> QED
    BY <2>2, <2>3, <2>4 DEF Backs
<1>6. \A t \in Thread : frame[t].pc = "idle"
  BY <1>1 DEF Init, IdleFrame
<1>7. CoinsBacked
  BY <1>5, <1>6 DEF CoinsBacked, FoundIsBacked, SpentIsBacked, Found, Spent
<1> QED
  BY <1>1, <1>4, <1>7, InitMiner, InitStop, InitStore, InitCoins, InitOffered
     DEF BackedInv, ChainInv, StoreInv

\* Every step keeps it.
LEMMA StepBacked == Offers /\ BackedInv /\ [SpendingNext]_spendingVars => BackedInv'
<1> SUFFICES ASSUME Offers, BackedInv, [SpendingNext]_spendingVars PROVE BackedInv'
  OBVIOUS
<1>0. [MinerNext]_nodeVars
  BY DEF SpendingNext, spendingVars
<1>1. ChainInv'
  BY <1>0, StepMiner, StepStop, StepStore, StepCoins, StepOffered, ClientStep
     DEF BackedInv, ChainInv, StoreInv
<1>2. ASSUME UNCHANGED spendingVars PROVE PutsTyped' /\ CoinsBacked'
  <2>1. UNCHANGED <<blockCache, utxo, frame, puts>>
    BY <1>2 DEF spendingVars, nodeVars, vars, chainVars
  <2>2. \A hash, op : Backs(hash, op, 1)' = Backs(hash, op, 1)
                      /\ Backs(hash, op, Left(op))' = Backs(hash, op, Left(op))
                      /\ Backs(hash, op, 1 + Left(op))' = Backs(hash, op, 1 + Left(op))
    BY <2>1 DEF Backs, Left, Minted, Spenders, Branch, Closed
  <2>3. \A t \in Thread : \A hash, op : Found(t, hash, op)' = Found(t, hash, op)
                                       /\ Spent(t, hash, op)' = Spent(t, hash, op)
    BY <2>1 DEF Found, Spent
  <2>4. PutsTyped'
    BY <2>1 DEF BackedInv, PutsTyped
  <2>5. ChainIsBacked'
    BY <2>1, <2>2 DEF BackedInv, CoinsBacked, ChainIsBacked
  <2>6. \A t \in Thread : FoundIsBacked(t)' /\ SpentIsBacked(t)'
    BY <2>2, <2>3 DEF BackedInv, CoinsBacked, FoundIsBacked, SpentIsBacked
  <2> QED
    BY <2>4, <2>5, <2>6 DEF CoinsBacked
<1>3. ASSUME CountPuts, UNCHANGED <<blockCache, utxo>>,
             \A u \in Thread : frame'[u] = frame[u] \/ frame'[u].pc \in {"idle", "structure"}
      PROVE  PutsTyped' /\ CoinsBacked'
  BY <1>3, QuietBacked, StepPuts DEF BackedInv
<1>4. ASSUME CountPuts, UNCHANGED vars PROVE PutsTyped' /\ CoinsBacked'
  BY <1>3, <1>4 DEF vars, chainVars
<1>5. ASSUME CountPuts, NEW t \in Thread, CallAddBlock(t) PROVE PutsTyped' /\ CoinsBacked'
  <2>1. frame \in [Thread -> Frame]
    BY DEF BackedInv, ChainInv, MinerInv, TypeOK
  <2>2. /\ UNCHANGED <<blockCache, utxo>>
        /\ \A u \in Thread \ {t} : frame'[u] = frame[u]
    BY <1>5, CallEffect DEF BackedInv, ChainInv, CallAddBlock, AddBlock, chainVars
  <2>3. frame'[t].pc \in {"idle", "structure"}
    <3> DEFINE b == mine[t].block
               n == mine[t].at
    <3>1. AddBlock(t, b, n)
      BY <1>5 DEF CallAddBlock
    <3> HIDE DEF b, n
    <3>2. \/ Return(t, TRUE) \/ Return(t, FALSE)
          \/ frame' = [frame EXCEPT ![t].pc = "structure", ![t].block = b, ![t].at = n]
      BY <3>1 DEF AddBlock
    <3>3. ASSUME NEW r, Return(t, r) PROVE frame'[t].pc = "idle"
      BY <2>1, <3>3 DEF Return, IdleFrame
    <3>4. CASE frame' = [frame EXCEPT ![t].pc = "structure", ![t].block = b, ![t].at = n]
      BY <2>1, <3>4 DEF Frame
    <3> QED
      BY <3>2, <3>3, <3>4
  <2> QED
    BY <1>3, <1>5, <2>2, <2>3
<1>6. ASSUME CountPuts, NEW t \in Thread, InsideAddBlock(t) PROVE PutsTyped' /\ CoinsBacked'
  <2>1. CASE Commit(t)
    BY <1>6, <2>1, CommitBacked, StepPuts DEF BackedInv
  <2>2. CASE ~Commit(t)
    BY <1>6, <2>2, InsideBacked, StepPuts DEF BackedInv
  <2> QED
    BY <2>1, <2>2
<1>7. ASSUME NEW t \in Thread, LoopStep(t) PROVE UNCHANGED vars
  BY <1>7, LoopEffect DEF BackedInv, ChainInv
<1>8. ASSUME CountPuts PROVE PutsTyped' /\ CoinsBacked'
  <2>1. \/ UNCHANGED vars
        \/ \E t \in Thread : LoopStep(t)
        \/ \E t \in Thread : CallAddBlock(t)
        \/ \E t \in Thread : InsideAddBlock(t)
    BY <1>0, MinerSteps DEF BackedInv, ChainInv
  <2>2. ASSUME NEW t \in Thread, LoopStep(t) PROVE PutsTyped' /\ CoinsBacked'
    BY <1>4, <1>7, <1>8, <2>2
  <2> QED
    BY <1>4, <1>5, <1>6, <1>8, <2>1, <2>2
<1> QED
  BY <1>1, <1>2, <1>8 DEF BackedInv, SpendingNext

\* SpendsAreBacked: however many threads mine, and however their calls of addBlock
\* overlap, no branch spends a coin in more blocks than there were puts of it.
THEOREM SpendsStayBacked == ASSUME Offers PROVE SpendingSpec => []SpendsAreBacked
<1>1. BackedInv => SpendsAreBacked
  <2> SUFFICES ASSUME BackedInv, NEW a \in accepted, NEW op
               PROVE  Cardinality(Spenders(a[1], op)) <= Minted(op)
    BY DEF SpendsAreBacked
  <2>1. a[1] \in DOMAIN blockCache
    BY DEF BackedInv, ChainInv, DepthInv, Recorded
  <2>2. Cardinality(Spenders(a[1], op)) + Left(op) <= Minted(op)
    BY <2>1 DEF BackedInv, CoinsBacked, ChainIsBacked, Backs
  <2>3. Minted(op) \in Nat
    BY DEF BackedInv, PutsTyped, Minted
  <2>4. Cardinality(Spenders(a[1], op)) \in Nat /\ Left(op) \in Nat
    BY SpendersAreFinite DEF BackedInv, Left
  <2> QED
    BY <2>2, <2>3, <2>4
<1>2. BackedInv /\ [SpendingNext]_spendingVars => BackedInv'
  BY StepBacked
<1> QED
  BY <1>1, <1>2, InitBacked, PTL DEF SpendingSpec
=============================================================================
