-------------------------------- MODULE Miner --------------------------------
(***************************************************************************)
(* mining/miner.cpp and core/mempool.cpp on top of Blockchain: the miner's *)
(* threads build a block on whatever they last read of the chain, search a *)
(* nonce and call addBlock; a controller (main, or the RPC thread) starts  *)
(* and stops them; the RPC thread adds transactions to the mempool.        *)
(*                                                                         *)
(*   LoadFlag -> ReadBest -> ReadReward -> GetBlockTemplate -> MineBlock   *)
(*     -> CallAddBlock -> (the steps of Blockchain) -> Announce -> LoadFlag*)
(*                                                                         *)
(* Every read of the chain is a locked call of its own, so the hash, the   *)
(* height for the reward and the height for addBlock may be those of three *)
(* different tips.  The height in the coinbase's script is not modelled:   *)
(* it enters no hash and no check.                                         *)
(***************************************************************************)
EXTENDS Blockchain

CONSTANTS
    Tx,                         \* transactions that users submit
    Payout,                     \* script of payoutHash_
    EASY_MINE_DIFFICULTY,
    MAX_MEMPOOL_SIZE,
    MaxNonce,                   \* 2^32 - 1
    MaxHeight                   \* bound: nobody starts on a block above it

ASSUME MinerConstants ==
    /\ EASY_MINE_DIFFICULTY \in 0..(WORD - 1)
    /\ MAX_MEMPOOL_SIZE \in Nat
    /\ MaxNonce \in Nat
    /\ MaxHeight \in Nat

\* Outputs are vectors.
ASSUME OutputsAreLists ==
    \A tx \in Tx : tx.outputs \in Seq({tx.outputs[j] : j \in DOMAIN tx.outputs})

\* makeGenesisBlock has a coinbase and nothing else, and a parent hash of zeros.
ASSUME GenesisIsFirst ==
    /\ Genesis.txs \in Seq({Genesis.txs[1]}) /\ Len(Genesis.txs) = 1
    /\ \A b \in Block \cup {Genesis} : Genesis.prev # BlockHash(b)

VARIABLES
    mining,                     \* mining_
    threads,                    \* threads_: those that stop has to join
    control,                    \* "idle", or "join" inside stop
    mine,                       \* mine[t]: locals of thread t's miningLoop
    pool,                       \* txs_: txid -> transaction
    announced                   \* the realtime feed: <<height, hash>> of blocks

minerVars == <<mining, threads, control, mine, pool, announced>>
nodeVars == <<vars, minerVars>>

Loop(pc) == [pc |-> pc, prev |-> NullHash, time |-> 0, reward |-> 0,
             txs |-> << >>, block |-> Genesis, at |-> 0]

MinerInit ==
    /\ Init
    /\ mining = FALSE
    /\ threads = {}
    /\ control = "idle"
    /\ mine = [t \in Thread |-> Loop("off")]
    /\ pool = [id \in {} |-> id]
    /\ announced = {}

In(t, pc) == mine[t].pc = pc

-----------------------------------------------------------------------------
(* Mempool.  Only add and getBlockTemplate have callers: nothing removes a *)
(* transaction once it is in.                                              *)

\* MUTANT of Add: the limit is off by one.
AddOffByOne(tx) ==
    /\ ValidateTransactionStructure(tx)
    /\ Cardinality(DOMAIN pool) <= MAX_MEMPOOL_SIZE \/ TxId(tx) \in DOMAIN pool
    /\ pool' = Assign(pool, TxId(tx), tx)
    /\ UNCHANGED <<vars, mining, threads, control, mine, announced>>

\* A full pool refuses transactions it does not hold.
Add(tx) ==
    /\ ValidateTransactionStructure(tx)
    /\ Cardinality(DOMAIN pool) < MAX_MEMPOOL_SIZE \/ TxId(tx) \in DOMAIN pool
    /\ pool' = Assign(pool, TxId(tx), tx)
    /\ UNCHANGED <<vars, mining, threads, control, mine, announced>>

-----------------------------------------------------------------------------
(* start and stop.  One thread controls the miner.                         *)

\* With mining_ already set, start returns at once.
Start(ts) ==
    /\ control = "idle"
    /\ ~mining
    /\ mining' = TRUE
    /\ threads' = threads \cup ts
    /\ mine' = [t \in Thread |-> IF t \in ts THEN Loop("loop") ELSE mine[t]]
    /\ UNCHANGED <<vars, control, pool, announced>>

Stop ==
    /\ control = "idle"
    /\ mining' = FALSE
    /\ control' = "join"
    /\ UNCHANGED <<vars, threads, mine, pool, announced>>

\* MUTANT of Join: it forgets the threads without waiting for them.
JoinNobody ==
    /\ control = "join"
    /\ threads' = {}
    /\ control' = "idle"
    /\ UNCHANGED <<vars, mining, mine, pool, announced>>

\* join returns for every thread that has left its loop.
Join ==
    /\ control = "join"
    /\ \A t \in threads : In(t, "off")
    /\ threads' = {}
    /\ control' = "idle"
    /\ UNCHANGED <<vars, mining, mine, pool, announced>>

-----------------------------------------------------------------------------
(* miningLoop                                                              *)

\* MUTANT of LoadFlag: the loop does not look at the flag.
LoadFlagIgnored(t) ==
    /\ In(t, "loop")
    /\ height < MaxHeight
    /\ mine' = [mine EXCEPT ![t].pc = "best"]
    /\ UNCHANGED <<vars, mining, threads, control, pool, announced>>

\* MaxHeight bounds the chain: nobody starts on a block above it.
LoadFlag(t) ==
    /\ In(t, "loop")
    /\ \/ ~mining /\ mine' = [mine EXCEPT ![t] = Loop("off")]
       \/ mining /\ height < MaxHeight /\ mine' = [mine EXCEPT ![t].pc = "best"]
    /\ UNCHANGED <<vars, mining, threads, control, pool, announced>>

ReadBest(t) ==
    /\ In(t, "best")
    /\ \E now \in Clock :
          mine' = [mine EXCEPT ![t].pc = "reward", ![t].prev = bestBlockHash,
                               ![t].time = now]
    /\ UNCHANGED <<vars, mining, threads, control, pool, announced>>

ReadReward(t) ==
    /\ In(t, "reward")
    /\ mine' = [mine EXCEPT ![t].pc = "template",
                            ![t].reward = GetBlockSubsidy(height + 1)]
    /\ UNCHANGED <<vars, mining, threads, control, pool, announced>>

\* The transactions of the pool, in the order of their txids: a fixed but
\* arbitrary one.
Template == CHOOSE txs \in [1..Cardinality(DOMAIN pool) -> {pool[id] : id \in DOMAIN pool}] :
                {TxId(txs[i]) : i \in DOMAIN txs} = DOMAIN pool

GetBlockTemplate(t) ==
    /\ In(t, "template")
    /\ mine' = [mine EXCEPT ![t].pc = "mine", ![t].txs = Template]
    /\ UNCHANGED <<vars, mining, threads, control, pool, announced>>

Coinbase(reward) ==
    [inputs  |-> <<[prev |-> CoinbaseOutPoint, sig |-> NullHash]>>,
     outputs |-> <<[amount |-> reward, script |-> Payout]>>]

Candidate(m, nonce) ==
    LET txs == <<Coinbase(m.reward)>> \o m.txs
    IN  [prev |-> m.prev, root |-> ComputeMerkleRoot(txs), time |-> m.time,
         bits |-> EASY_MINE_DIFFICULTY, nonce |-> nonce, txs |-> txs]

\* MUTANT of MineBlock: the block is offered at the height of the tip.
MineBlockAtTip(t) ==
    LET found == {n \in 0..MaxNonce : CheckProofOfWork(Candidate(mine[t], n))}
    IN  /\ In(t, "mine")
        /\ \/ found = {} /\ mine' = [mine EXCEPT ![t] = Loop("loop")]
           \/ \E n \in found :
                /\ \A m \in found : n <= m
                /\ mine' = [mine EXCEPT ![t] =
                      [Loop("call") EXCEPT !.block = Candidate(mine[t], n), !.at = height]]
        /\ UNCHANGED <<vars, mining, threads, control, pool, announced>>

\* The least nonce that meets the target, if there is one; getHeight() + 1
\* is read once it is found.
MineBlock(t) ==
    LET found == {n \in 0..MaxNonce : CheckProofOfWork(Candidate(mine[t], n))}
    IN  /\ In(t, "mine")
        /\ \/ found = {} /\ mine' = [mine EXCEPT ![t] = Loop("loop")]
           \/ \E n \in found :
                /\ \A m \in found : n <= m
                /\ mine' = [mine EXCEPT ![t] =
                      [Loop("call") EXCEPT !.block = Candidate(mine[t], n),
                                           !.at = height + 1]]
        /\ UNCHANGED <<vars, mining, threads, control, pool, announced>>

CallAddBlock(t) ==
    /\ In(t, "call")
    /\ AddBlock(t, mine[t].block, mine[t].at)
    /\ mine' = [mine EXCEPT ![t].pc = "announce"]
    /\ UNCHANGED <<mining, threads, control, pool, announced>>

InsideAddBlock(t) == Step(t) /\ UNCHANGED minerVars

\* MUTANT of Announce: the result of addBlock is not looked at.
AnnounceAnyway(t) ==
    /\ In(t, "announce") /\ At(t, "idle")
    /\ announced' = announced \cup {<<mine[t].at, BlockHash(mine[t].block)>>}
    /\ mine' = [mine EXCEPT ![t] = Loop("loop")]
    /\ UNCHANGED <<vars, mining, threads, control, pool>>

\* Once addBlock has returned.
Announce(t) ==
    /\ In(t, "announce") /\ At(t, "idle")
    /\ announced' = IF frame[t].result
                    THEN announced \cup {<<mine[t].at, BlockHash(mine[t].block)>>}
                    ELSE announced
    /\ mine' = [mine EXCEPT ![t] = Loop("loop")]
    /\ UNCHANGED <<vars, mining, threads, control, pool>>

-----------------------------------------------------------------------------
MiningStep(t) ==
    \/ LoadFlag(t)
    \/ ReadBest(t)
    \/ ReadReward(t)
    \/ GetBlockTemplate(t)
    \/ MineBlock(t)
    \/ CallAddBlock(t)
    \/ InsideAddBlock(t)
    \/ Announce(t)

MinerNext ==
    \/ \E tx \in Tx : Add(tx)
    \/ \E ts \in SUBSET Thread \ {{}} : Start(ts)
    \/ Stop
    \/ Join
    \/ \E t \in Thread : MiningStep(t)

MinerSpec == MinerInit /\ [][MinerNext]_nodeVars

-----------------------------------------------------------------------------
(* Properties                                                              *)

LoopPCs == {"off", "loop", "best", "reward", "template", "mine", "call", "announce"}

\* The pool never holds more than its limit, each transaction under its id;
\* only threads that stop will join are in the loop or inside addBlock.
MinerTypeOK ==
    /\ mining \in BOOLEAN
    /\ control \in {"idle", "join"}
    /\ threads \subseteq Thread
    /\ \A t \in Thread : mine[t].pc \in LoopPCs
    /\ \A t \in Thread : ~In(t, "off") => t \in threads
    /\ \A t \in Thread : ~At(t, "idle") => In(t, "announce")
    /\ Cardinality(DOMAIN pool) <= MAX_MEMPOOL_SIZE
    /\ \A id \in DOMAIN pool : TxId(pool[id]) = id

\* No consensus rule looks at the amount of a coinbase, and the miner takes
\* it from a height that it reads apart from the hash it builds upon.  Still,
\* with the two threads of the default, every block that is accepted pays the
\* subsidy of its own height: a template made of two tips never gets past
\* addBlock.  (With three the tip can come back to a hash that was read.)
RewardIsSubsidy ==
    \A a \in accepted :
        blockCache[a[1]].txs[1].outputs[1].amount = GetBlockSubsidy(a[2])

\* What the feed announces as mined is in the chain's cache, and the height
\* announced is never below its own.
AnnouncedIsAccepted ==
    \A e \in announced : \E a \in accepted : a[1] = e[2] /\ a[2] <= e[1]

\* Once stop has returned the chain is at rest: no thread is left in its loop
\* or between two steps of addBlock.
StopIsFinal ==
    (control = "idle" /\ ~mining) =>
        \A t \in Thread : In(t, "off") /\ At(t, "idle")

\* stop returns: every thread comes back to the flag and leaves.
StopReturns == control = "join" ~> control = "idle"

Held ==
    LET held[coins \in SUBSET DOMAIN utxo] ==
            IF coins = {} THEN 0
            ELSE LET op == CHOOSE c \in coins : TRUE
                 IN  utxo[op].amount + held[coins \ {op}]
    IN  held[DOMAIN utxo]

GetTotalSupplyUpTo(n) ==
    LET total[h \in 0..n] ==
            GetBlockSubsidy(h) + IF h = 0 THEN 0 ELSE total[h - 1]
    IN  total[n]

\* The claim of types.hpp:91: what has been issued up to the tip is what the
\* coins add up to (as long as no thread is inside addBlock).
SupplyIsIssued ==
    (\A t \in Thread : At(t, "idle")) => Held = GetTotalSupplyUpTo(height)

=============================================================================
