----------------------------- MODULE Blockchain -----------------------------
(***************************************************************************)
(* core/blockchain.cpp: the in-memory chain, its UTXO set and the chain    *)
(* state behind it, used by any number of threads.                         *)
(*                                                                         *)
(* addBlock checks the tip under mutex_, RELEASES it, validates the block  *)
(* and changes the UTXO set one locked call at a time, and takes mutex_    *)
(* again to commit.  One action is what a thread does in one locked call   *)
(* (with the thread-local work around it); between two actions of a        *)
(* thread the other threads run.                                           *)
(*                                                                         *)
(*   AddBlock -> ValidateStructure                                         *)
(*     -> ReadHeight -> ReadPrevBlock -> ReadFirstBlock   (checkDifficulty)*)
(*     -> ValidateTransactions -> CheckInput*             (connectBlock)   *)
(*     -> (HasInput SpendInput)* -> PutOutput*            (connectBlockUTXO)*)
(*     -> Commit                                          (connectBlock)   *)
(***************************************************************************)
EXTENDS CoreTypes, FiniteSets

CONSTANTS
    Thread,                     \* threads that call addBlock
    Block,                      \* blocks they may offer
    Genesis,                    \* makeGenesisBlock()
    Height,                     \* heights they may pass with them
    Clock,                      \* readings of std::time
    DIFFICULTY_INTERVAL,
    SaveInterval                \* 10: saveToDisk every so many blocks

ASSUME ChainConstants ==
    /\ Genesis.txs # << >>
    /\ Height \subseteq Nat
    /\ DIFFICULTY_INTERVAL \in Nat \ {0}
    /\ SaveInterval \in Nat \ {0}
    /\ \A b \in Block \cup {Genesis} : \A i \in DOMAIN b.txs :
          DOMAIN b.txs[i].outputs \subseteq Nat \ {0}

VARIABLES
    height,                     \* height_
    bestBlockHash,              \* bestBlockHash_
    blockCache,                 \* blockCache_: hash -> block
    heightIndex,                \* heightIndex_: height -> hash
    utxo,                       \* utxo_.map_: outpoint -> output
    store,                      \* MemoryChainState: blocks_, bestHash_, bestHeight_
    disk,                       \* blockchain.dat, as a copy of store
    frame,                      \* frame[t]: locals of thread t's call
    accepted,                   \* history: <<hash, height>> of every commit
    ledger                      \* history: outputs unspent after the commits

chainVars == <<height, bestBlockHash, blockCache, heightIndex>>
storeVars == <<store, disk>>
historyVars == <<accepted, ledger>>
vars == <<chainVars, utxo, storeVars, frame, historyVars>>

-----------------------------------------------------------------------------
(* Applying a whole block at once: what connectBlockUTXO is meant to do.   *)

SpentBy(block) == {SpentAt(block, p) : p \in InputPositions(block)}

CreatedBy(block) == {CreatedAt(block, p) : p \in OutputPositions(block)}

OutputOf(block, op) ==
    OutputAt(block, CHOOSE p \in OutputPositions(block) : CreatedAt(block, p) = op)

ApplyBlock(block, coins) ==
    [op \in (DOMAIN coins \ SpentBy(block)) \cup CreatedBy(block) |->
        IF op \in CreatedBy(block) THEN OutputOf(block, op) ELSE coins[op]]

HasItsRoot(block) == block.root = ComputeMerkleRoot(block.txs)

\* The Merkle root commits to the coins of a block: two blocks of one hash
\* that have their own roots create the same ones (they may differ in
\* signatures, and in a last transaction that is repeated).
ASSUME HashCommits ==
    /\ HasItsRoot(Genesis)
    /\ \A a, b \in Block \cup {Genesis} :
          HasItsRoot(a) /\ HasItsRoot(b) /\ BlockHash(a) = BlockHash(b)
              => CreatedBy(a) = CreatedBy(b)

-----------------------------------------------------------------------------
NoCoins == [op \in {} |-> op]

EmptyStore == [blocks |-> [h \in {} |-> h], best |-> NullHash, height |-> 0]

IdleFrame(result) ==
    [pc |-> "idle", block |-> Genesis, at |-> 0, tip |-> 0, prev |-> Genesis,
     todo |-> {}, result |-> result]

\* The constructor, setChainState and init: the chain state is new, its
\* height is 0, so init loads nothing from it.  (Its bestHash_ has no initial
\* value in C++; NullHash stands for it, and nothing reads it.)
Init ==
    /\ height = 0
    /\ bestBlockHash = BlockHash(Genesis)
    /\ blockCache = Assign([h \in {} |-> h], BlockHash(Genesis), Genesis)
    /\ heightIndex = Assign([n \in {} |-> n], 0, BlockHash(Genesis))
    /\ utxo = ApplyBlock(Genesis, NoCoins)
    /\ store = EmptyStore
    /\ disk = EmptyStore
    /\ frame = [t \in Thread |-> IdleFrame(FALSE)]
    /\ accepted = {<<BlockHash(Genesis), 0>>}
    /\ ledger = ApplyBlock(Genesis, NoCoins)

At(t, pc) == frame[t].pc = pc

Goto(t, pc) == frame' = [frame EXCEPT ![t].pc = pc]

GotoWith(t, pc, todo) == frame' = [frame EXCEPT ![t].pc = pc, ![t].todo = todo]

Return(t, result) == frame' = [frame EXCEPT ![t] = IdleFrame(result)]

\* getBlockByHeight: both maps are looked up under one lock.
HasBlockAt(n) == n \in DOMAIN heightIndex /\ heightIndex[n] \in DOMAIN blockCache

BlockAt(n) == blockCache[heightIndex[n]]

-----------------------------------------------------------------------------
(* addBlock                                                                *)

\* MUTANTS of AddBlock: it forgets to compare the height, or the parent.
AddBlockAnyHeight(t, block, n) ==
    /\ At(t, "idle")
    /\ BlockHash(block) \notin DOMAIN blockCache /\ block.prev = bestBlockHash
    /\ frame' = [frame EXCEPT ![t].pc = "structure", ![t].block = block, ![t].at = n]
    /\ UNCHANGED <<chainVars, utxo, storeVars, historyVars>>

AddBlockAnyParent(t, block, n) ==
    /\ At(t, "idle")
    /\ BlockHash(block) \notin DOMAIN blockCache /\ n = height + 1
    /\ frame' = [frame EXCEPT ![t].pc = "structure", ![t].block = block, ![t].at = n]
    /\ UNCHANGED <<chainVars, utxo, storeVars, historyVars>>

\* The checks under the first lock, which is then released.
AddBlock(t, block, n) ==
    LET known == BlockHash(block) \in DOMAIN blockCache
        next  == n = height + 1 /\ block.prev = bestBlockHash
    IN  /\ At(t, "idle")
        /\ \/ known /\ Return(t, TRUE)
           \/ ~known /\ ~next /\ Return(t, FALSE)
           \/ /\ ~known /\ next
              /\ frame' = [frame EXCEPT ![t].pc = "structure",
                                        ![t].block = block, ![t].at = n]
        /\ UNCHANGED <<chainVars, utxo, storeVars, historyVars>>

-----------------------------------------------------------------------------
(* connectBlock: validateBlockStructure, then checkDifficulty              *)

ValidateStructure(t) ==
    /\ At(t, "structure")
    /\ \E now \in Clock :
          IF ValidateBlockStructure(frame[t].block, now)
          THEN Goto(t, "height")
          ELSE Return(t, FALSE)
    /\ UNCHANGED <<chainVars, utxo, storeVars, historyVars>>

\* Only after genesis is anything demanded of the target.
ReadHeight(t) ==
    /\ At(t, "height")
    /\ IF height = 0
       THEN Goto(t, "txs")
       ELSE frame' = [frame EXCEPT ![t].pc = "prev", ![t].tip = height]
    /\ UNCHANGED <<chainVars, utxo, storeVars, historyVars>>

\* MUTANT of ReadPrevBlock: it asks whether the tip, not the next block, is a
\* retarget point.
ReadPrevBlockAtTip(t) ==
    LET tip      == frame[t].tip
        retarget == tip % DIFFICULTY_INTERVAL = 0 /\ tip >= DIFFICULTY_INTERVAL - 1
        same     == frame[t].block.bits = BlockAt(tip).bits
    IN  /\ At(t, "prev")
        /\ \/ /\ HasBlockAt(tip) => ~retarget /\ same
              /\ Goto(t, "txs")
           \/ /\ HasBlockAt(tip) /\ ~retarget /\ ~same
              /\ Return(t, FALSE)
           \/ /\ HasBlockAt(tip) /\ retarget
              /\ frame' = [frame EXCEPT ![t].pc = "first", ![t].prev = BlockAt(tip)]
        /\ UNCHANGED <<chainVars, utxo, storeVars, historyVars>>

ReadPrevBlock(t) ==
    LET tip      == frame[t].tip
        retarget == /\ (tip + 1) % DIFFICULTY_INTERVAL = 0
                    /\ tip >= DIFFICULTY_INTERVAL - 1
        same     == frame[t].block.bits = BlockAt(tip).bits
    IN  /\ At(t, "prev")
        /\ \/ /\ HasBlockAt(tip) => ~retarget /\ same
              /\ Goto(t, "txs")
           \/ /\ HasBlockAt(tip) /\ ~retarget /\ ~same
              /\ Return(t, FALSE)
           \/ /\ HasBlockAt(tip) /\ retarget
              /\ frame' = [frame EXCEPT ![t].pc = "first", ![t].prev = BlockAt(tip)]
        /\ UNCHANGED <<chainVars, utxo, storeVars, historyVars>>

ReadFirstBlock(t) ==
    LET tip      == frame[t].tip
        prev     == frame[t].prev
        first    == tip - (DIFFICULTY_INTERVAL - 1)
        expected == IF HasBlockAt(first)
                    THEN GetAdaptiveNextDifficulty(prev.bits, prev.time,
                             BlockAt(first).time, DIFFICULTY_INTERVAL, tip + 1)
                    ELSE prev.bits
    IN  /\ At(t, "first")
        /\ IF frame[t].block.bits = expected THEN Goto(t, "txs") ELSE Return(t, FALSE)
        /\ UNCHANGED <<chainVars, utxo, storeVars, historyVars>>

-----------------------------------------------------------------------------
(* connectBlock: every input must be unspent before anything is changed    *)

\* validateTransactionStructure is pure: run for all transactions at once.
ValidateTransactions(t) ==
    LET block == frame[t].block
    IN  /\ At(t, "txs")
        /\ IF \A i \in 2..Len(block.txs) : ValidateTransactionStructure(block.txs[i])
           THEN GotoWith(t, "inputs", InputPositions(block))
           ELSE Return(t, FALSE)
        /\ UNCHANGED <<chainVars, utxo, storeVars, historyVars>>

\* MUTANT of CheckInput: connectBlockUTXO adds the outputs before it spends the
\* inputs.
CheckInputPutsFirst(t) ==
    LET block == frame[t].block
        todo  == frame[t].todo
    IN  /\ At(t, "inputs")
        /\ \/ /\ todo = {}
              /\ utxo' = [op \in DOMAIN utxo \cup CreatedBy(block) |->
                             IF op \in CreatedBy(block) THEN OutputOf(block, op)
                             ELSE utxo[op]]
              /\ GotoWith(t, "has", InputPositions(block))
           \/ \E p \in todo :
                /\ IsFirst(p, todo)
                /\ UNCHANGED utxo
                /\ IF SpentAt(block, p) \in DOMAIN utxo
                   THEN GotoWith(t, "inputs", todo \ {p})
                   ELSE Return(t, FALSE)
        /\ UNCHANGED <<chainVars, storeVars, historyVars>>

CheckInput(t) ==
    LET block == frame[t].block
        todo  == frame[t].todo
    IN  /\ At(t, "inputs")
        /\ \/ todo = {} /\ GotoWith(t, "has", InputPositions(block))
           \/ \E p \in todo :
                /\ IsFirst(p, todo)
                /\ IF SpentAt(block, p) \in DOMAIN utxo
                   THEN GotoWith(t, "inputs", todo \ {p})
                   ELSE Return(t, FALSE)
        /\ UNCHANGED <<chainVars, utxo, storeVars, historyVars>>

-----------------------------------------------------------------------------
(* connectBlockUTXO: has and spend are two calls, put is one per output    *)

\* A missing input ends the call; what was spent before it stays spent.
HasInput(t) ==
    LET block == frame[t].block
        todo  == frame[t].todo
    IN  /\ At(t, "has")
        /\ \/ todo = {} /\ GotoWith(t, "put", OutputPositions(block))
           \/ \E p \in todo :
                /\ IsFirst(p, todo)
                /\ IF SpentAt(block, p) \in DOMAIN utxo
                   THEN Goto(t, "spend")
                   ELSE Return(t, FALSE)
        /\ UNCHANGED <<chainVars, utxo, storeVars, historyVars>>

\* MUTANT of SpendInput: it spends the output whose index is the loop's, not
\* the input's.
SpendInputByPosition(t) ==
    /\ At(t, "spend")
    /\ \E p \in frame[t].todo :
          /\ IsFirst(p, frame[t].todo)
          /\ utxo' = Erase(utxo, OutPoint(SpentAt(frame[t].block, p).hash, p[2]))
          /\ GotoWith(t, "has", frame[t].todo \ {p})
    /\ UNCHANGED <<chainVars, storeVars, historyVars>>

\* The result of spend is ignored.
SpendInput(t) ==
    /\ At(t, "spend")
    /\ \E p \in frame[t].todo :
          /\ IsFirst(p, frame[t].todo)
          /\ utxo' = Erase(utxo, SpentAt(frame[t].block, p))
          /\ GotoWith(t, "has", frame[t].todo \ {p})
    /\ UNCHANGED <<chainVars, storeVars, historyVars>>

PutOutput(t) ==
    LET block == frame[t].block
    IN  /\ At(t, "put")
        /\ \E p \in frame[t].todo :
              /\ IsFirst(p, frame[t].todo)
              /\ utxo' = Assign(utxo, CreatedAt(block, p), OutputAt(block, p))
              /\ GotoWith(t, "put", frame[t].todo \ {p})
        /\ UNCHANGED <<chainVars, storeVars, historyVars>>

-----------------------------------------------------------------------------
(* connectBlock: the second lock.  Nothing that AddBlock saw is checked    *)
(* again.                                                                  *)

\* saveToDisk runs under both locks; its result is ignored and opening the
\* file may fail.
SaveToDisk(n, stored) ==
    IF n % SaveInterval = 0 THEN disk' \in {disk, stored} ELSE UNCHANGED disk

\* MUTANTS of Commit: the cache is keyed by the parent's hash; or putBlock
\* moves into the branch that saves.
CommitUnderParent(t) ==
    LET block == frame[t].block
        n     == frame[t].at
    IN  /\ At(t, "put")
        /\ frame[t].todo = {}
        /\ blockCache' = Assign(blockCache, block.prev, block)
        /\ heightIndex' = Assign(heightIndex, n, BlockHash(block))
        /\ bestBlockHash' = BlockHash(block)
        /\ height' = n
        /\ Return(t, TRUE)
        /\ UNCHANGED <<utxo, storeVars, historyVars>>

CommitStoresRarely(t) ==
    LET block == frame[t].block
        hash  == BlockHash(block)
        n     == frame[t].at
    IN  /\ At(t, "put")
        /\ frame[t].todo = {}
        /\ blockCache' = Assign(blockCache, hash, block)
        /\ heightIndex' = Assign(heightIndex, n, hash)
        /\ bestBlockHash' = hash
        /\ height' = n
        /\ store' = [blocks |-> IF n % SaveInterval = 0
                                THEN Assign(store.blocks, hash, block)
                                ELSE store.blocks,
                     best |-> hash, height |-> n]
        /\ SaveToDisk(n, store')
        /\ Return(t, TRUE)
        /\ accepted' = accepted \cup {<<hash, n>>}
        /\ ledger' = ApplyBlock(block, ledger)
        /\ UNCHANGED utxo

Commit(t) ==
    LET block == frame[t].block
        hash  == BlockHash(block)
        n     == frame[t].at
    IN  /\ At(t, "put")
        /\ frame[t].todo = {}
        /\ blockCache' = Assign(blockCache, hash, block)
        /\ heightIndex' = Assign(heightIndex, n, hash)
        /\ bestBlockHash' = hash
        /\ height' = n
        /\ store' = [blocks |-> Assign(store.blocks, hash, block),
                     best |-> hash, height |-> n]
        /\ SaveToDisk(n, store')
        /\ Return(t, TRUE)
        /\ accepted' = accepted \cup {<<hash, n>>}
        /\ ledger' = ApplyBlock(block, ledger)
        /\ UNCHANGED utxo

-----------------------------------------------------------------------------
Step(t) ==
    \/ ValidateStructure(t)
    \/ ReadHeight(t)
    \/ ReadPrevBlock(t)
    \/ ReadFirstBlock(t)
    \/ ValidateTransactions(t)
    \/ CheckInput(t)
    \/ HasInput(t)
    \/ SpendInput(t)
    \/ PutOutput(t)
    \/ Commit(t)

Next ==
    \E t \in Thread :
        \/ \E block \in Block, n \in Height : AddBlock(t, block, n)
        \/ Step(t)

Spec == Init /\ [][Next]_vars

-----------------------------------------------------------------------------
(* Types                                                                   *)

PCs == {"idle", "structure", "height", "prev", "first", "txs",
        "inputs", "has", "spend", "put"}

Blocks == Block \cup {Genesis}

Hashes == {BlockHash(b) : b \in Blocks}

\* A map that holds blocks under their own hash.
BlockMap(map) ==
    /\ DOMAIN map \subseteq Hashes
    /\ \A h \in DOMAIN map : map[h] \in Blocks /\ BlockHash(map[h]) = h

IsStore(s) ==
    /\ BlockMap(s.blocks)
    /\ s.best \in Hashes \cup {NullHash}
    /\ s.height \in Nat

Positions == UNION {InputPositions(b) \cup OutputPositions(b) : b \in Blocks}

Frame == [pc : PCs, block : Blocks, at : Nat, tip : Nat, prev : Blocks,
          todo : SUBSET Positions, result : BOOLEAN]

\* Every variable has the shape its C++ counterpart gives it; blocks are
\* cached, stored and saved under their own hash.
TypeOK ==
    /\ height \in Nat
    /\ bestBlockHash \in Hashes
    /\ BlockMap(blockCache)
    /\ DOMAIN heightIndex \subseteq Nat
    /\ \A n \in DOMAIN heightIndex : heightIndex[n] \in Hashes
    /\ IsStore(store)
    /\ IsStore(disk)
    /\ frame \in [Thread -> Frame]
    /\ accepted \subseteq Hashes \X Nat

-----------------------------------------------------------------------------
(* What holds for any number of threads, in spite of the lock that addBlock*)
(* gives up between its checks and its commit.                             *)

\* The tip is the cached block indexed at the current height, and the index
\* has no gap: getBlockByHeight answers for every height up to the tip, and
\* for the heights above it that a late commit has left behind.
IndexComplete ==
    /\ height \in DOMAIN heightIndex /\ heightIndex[height] = bestBlockHash
    /\ \A n \in DOMAIN heightIndex : 0..n \subseteq DOMAIN heightIndex
    /\ \A n \in DOMAIN heightIndex : HasBlockAt(n)

\* Heights are depths: whatever the threads do, a block is only ever
\* committed at one height, and its parent was committed one below.  So no
\* block is indexed twice and a stale caller cannot put one at a wrong height.
HeightIsDepth ==
    /\ \A a, b \in accepted : a[1] = b[1] => a[2] = b[2]
    /\ \A a \in accepted : a[2] > 0 =>
          <<blockCache[a[1]].prev, a[2] - 1>> \in accepted
    /\ \A n \in DOMAIN heightIndex : <<heightIndex[n], n>> \in accepted

\* What makes HeightIsDepth inductive.  The history agrees with the cache and
\* the index; genesis alone is at height 0.
Recorded ==
    /\ <<bestBlockHash, height>> \in accepted
    /\ <<BlockHash(Genesis), 0>> \in accepted
    /\ \A a \in accepted : a[1] \in DOMAIN blockCache
    /\ \A a \in accepted : a[2] = 0 => a[1] = BlockHash(Genesis)

\* What a thread that addBlock has admitted may rely on until its commit,
\* although the tip moves under it: the parent was committed one below.
Admitted ==
    \A t \in Thread : ~At(t, "idle") =>
        /\ frame[t].at > 0
        /\ BlockHash(frame[t].block) # BlockHash(Genesis)
        /\ <<frame[t].block.prev, frame[t].at - 1>> \in accepted
        /\ frame[t].at - 1 \in DOMAIN heightIndex

DepthInv == TypeOK /\ IndexComplete /\ HeightIsDepth /\ Recorded /\ Admitted

\* The blocks whose outputs a thread in the last loop of connectBlockUTXO is
\* adding: nothing can stop their commit any more.
InFlight == {frame[t].block : t \in {u \in Thread : At(u, "put")}}

Origins == {blockCache[h] : h \in DOMAIN blockCache} \cup InFlight

\* No coin from nowhere: every unspent output was created by a committed
\* block, or by one whose commit can no longer fail.  A block that is
\* refused, at whatever point, adds nothing.
CoinsHaveOrigin ==
    \A op \in DOMAIN utxo :
        \E b \in Origins : op \in CreatedBy(b) /\ utxo[op] = OutputOf(b, op)

\* What makes it inductive: a block has its root from validateBlockStructure
\* on, and the outputs still to be added are its own.
RootsChecked ==
    /\ \A h \in DOMAIN blockCache : HasItsRoot(blockCache[h])
    /\ \A t \in Thread : frame[t].pc \notin {"idle", "structure"} =>
          HasItsRoot(frame[t].block)

CoinInv ==
    /\ TypeOK
    /\ RootsChecked
    /\ CoinsHaveOrigin
    /\ \A t \in Thread : At(t, "put") =>
          frame[t].todo \subseteq OutputPositions(frame[t].block)

\* A chain state holds its own tip and every ancestor of each of its blocks
\* but genesis, which nothing ever stores.
HoldsItsChain(s) ==
    /\ s.height > 0 => <<s.best, s.height>> \in accepted /\ s.best \in DOMAIN s.blocks
    /\ \A h \in DOMAIN s.blocks :
          s.blocks[h].prev \in DOMAIN s.blocks \cup {BlockHash(Genesis)}

\* The chain state keeps up with the memory, and what was last saved is a
\* chain of its own at a height where the code saves.
StoreIsClosed ==
    /\ HoldsItsChain(store)
    /\ store.height = height
    /\ DOMAIN store.blocks = DOMAIN blockCache \ {BlockHash(Genesis)}
    /\ HoldsItsChain(disk)
    /\ disk.height % SaveInterval = 0
    /\ DOMAIN disk.blocks \subseteq DOMAIN store.blocks

\* Nothing on the chain, or on its way there, is below height n.
AtOrAbove(n) == height >= n /\ \A t \in Thread : ~At(t, "idle") => frame[t].at >= n

\* How far a late commit may set the tip back: never below the lowest height
\* that a call still under way was admitted for, and that bound only rises.
FloorNeverFalls == [][\A n \in 0..height : AtOrAbove(n) => AtOrAbove(n)']_vars

-----------------------------------------------------------------------------
(* What holds as long as one thread at a time is inside addBlock.          *)

OneThread == \A t, u \in Thread : t = u

\* The tip is the end of the longest chain: no committed block is higher.
TipIsLongest == \A a \in accepted : a[2] <= height

\* The index is a chain: the block at each height has the block one below as
\* its parent.
IndexLinked ==
    \A n \in DOMAIN heightIndex :
        n > 0 => /\ n - 1 \in DOMAIN heightIndex
                 /\ BlockAt(n).prev = heightIndex[n - 1]

\* What checkDifficulty is there for: the bits that the chain below height n
\* demands of the block there.
Due(n) ==
    IF n % DIFFICULTY_INTERVAL = 0
    THEN GetAdaptiveNextDifficulty(BlockAt(n - 1).bits, BlockAt(n - 1).time,
             BlockAt(n - DIFFICULTY_INTERVAL).time, DIFFICULTY_INTERVAL, n)
    ELSE BlockAt(n - 1).bits

\* Every block from height 2 on carries the bits that the blocks below it
\* demand: those of its parent, and at a retarget those that the window makes
\* of them.  (At height 1 the code takes any.)
BitsAreDue == \A n \in DOMAIN heightIndex : n > 1 => BlockAt(n).bits = Due(n)

\* What makes these inductive: the tip waits for the thread that checked it.
TipWaits ==
    \A t \in Thread : ~At(t, "idle") =>
        /\ frame[t].at = height + 1
        /\ frame[t].block.prev = bestBlockHash
        /\ BlockHash(frame[t].block) \notin DOMAIN blockCache

\* And checkDifficulty, whose reads are separate, sees one chain.
BitsWait ==
    \A t \in Thread :
        /\ At(t, "prev") => frame[t].tip = height /\ height > 0
        /\ At(t, "first") =>
              /\ frame[t].tip = height /\ height > 0
              /\ frame[t].prev = BlockAt(height)
              /\ (height + 1) % DIFFICULTY_INTERVAL = 0
        /\ frame[t].pc \in {"txs", "inputs", "has", "spend", "put"} =>
              height = 0 \/ frame[t].block.bits = Due(height + 1)

SerialInv ==
    /\ DepthInv
    /\ TipWaits
    /\ DOMAIN heightIndex = 0..height
    /\ TipIsLongest
    /\ IndexLinked
    /\ BitsWait
    /\ BitsAreDue

\* The claim of blockchain.hpp:46: between calls the UTXO set is what the
\* committed blocks leave unspent.
UtxoIsLedger == (\A t \in Thread : At(t, "idle")) => utxo = ledger

\* A block that spends a coin twice: connectBlock's first pass finds the coin
\* there both times, connectBlockUTXO has spent it by the second.
SpendsTwice(block) ==
    \E p, q \in InputPositions(block) :
        p # q /\ SpentAt(block, p) = SpentAt(block, q)

\* What is left of it: between calls the UTXO set holds no coin that the
\* committed blocks have spent, and it lacks none of the others but for those
\* that a refused block has spent twice.  A block refused for any other reason
\* leaves no trace.
OnlyConflictsLose ==
    (\A t \in Thread : At(t, "idle")) =>
        /\ \A op \in DOMAIN utxo : op \in DOMAIN ledger /\ utxo[op] = ledger[op]
        /\ \A op \in DOMAIN ledger \ DOMAIN utxo :
              \E b \in Block : SpendsTwice(b) /\ op \in SpentBy(b)

\* The abstract ledger that a serially used Blockchain implements.
TheLedger == INSTANCE Ledger WITH
    chain <- [i \in 1..(height + 1) |-> BlockAt(i - 1)],
    coins <- ledger

\* Every commit appends one block on top of the chain, spending coins that
\* are there.
ImplementsLedger == TheLedger!Spec
=============================================================================
