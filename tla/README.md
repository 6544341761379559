# Shawn Coin: a TLA+ model of the node

This directory models the program in `src/shawncoin` (C++17): the chain that
mining threads extend concurrently, the checks a block has to pass, the
difficulty arithmetic, the miner and the mempool; what reaches the disk and what
a crash leaves of it; the wallet, its addresses, the RPC methods and the command
line that talks to them; and the life of the two servers. TLC checks the models
on small instances, and TLAPS proves most of the safety properties for every
instance: of the chain, its coins and its store, the miner, the retarget, the
storage, the wallet and its methods, and the servers. `PROJECT.json` lists the runs, the source lines of
each definition, the hazards and the theorems.

    tlc -config BlockchainRace.cfg MCBlockchain     # and the other runs
    tlapm BlockchainProofs.tla                      # and the other *Proofs.tla

## 1. Inventory

`main.cpp` creates a `Blockchain` with a `MemoryChainState` behind it, a
`Mempool`, a `Node` (network) and, when asked to mine, a `Miner` with two threads
by default; it sleeps until a signal and then stops the miner. The RPC server is
compiled but commented out of `main`; its methods call the same objects.

| Component | State | Operations | What makes it correct |
|---|---|---|---|
| `core/types`, `mining/merkle`, `makeGenesisBlock` | none | txid, Merkle root, header hash, subsidy | ids commit to what they should |
| `core/consensus` | none | structure, proof of work, difficulty, `connectBlockUTXO` | a refused block leaves no trace |
| `core/blockchain` | tip, height, block cache, height index | `addBlock` → `connectBlock` | one chain, heights are depths, tip is the longest |
| `core/utxo` | outpoint → output, own mutex | `has`, `spend`, `put` | equals what the chain leaves unspent |
| `mining/difficulty` | none | `getAdaptiveNextDifficulty` | follows the block times, stays minable |
| `core/mempool` | txid → transaction, own mutex | `add`, `getBlockTemplate` | bounded, unconfirmed transactions only |
| `mining/miner` | flag, threads, thread locals | `start`, `stop`, `miningLoop`, `mineBlock` | rewards fit heights; `stop` returns and is final |
| `storage/chainstate` | blocks, best block, a file | `putBlock`, `setBestBlock`, `saveToDisk`, `loadFromDisk` | holds the chain it names |
| `core/transaction`, `core/block` encoding | none | serialise, deserialise | what is written can be read |
| `main`, `util/config` | settings, summary file | start, signal, exit | exit waits for a save; settings do what they say |
| `wallet`, `crypto/address` | mnemonic, seed, keys; two files | create, restore, addresses, balance, sign, save, load | addresses are fresh and can be signed for; a file brings its wallet back |
| `rpc/api` | a context of pointers | its methods, the parser | the caller learns what a request did |
| `rpc/server`, `mining/stratum` | running flag, thread | start, stop, destroy | `stop` returns, the process survives |
| CLI, `wallet_tool` | none; a backup file | commands | what the user is told is true |
| `network`, `storage/database` | flags | stubs | - |
| `util/logger` | a mutex, a file | `log`, also from the signal handler | whoever logs gets on |
| `util/realtime`, `crypto` C code | - | - | - |

Inside the node, interaction is by direct call and shared memory; no message of
the network is ever sent or received. Clients talk to it by HTTP, and a process
to the next one by files. What is hard:

- **Interleaving.** `addBlock` checks the tip under `mutex_`, gives the lock up,
  validates the block and changes the UTXO set one locked call at a time, and
  takes `mutex_` again to commit without looking at the tip again. The miner
  reads the chain in three separate calls before it offers a block.
- **Partial failure.** `connectBlockUTXO` may fail half way. Results of the
  chain state are ignored.
- **Numeric edges.** The retarget works on the compact word as a whole, wraps in
  32 and in 64 bits, and nothing orders the timestamps it is given.
- **Liveness.** `stop` joins threads that look at the flag once per block; late
  commits set the tip back. A signal handler takes the logger's mutex, which the
  thread that it interrupts may hold.
- **Crashes.** Files are truncated first and then written; nothing is renamed
  into place. What a restart finds is a prefix, or a file of an earlier process.
- **Identity.** Ids leave things out: the txid omits signatures (and with them a
  coinbase's height), the block hash sees transactions only through the root.

## 2. Modules

| Module | Models | Built on |
|---|---|---|
| `Difficulty` | `difficulty.cpp`, the compact target of `checkProofOfWork` | - |
| `CoreTypes` | transactions, blocks, hashes, stateless checks | `Difficulty` |
| `Blockchain` | `addBlock` by any number of threads, UTXO set, chain state | `CoreTypes` |
| `Ledger` | abstract: a sequence of blocks and the coins it leaves | - |
| `Retarget` | the targets a chain can have, window by window | `Difficulty` |
| `Miner` | miner threads, their controller, the mempool, over `Blockchain` | `Blockchain` |
| `Spending` | how often a coin is put and spent, beside `Miner` | `Miner` |
| `Codec` | writers and readers of transactions and blocks, `makeGenesisBlock` | `CoreTypes` |
| `ChainStore` | `MemoryChainState` and its file, item by item | `Codec` |
| `Snapshot` | abstract: a store, and a file that holds all of it or nothing | - |
| `Config` | arguments, file, sections | - |
| `Daemon` | `main.cpp` from process to process, over `ChainStore` and `Config` | both |
| `Base58` | `address.cpp` | - |
| `Wallet` | `wallet.cpp`, `hdwallet.cpp`, `mnemonic.cpp` as operators | `Base58` |
| `Rpc` | the methods and the parser of `api.cpp`, the checks before them | `Wallet` |
| `Cli` | the requests of the command line and its reports | `Rpc` |
| `Node` | a program that serves RPC, its clients, `wallet_tool`, restarts | `Cli` |
| `Servers` | how `RpcServer` and `StratumServer` start and stop | - |
| `BlockchainProofs` | theorems about the chain and the state behind it, for any number of threads | `Blockchain` |
| `LedgerProofs` | the coins with one thread, the refinement of `Ledger` | `BlockchainProofs` |
| `MinerProofs` | the miner as a client of the chain, and its promises | `Spending`, `BlockchainProofs` |
| `RetargetProofs` | the retarget's arithmetic, for all widths | `Retarget` |
| `CodecProofs` | readers give back what writers wrote, for all blocks | `Codec` |
| `DaemonProofs` | the file, the processes, the refinement of `Snapshot` | `Daemon`, `CodecProofs` |
| `NodeProofs` | the wallet, the methods and their clients | `Node` |
| `ServersProofs` | start and stop | `Servers` |
| `MCBlockchain`, `MCRetarget`, `MCMiner`, `MCGrowth`, `MCSpending`, `MCDaemon`, `MCNode` | instances for TLC | |

Operators named in a comment as MUTANTS are faulty variants of the definition
that follows; no specification uses them. Each shows that a property can fail.

### Blockchain

`height`, `bestBlockHash`, `blockCache`, `heightIndex` are the members of
`Blockchain`, `utxo` the map of `UTXOSet`, `store` and `disk` the chain state and
its file. `frame[t]` holds thread `t`'s place in `addBlock` and its locals. Two
history variables record what the code does not: `accepted`, every committed
block with its height, and `ledger`, the coins as they would be had every
committed block been applied whole. **One action is one locked call** with the
thread-local work next to it, so TLC interleaves threads exactly where C++ can:

| Action | Code |
|---|---|
| `AddBlock` | `addBlock`, first lock |
| `ValidateStructure` | `validateBlockStructure` (reads the clock) |
| `ReadHeight`, `ReadPrevBlock`, `ReadFirstBlock` | the three reads of `checkDifficulty` |
| `ValidateTransactions`, `CheckInput` | `connectBlock`'s loop over inputs |
| `HasInput`, `SpendInput`, `PutOutput` | the loops of `connectBlockUTXO` |
| `Commit` | second lock, chain state, save every tenth block |

The transactions are validated before the inputs are looked at, where the code
alternates: both only read, and either failure has the same result. A save is
one step here (`disk`); `Daemon` takes it apart.

SHA-256d is taken to be injective: the hash of a message is the message. What
the code leaves out of a message (signatures, the transactions of a block but
for their root) is left out of the hash as well. `HashBytes`, the 32 bytes
that proof of work compares, is a parameter. Timestamps fit into 32 bits, as the
header hash needs and the clock check enforces.

### Retarget

One step is a window of `DIFFICULTY_INTERVAL` blocks that carry the same bits.
The first block may carry any bits (at height 0 `checkDifficulty` accepts
everything), so every minable word is a starting point. Byte, word and 64-bit
widths are parameters; the scaled instance keeps the proportions that matter:
exponents whose octuple still fits into the word, exponents that wrap, and
exponents that decode to zero.

### Miner

`mine[t]` is the place of thread `t` in `miningLoop` and its locals; while it is
inside `addBlock` it takes the steps of `Blockchain`. One controller starts and
stops the miner (`main`, or the RPC server's single thread). The mempool has
`Add` (from `sendtoaddress`) and `GetBlockTemplate`; nothing calls `remove`.
`announced` is the real-time feed. The height in a coinbase's script enters no
hash and no check and is left out.

`Spending` counts beside it how often each coin was put into the UTXO set. Genesis
pays the 20 zero bytes of the miner's default payout, so that the coinbase of every
block restores the coin that genesis and the blocks before it had put, and a
confirmed transaction, which stays in the pool, is confirmed again. `SpendsAreBacked`
is what is left of "no double spend": a branch spends a coin in no more blocks than
there were puts of it.

### Codec, ChainStore, Snapshot

`Codec` works on sequences of cells: a field of fixed width is one cell, a
variable-length integer is as many bytes as the code writes (with `BYTE` values
to a byte), so that all of its lengths occur and cutting a record anywhere gives
what a reader would really see. `MAX_SCRIPT` is the reader's limit of 10000, which no
writer knows.

`ChainStore` has the two maps of `MemoryChainState` and `file`, the cells of
`blockchain.dat`. `BeginSave` truncates, each `WriteItem` appends one item or loses
it. A later `fwrite` may succeed after one that failed and leave a file with a gap
(`gap`); what stands behind a gap is at the wrong place, and `file` ends there.
`ReadVarInt` extends the sign of the fourth byte, as the shift of an `int` in the code
does: counts of 2^31 and more are not read back.
`LoadFromDisk` is the function as it is written, its uninitialised key
included: the key of each block is a parameter, and the caller chooses.
`Snapshot` is what a reader of such a file may rely on, and `Daemon` implements it.

### Config and Daemon

`Daemon` is a sequence of processes on one data directory. A process is started
with arguments and a file out of a small set, launches its threads, mines, saves
at every `SaveInterval`-th height, and ends by a signal, by an exception (of
`std::stoi`, or of the thread constructor when `genproclimit` asks for more threads
than the system has: a negative number is cast to a `uint32_t`), or by a crash at any
moment. `phase` is the place of `main`:

| `phase` | Code | left by |
|---|---|---|
| `starting` | end of `start`, "Mining started" (main.cpp:137) | `MainLogged`, `SpawnFails` |
| `up` | the loop (142) | `Poll`, once the flag is stored |
| `closing` | "Shutting down" (145) | `MainLogged` |
| `stopping` | `miner->stop` joins (146) | `Summarize` |
| `leaving` | "stopped" (159) | `MainLogged` |
| `failing`, `failed` | the miner's destructor joins; "Fatal error" (163) | `Unwind`; `MainLogged` |

`holder` is who holds the mutex of `Logger::log`: `main` after these four lines, a
mining thread after each of its blocks (`Report`). `signal` is the thread in the
middle of which the handler runs, until it has the logger in its turn and stores
the flag (`Handle`). A thread below a handler does not move.

A mining thread takes five steps here (look at the flag; search and be admitted;
commit; write the file; log): `Blockchain` has the ones in between. As in the code, a
save happens inside a commit and holds the lock. `mined` and `missed` are history.

### Base58, Wallet, Rpc, Cli, Node

The wallet is a record and its methods are operators on it; the RPC context is
a record around it. That a request is one step follows from the thread pool of
size one in `RpcServer::start`. Addresses are converted digit by digit, since one
property is about their order of bytes; `BYTE`, `BASE` and the lengths are scaled. A
seed is the pair of phrase and passphrase. `Words` of `WordCount` entries of the
word table exist (2045 of 2048); inserting a null `char*` sets the stream's badbit,
as libstdc++ does. A wrong password decrypts to nothing, or (a padding fits once
in 256 times) to garbage, which is not the phrase that was encrypted. `Parse` drops the parameters, `SetField` drops the value
it is given, as the code does: `operator[]` returns a copy.

`Node` hosts the RPC server as the commented lines 113-115 of `main.cpp` would, with a
miner in the context. Its steps are starts, ends (also in the middle of a save of
`wallet.dat`), saves, uses of `wallet_tool`, and the three steps of a request
(`Send`, `Handle`, `Finish`), so that a program may end with a request under way.
`given` (per run, every address handed out, new or already known, with the seed; a
restart begins another list and keeps the old ones) and `origin` (the file a wallet came
from) are history.

### Servers

One server of either kind, its thread, its owner and the next client. `stop` is two
steps, clearing the flag and `join`; assigning to or destroying a joinable
`std::thread` ends the process (`aborted`).

## 3. Runs

| Run | Bounds | Shows |
|---|---|---|
| `blockchain_race` | 2 threads, 6 blocks on two forks, heights 0..4 | type, `IndexComplete`, `HeightIsDepth`, `CoinsHaveOrigin`, `StoreIsClosed` survive every interleaving; `FloorNeverFalls`: the tip is set back no further than the oldest call under way |
| `blockchain_serial` | 1 thread, 18 blocks (10 refused for 10 reasons, 2 double spends) | implements `Ledger`; `TipIsLongest`, `IndexLinked`, `BitsAreDue`; only a double spend costs coins |
| `blockchain_race_tip` | as race | **violated**: a late commit sets the tip back |
| `blockchain_conflict` | as serial | **violated**: a refused double spend destroys its coin |
| `retarget_windows` | all 4096 words, 12 timestamps, 3 windows | what the retarget does: the window's length never reaches the mantissa; on time keeps the exponent; backwards counts as slowest; fast is never easier |
| `retarget_bounds` | two clock values, the miner's target | **violated**: after a slow window it becomes zero |
| `miner_threads` | 2 threads, height 3, two transactions that spend one coin and one that creates too much, pool of 1, equal rewards below height 2 | rewards fit heights, announced blocks exist, the pool keeps its limit, `stop` is final, no branch spends a coin more often than it was put |
| `miner_liveness` | 2 threads, height 3, two blocks for every parent | mining goes on although the tip is set back; `stop` returns |
| `miner_supply` | 1 thread | **violated**: coinbases overwrite each other's coin |
| `daemon_storage` | 2 processes, 2 threads, height 2, a save at height 2 | what is written reads back; the file implements `Snapshot`; a whole file is one process' chain; a clean exit keeps its save |
| `daemon_signal` | 1 process, 2 threads, a signal to anyone | **violated**: a signal to a thread that logs stops the process for good |
| `node_rpc` | 1 client, 5 steps, 2 programs; 3 starts of a server | which addresses a run gives and reaches; what a restart brings back; when a `stop` returns, and what aborts |

*Why the bounds are enough.* A race needs two threads at one height and one of
them a height further, hence heights up to 3 for the chain (A3 on A2 on A1,
against B2 on B1); a retarget and a save come at every second height, so each
happens. In `miner_threads` the reward halves at height 2, so that the coinbase of
height 1 restores the coin of genesis, as coinbases do in the program, and a reward
read at the wrong moment is visible above it; heights up to 3 give the tip two steps to
move between any two reads. `RewardIsSubsidy` holds for two threads, the default
of `genproclimit`, and not for three: the tip moves *back* between the reads only
if one thread commits early and another commits the same block late, while the
third reads. In `miner_liveness` a second block may be mined on each parent, at another
time of day, so that a thread admitted early sets the tip back before the goal. The set `Height` bounds what callers
of `Blockchain` pass, and `MaxHeight` the chain in `Miner`; `MaxNonce`,
`MAX_MEMPOOL_SIZE` and the clock are small to keep the runs short; which nonce is good
depends on the template, and for one template none is.

In `daemon_storage` two threads at height 1 and 2 may commit different blocks and
set the tip back, save in either order, and be cut by a crash between any two
items; a second process meets the file of the first, whole or not. Bytes have four
values, so lengths take one, three and five bytes, and the pool offers a
script just above the limit and a block with a list of 16. The files have lines
under a named section and an unnamed one that ends it, a `genproclimit` of -1 and one
that is no number.
`MaxRuns` and `MaxHeight` bound processes and heights; there is one signal per
process (a second one finds the same handler), and `Hit` says whom it may hit:
in `daemon_storage`, where the file matters, `main` alone in the first process and
in the others nobody.

In `node_rpc` the longest case needs four requests (create, new address, create,
new address: two of the draws share a phrase after a missing word) and a use of
`wallet_tool` or a save, hence five steps; a restart needs two programs. `MaxSteps`,
`MaxRuns` and `MaxStarts` are the bounds. One client is enough: handlers are
serialised and see nothing of who asked, so that two clients give no other order
of handlers than one. The checksum of the instance is one for which no address
reads backwards by accident; in the program that happens once in 2^40. `Node` and
`Servers` share nothing, and the run explores whichever of the two moves first.

*Symmetry* over threads is used in safety runs only. Deadlock checking is off
for `Retarget`, where a chain with a zero target really stops, for the runs of
`Daemon`, where the last process may end, of `Node`, where a program ends, a stop of
the RPC server may never return and a process may be aborted, and for `miner_liveness`,
which may rest at its goal.

*Fairness.* `GrowthSpec` lets every thread that is inside `addBlock` or
`miningLoop` take its next step (weak fairness per thread), and the thread in `stop`
run once the others have left. These threads block on
nothing but short critical sections, and the search for a nonce is finite, so a
fair operating system is all it takes. Nobody has to call `stop`. It starts with a miner
that is running, has a nonce within reach and no retarget.
`FairDaemonSpec` is weakly fair to the threads, to a save under way and to `main`, and
strongly fair to whoever asks for the logger's mutex, which is held for the
length of a line: `std::mutex` promises no order, but no implementation lets one
thread wait for ever while others come and go. Nobody has to start, signal or crash a
process. `ServersFairness` is fair to the thread of a server and to `join`. Clients,
the HTTP library and the owner do as they like: `StopReturns` of `Servers` supposes, of
Stratum, clients that keep coming and that send or close, and of RPC, that the
library ends its run; nothing in the program makes either happen.

## 4. Findings

1. The tip moves back (`blockchain_race_tip`): against WHITEPAPER 4.
2. A refused double spend loses coins (`blockchain_conflict`): against
   `blockchain.hpp:46`.
3. The first retarget kills the chain (`retarget_bounds`): `difficulty.cpp:54`
   promises bounds. In the run the first window takes 138 seconds instead of 16, and the
   miner's word 271 goes to 287 (saturated), 71 (divided by four) and 35 (by two), whose
   exponent is 0; in full width 0x0400ffff becomes 0x047fffff, 0x011fffff and
   0x008fffff, the zero target, after any window of more than eight times its
   planned time. The first one has genesis, of 2024, at its beginning. Moreover the
   miner keeps offering 0x0400ffff, which `checkDifficulty` refuses from block 2016
   on whatever the new target is.
4. Coinbases share a txid (`miner_supply`): all rewards of a halving period and
   payout are one coin, against `types.hpp:91`.
5. A signal to a thread that logs deadlocks it (`daemon_signal`): `main.cpp:26` calls
   the handler graceful. In the run it hits `main` while "Mining started" is written.

Some properties of passing runs describe, in what they leave out, things that a user
would not expect:

- A wrong password may open a file, a create that fails keeps the old seed and saves
  another phrase (`FileRestores`); a save that is cut short loses `wallet.dat`, and
  `main` does not try the backup then.
- `createwallet` strands the addresses of the old seed, and a restart those of
  the same seed until as many have been asked for again (`CountDecidesReach`).
- Three words of the BIP39 table are missing; phrases are cut short there.
- A script above 10000 bytes can be stored and not read (`ReadBack`).
- `RpcServer::stop` returns only if the library ends its run, and
  `StratumServer::stop` waits for a client (`StopReturns`); a failed set-up leaves a
  thread that aborts the process later (`AbortNeedsFailure`).

Four defects are facts of the code that theorems state for every configuration,
address and request, against what the documents say:

- `gen=1` under `[mining]`, as docs/MINING.md:10-15 shows it, does not start the miner
  (`SettingsDecide`): the key becomes `mining.gen`, which nobody asks for.
- No address of a wallet validates, has a balance or can be signed for
  (`DecodingReverses`, `CoinsStayLost`): `decodeBase58` returns the bytes lowest first.
  EASY_CLI_GUIDE.md:67-68 and 126-130, docs/MINING.md:23 and docs/API.md:28-29 say
  otherwise.
- Every reply is `null`, so that `getnewaddress` is reported as failed though it has
  worked (EASY_CLI_GUIDE.md:58), and what is reported as done did nothing:
  `backupwallet` is, although no file was written (`OkMeansNothing`).
- No parameter reaches any method (`ParametersNeverArrive`): docs/API.md:41-45
  documents passphrases, addresses and amounts.

Seen while modelling, and left to the reader or to one of the properties above:

- With two threads a block can be accepted with the bits of another height: the tip
  may be set back between the check of its height and that of its bits
  (`consensus.hpp:16`). With one thread `BitsAreDue` holds.
- With three threads a block can be accepted with the reward of the height above
  (WHITEPAPER.md:18). With two `RewardIsSubsidy` holds.
- A confirmed transaction stays in the mempool, which `mempool.hpp:14` says holds
  unconfirmed ones. It is offered in every later template, and confirmed again as soon
  as a coinbase has restored its coin; as long as the coin is gone every template with
  it fails, and the miner stands still.
- A restart begins at genesis beside a whole `blockchain.dat` and overwrites it later
  (`blockchain.hpp:27`): nothing calls `loadFromDisk`.
- After a restart with the same seed `getnewaddress` gives the addresses of the run
  before again (EASY_CLI_GUIDE.md:46 says "new"); `FreshAddresses` says which.
- `addBlock` never accepts a side chain (`blockchain.hpp:30` says it may);
  `disconnectBlockUTXO` does not restore inputs (`consensus.hpp:28` says it does) but
  has no caller.

## 5. Proofs

Each theorem is `Spec => []P`, `Spec => [][A]_vars` or a refinement, for every value of
the constants that satisfies the named assumptions. No theorem needs fairness.

**Chain** (`BlockchainProofs`, any threads, blocks, heights and widths):

- `TypeCorrect`: `Spec => []TypeOK`. Blocks sit under their own hash.
- `IndexIsComplete`, `HeightsAreDepths`: by the invariant `DepthInv`. Neither
  property is inductive: a thread that was admitted a while ago commits at a
  height the tip has left. `Admitted` says what such a thread may still rely on
  (its parent *was* committed one below, and stays in the history), `Recorded`
  ties history, cache and index together.
- `CoinsComeFromBlocks`: by `CoinInv`. A coin's creator must not change under it
  when a commit overwrites a cache entry with a block of the same hash, whose
  transactions may differ (a repeated last transaction, other signatures). The
  assumption `HashCommits` says that such blocks create the same coins, and
  `RootsChecked` that no block without its own root gets that far.
- `SetBacksAreBounded`: `Spec => FloorNeverFalls`, by `TypeOK` alone: a call is admitted
  one above the tip and commits at the height it was admitted for.
- `SerialTip`, `SerialIndex`, `SerialBits`: with `OneThread`, by `SerialInv`: the tip
  waits for the thread that checked it, and so do the bits that it demands.

Assumptions: `DifficultyConstants`, `ConsensusConstants`, `ChainConstants`,
`HashCommits` (TLC evaluates them in every run of `MCBlockchain`).

**Chain state** (`BlockchainProofs`): `StoreStaysClosed`, by `StoreInv`, which is
`DepthInv` and the property: a late commit finds its parent in the store because
its admission found it in the cache.

**Coins** (`LedgerProofs`, with `OneThread`; `blockchain_conflict` shows that even then
coins are lost, and `OnlyConflictsLose` to whom):

- `OnlyConflictsLoseCoins`, by `LedgerInv`. The property speaks of the states between
  calls; the invariant adds what the coins are in each loop of a call
  (`Checking`, `Spending`, `Putting`).
- `ChainImplementsLedger`: the same invariant gives the refinement of `Ledger`, with
  the blocks of the index for its chain and the history `ledger` for its coins. A
  commit is `Extend`, all else stutters.

**Miner** (`MinerProofs`):

- `MinerIsClient`: `MinerSpec => Spec`, so that what is proved of `Blockchain`'s calls
  holds of a chain being mined. The hypothesis `Offers` closes the constants `Block`
  and `Height` of `Blockchain`, which no action of `Miner` reads, under what miners
  build.
- `MinerTypeCorrect`, with the pool's limit; `StopLeavesNobody`: after `stop` nobody is in
  `addBlock` either.
- `TwoThreadsRewards`, `TwoThreadsAnnounce`: for `TwoThreads` or one. The reason
  is `BasisStays`: with one other thread the tip goes back only by a block
  offered before, which is never what this thread builds upon. With three
  threads both fail.
  `GenesisPays` says what `makeGenesisBlock` pays.
- `SpendsStayBacked`: `SpendsAreBacked` for any number of threads, of `SpendingSpec`. What
  `spend` answers is ignored and threads spend while others check, so that nothing
  like it holds of all committed blocks: two threads may both find a coin and both
  spend it. It holds of a branch by `CoinsBacked`: a branch that may
  still be built on has spent a coin less often than it was put, as long as the
  coin is there; whoever has found it (`Found`) or spent it (`Spent`) on the
  way to a commit keeps that margin, since no commit of another thread adds to its
  own branch. The case of a block that
  replaces another under the same hash rests on `HashCommits`. `OutputsAreLists` and
  `GenesisIsFirst` (one transaction, and a parent hash that is no block's) are its
  own assumptions; `miner_threads` evaluates them.

**Retarget** (`RetargetProofs`): `TargetsFit`, `MantissaSaturates`, `OnTimeWindows`,
`BackwardsWindows`, by `WindowInv` and arithmetic over `DifficultyConstants`
(an even `BYTE`, a `WORD` of whole mantissas) and `RetargetConstants`. `TimesFit` keeps the times of day far from the end of a 64-bit
integer, so that only differences wrap. `FastWindows` proves `FastIsHarder` from the bytes
of a target: `TargetBytes` says where its three bytes lie and that all others are
zero, `LowerBytes` that the larger exponent has them further from the end of the hash
that is compared first.

**Encoding** (`CodecProofs`): `BlocksAreRead`: `deserializeBlock` gives every block of
transactions back, unless one of its scripts or signatures is longer than
`MAX_SCRIPT`, and accepts no part of an encoding that lacks some of its end. All
readers are shown to do three things with what their writer wrote (`Reads`):
give it back and stop behind it, fail where the data ends inside it, and fail if
it does not fit. `Sequel` says that one reader after another does so if each does;
`ReadsVarInt`, `ReadsBytes`, `ReadsInput`, `ReadsOutput` and `ReadsTransactions` are
instances, with one induction over the length of a list (`ReadsList`). Lists
are vectors of fewer elements than the reader can count (`IsList`, `COUNT_LIMIT`: 2^31,
where its sign extension begins).

**Storage** (`DaemonProofs`, any threads, processes and blocks):

- `SaveImplementsSnapshot`: `DaemonSpec` implements `Snapshot`. `StoreOK` says that the file
  and what is still to be written are together what `saveToDisk` set out to
  write, and that the store stands still meanwhile (the lock is held).
- `StorageTypeCorrect`: nobody is left when `main` has joined its threads, and a save
  has one thread. `CleanExitKeepsSave`, by `KeepInv`: the last block that was due is
  being saved or is in the file.
- `FileHoldsOneRun`, by `HistoryInv`: a process stores what it mines
  and builds on nothing else (`ChainsGrow`, `StoreIsMined`), and the file holds a
  chain that one process had when it was written (`FileIsMined`). In
  memory blocks are compared by hash, in the file by encoding; that these
  agree needs the length of an encoding (`BlockLength`), for all lists of
  transactions.
- `StoredIsReadBack`: the step that stores a block stores the encoding of one that this
  process mined; the rest is `BlocksAreRead`. The run cuts an encoding at three
  places, the theorem at all of them.
- `SettingsDecide`: from the start until `main` stops them, threads mine exactly when
  the arguments, or the last line for `gen` or `mine` in no named section, ask for it.
  `LastSetterCounts` says what `Load` computes for a file of any length.

Assumptions: `CodecConstants`, `DaemonConstants`, `OneDataDir`, `ConfigConstants` and
`FilesAreLines` (numbers are numbers, files are lists of lines),
`ClockIsPastGenesis` (a mined block is never the genesis block again) and
`PooledAreTransactions` (what the mempool holds are vectors, each short of 2^31 elements). `daemon_storage` evaluates all of them.

**Wallet and methods** (`NodeProofs`, any draws, passwords, clients and steps):

- `ParametersNeverArrive`, `OkMeansNothing`, by `NodeInv`: a request reaches its method
  without parameters, hence seeds have no passphrase and the pool, the blocks
  and the files of `backupwallet` stay empty.
- `RestartRestores`: what a start finds is what was saved, up to the cases that
  `FileRestores` lists.
- `AddressesAreFresh`, `ReachTakesCount`, by `GivenInv`, over all runs of the program: the
  keys are the addresses of the present run and as many as these (`KeysGiven`), so
  that the size of `keys_` is a free index in it whatever seeds there were, and
  the i-th address of any run is the one of its seed at index i - 1 (`InOrder`).
  `HashesDiffer` takes HASH160 for injective; that
  Base58 keeps different hashes apart is proved (`AddressesDiffer`).
- `WalletTypeCorrect`, by `WalletInv`: the keys are addresses that were handed out
  (`KeysGiven`), and an address is a text of digits (`AddressIsDigits`). The lemmas
  under it, `DigitsAreDigits`, `PushGivesDigits` and `ConvertGivesDigits`, say that the
  conversion between bases yields digits for texts of any length.
- `DecodingReverses`: `decodeBase58` gives back the bytes that `encodeBase58` wrote, in the
  opposite order. A numeral comes with the values of its tails (`Places`): `DigitsWrite`,
  `PushWrites` and `ConvertWrites` follow them through the loops of the code, and
  `OneNumeral` says that a number has one numeral in a base. Reading digits
  backwards, the values of the tails are what has been read so far.
- `CoinsStayLost`: `NoCoinIsFound`, which like the formulas of the first item is stated in
  `NodeProofs`, by `WalletInv`, since by `DecodingReverses` no address of a
  wallet yields a hash.

Assumptions: `Base58Constants`, `WalletConstants`, `NodeConstants`, `CoinsAreListed`; of the hashes
`HashesAreBytes` (hashes have `HASH_LEN` bytes, checksums consist of bytes), `HashesDiffer`, and
for `CoinsStayLost` alone `NoAddressBackwards`: no address has, with its bytes in the opposite
order, a valid version and checksum. That depends on the values of the hash functions, and
in the program about one address in 2^40 is an exception. `node_rpc` evaluates all of
them on its instance.

**Servers** (`ServersProofs`, any number of starts): `AbortTakesFailure`,
by `ServersInv`: a free owner without a flag has a thread only
after a failed set-up (`FlagHasThread`).

*Induction over data.* No induction theorem of the library can be used (they take an
operator as parameter). Where a proof needs one, it takes a least
counterexample: the naturals are well-founded, so a failing list has a first
position at which it fails (`FirstPosition`, `LastPosition`), and the step refutes
that position. That a recursive function exists at all (a `LET` with a recursive
definition is a CHOOSE) is proved the same way (`SectionsExist`, `ValuesExist`,
`FlattenSteps`, `ReadExists`, `RecursionExists`).

*Only model-checked.* Liveness (`StopReturns` of both modules,
`MiningGrows`): the prover handles neither fairness nor ENABLED.
The runs that expect a violation stay with TLC as a matter of course.

## 6. Plan

Every safety property of a passing run is stated by a theorem. What would come next:
`DecodingReverses` for bytes that start with zeros (no address does), the reverse
direction of the encodings (what a reader accepts was written by a writer, up to
longer forms of the same number), and side chains, once `addBlock` accepts them.

Not modelled, and why: cryptography and hash functions (external libraries,
abstracted as injective); base64 (credentials match or do not); the network and the
database (stubs without behaviour); what the log says; floating-point estimates and amounts
(display); the commands that print help, or the summary file (`mined`);
`apiBlockByHash`, `apiBlockByHeight` and `disconnectBlockUTXO` (no caller). The
locks of the wallet are left out: all its calls come from one thread. The HTTP
library RESTinio is external: it serves until it returns for a reason of its own.
