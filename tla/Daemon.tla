-------------------------------- MODULE Daemon --------------------------------
(***************************************************************************)
(* main.cpp from one process to the next: configuration, a miner over a    *)
(* chain that saves itself every SaveInterval blocks, a signal, the        *)
(* summary, and a crash at any moment.  The chain always starts at         *)
(* genesis: no process reads blockchain.dat.                               *)
(*                                                                         *)
(* A mining thread looks at mining_, searches, is admitted by the first    *)
(* lock of addBlock, commits under the second one, by when the tip may     *)
(* have moved (Blockchain has every step in between), writes the file if   *)
(* a save is due, and logs its block.  A commit includes putBlock and      *)
(* setBestBlock; a save runs under the same locks.                         *)
(*                                                                         *)
(* The system delivers a signal to a thread of its choice.  The handler    *)
(* runs in the middle of what that thread does, and logs before it stores  *)
(* g_shutdown.  Logger::log holds a mutex that a thread cannot take twice. *)
(***************************************************************************)
EXTENDS ChainStore, Config

CONSTANTS
    Thread,                     \* as many as the system gives a process
    LaunchSet(_),               \* [args, conf]: ways to start the n-th process
    Home,                       \* $HOME/.shawncoin
    Bits,                       \* EASY_MINE_DIFFICULTY
    Genesis,
    Payout,                     \* payoutHash_
    Seconds(_),                 \* what the clock may show in the n-th process
    Pooled(_),                  \* what the mempool holds at a second
    SaveInterval,
    Hit(_),                     \* whom a signal may hit in the n-th process
    MaxRuns, MaxHeight          \* bounds

ASSUME DaemonConstants ==
    /\ IsFiniteSet(Thread) /\ Thread # {}
    /\ Thread \cap {"main", "nobody", "stored"} = {}
    /\ SaveInterval \in Nat \ {0}
    /\ MaxRuns \in Nat /\ MaxHeight \in Nat

\* The directory is taken from the arguments, before the file in it is read.
\* There is one: processes in different directories have nothing in common.
ASSUME OneDataDir ==
    \A n \in 1..MaxRuns : \A l \in LaunchSet(n) :
        GetDataDir(LoadFromArgs(l.args), Home) = Home

\* The file is read line by line.
ASSUME FilesAreLines ==
    \A n \in 1..MaxRuns : \A l \in LaunchSet(n) :
        Len(l.conf) \in Nat /\ DOMAIN l.conf = 1..Len(l.conf)

\* The genesis block is dated in the past.
ASSUME ClockIsPastGenesis ==
    /\ Genesis.time \in Nat
    /\ \A n \in 1..MaxRuns : \A now \in Seconds(n) : now \in Nat /\ now > Genesis.time

\* The payout script and what the mempool holds are vectors.
ASSUME PooledAreTransactions ==
    /\ IsList(PayToHash(Payout))
    /\ \A n \in 1..MaxRuns : \A now \in Seconds(n) :
          /\ IsList(Pooled(now)) /\ Len(Pooled(now)) + 1 < COUNT_LIMIT
          /\ \A i \in 1..Len(Pooled(now)) : IsTransaction(Pooled(now)[i])

VARIABLES
    phase,                      \* place of main
    launch,                     \* arguments and file of the process
    work,                       \* work[t]: place of a thread, tip it builds on
    holder,                     \* who holds the logger's mutex
    signal,                     \* "nobody", who is in the handler, or "stored"
    summary,                    \* height in mined_summary.txt
    exit,                       \* how the last process ended
    runs,                       \* processes so far
    mined,                      \* history: blocks that each process committed
    missed                      \* history: whether one of its saves failed

procVars == <<phase, launch, work, holder, signal, summary, exit, runs>>
historyVars == <<mined, missed>>
daemonVars == <<storeVars, procVars, historyVars>>

Off == [pc |-> "off", tip |-> NoBest]
Everyone(s) == [t \in Thread |-> s]
Actor == Thread \cup {"main"}

DaemonInit ==
    /\ StoreInit
    /\ phase = "off"
    /\ launch = [args |-> << >>, conf |-> << >>]
    /\ work = Everyone(Off)
    /\ holder = "nobody"
    /\ signal = "nobody"
    /\ summary = 0
    /\ exit = "none"
    /\ runs = 0
    /\ mined = [r \in 1..MaxRuns |-> {}]
    /\ missed = FALSE

-----------------------------------------------------------------------------
(* The settings of a process.                                              *)

Settings(l) == Load(l.conf, LoadFromArgs(l.args))

Fatal(values) == \E key \in {"port", "gen", "genproclimit"} : Throws(values, key)

DoMine(values) == GetInt(values, "gen", 0) # 0 \/ Get(values, "mine", "") = "1"

\* The number is cast to a uint32_t; start(0) starts one thread.
ThreadCount(values) ==
    LET count == GetInt(values, "genproclimit", 2) % WORD
    IN  IF count = 0 THEN 1 ELSE count

Threads(values) == IF DoMine(values) THEN ThreadCount(values) ELSE 0

\* A process that fails before it starts threads is gone in this step; any other
\* is at the end of start, with the threads that the system gave it.
Launch(l) ==
    LET values == Settings(l)
    IN  /\ phase = "off" /\ runs < MaxRuns
        /\ launch' = l
        /\ runs' = runs + 1
        /\ missed' = FALSE
        /\ NewStore
        /\ \/ /\ Fatal(values)
              /\ exit' = "error"
              /\ UNCHANGED <<phase, work>>
           \/ /\ ~Fatal(values)
              /\ phase' = "starting"
              /\ exit' = "none"
              /\ \E ts \in SUBSET Thread :
                    /\ Cardinality(ts) = AtMost(Threads(values), Cardinality(Thread))
                    /\ work' = [t \in Thread |-> IF t \in ts THEN [Off EXCEPT !.pc = "loop"]
                                                 ELSE Off]
        /\ UNCHANGED <<holder, signal, summary, mined>>

-----------------------------------------------------------------------------
(* The logger and the signal.                                              *)

In(t, pc) == work[t].pc = pc

Lives(u) == phase # "off" /\ (u = "main" \/ (u \in Thread /\ ~In(u, "off")))

\* u is not in the handler.
Goes(u) == phase # "off" /\ signal # u

AllStarted == Threads(Settings(launch)) <= Cardinality(Thread)

\* What main does after a line in the log: "Mining started", "Shutting down",
\* "stopped" and "Fatal error".
NextPhase == [starting |-> "up", closing |-> "stopping", leaving |-> "off", failed |-> "off"]

HasToLog(u) ==
    IF u = "main" THEN phase \in DOMAIN NextPhase /\ (phase = "starting" => AllStarted)
    ELSE In(u, "report")

TakeLogger(u) ==
    /\ Goes(u) /\ HasToLog(u)
    /\ holder = "nobody" /\ holder' = u
    /\ UNCHANGED <<storeVars, historyVars, phase, launch, work, signal, summary, exit, runs>>

\* BOUND: one signal for each process.
Signal(u) ==
    /\ Lives(u) /\ u \in Hit(runs)
    /\ signal = "nobody" /\ signal' = u
    /\ UNCHANGED <<storeVars, historyVars, phase, launch, work, holder, summary, exit, runs>>

\* signalHandler needs the logger, which may be held below it.
Handle ==
    /\ signal \in Actor
    /\ holder = "nobody"
    /\ signal' = "stored"
    /\ UNCHANGED <<storeVars, historyVars, phase, launch, work, holder, summary, exit, runs>>

-----------------------------------------------------------------------------
(* Mining threads.                                                         *)

Tip == IF best.height = 0 THEN [hash |-> BlockHash(Genesis), height |-> 0] ELSE best

Mining == phase \in {"starting", "up", "closing"}

LoadFlag(t) ==
    /\ Goes(t) /\ In(t, "loop")
    /\ \/ Mining /\ work' = [work EXCEPT ![t].pc = "search"]
       \/ ~Mining /\ work' = [work EXCEPT ![t] = Off]
    /\ UNCHANGED <<storeVars, historyVars, phase, launch, holder, signal, summary, exit, runs>>

\* The block is on the tip, or it is not (or none was found) and is refused.
Admit(t) ==
    /\ Goes(t) /\ In(t, "search")
    /\ ~Saving
    /\ \/ /\ Tip.height < MaxHeight
          /\ work' = [work EXCEPT ![t] = [pc |-> "admitted", tip |-> Tip]]
       \/ work' = [work EXCEPT ![t].pc = "loop"]
    /\ UNCHANGED <<storeVars, historyVars, phase, launch, holder, signal, summary, exit, runs>>

NewBlock(tip, now) ==
    LET height == tip.height + 1
        txs == <<CoinbaseTx(<<height>>, GetBlockSubsidy(height), Payout)>> \o Pooled(now)
    IN  [prev |-> tip.hash, root |-> ComputeMerkleRoot(txs), time |-> now,
         bits |-> Bits, nonce |-> 0, txs |-> txs]

CommitBlock(t) ==
    \E block \in {NewBlock(work[t].tip, now) : now \in Seconds(runs)} :
        LET height == work[t].tip.height + 1
            due    == height % SaveInterval = 0
        IN  /\ StoreBlock(BlockHash(block), block, height, due)
            /\ mined' = [mined EXCEPT ![runs] = @ \cup {[block |-> block, height |-> height]}]
            /\ missed' = (missed \/ (due /\ unsaved' = << >>))

\* MUTANT of Commit: the thread leaves its save behind.
CommitLeavesSave(t) ==
    /\ Goes(t) /\ In(t, "admitted")
    /\ CommitBlock(t)
    /\ work' = [work EXCEPT ![t] = [Off EXCEPT !.pc = "report"]]
    /\ UNCHANGED <<phase, launch, holder, signal, summary, exit, runs>>

Commit(t) ==
    /\ Goes(t) /\ In(t, "admitted")
    /\ CommitBlock(t)
    /\ work' = [work EXCEPT ![t] = [Off EXCEPT !.pc = IF unsaved' = << >> THEN "report"
                                                      ELSE "saving"]]
    /\ UNCHANGED <<phase, launch, holder, signal, summary, exit, runs>>

SaveItem(t) ==
    /\ Goes(t) /\ In(t, "saving")
    /\ WriteItem
    /\ missed' = (missed \/ gap')
    /\ work' = IF unsaved' = << >> THEN [work EXCEPT ![t].pc = "report"] ELSE work
    /\ UNCHANGED <<mined, phase, launch, holder, signal, summary, exit, runs>>

Report(t) ==
    /\ Goes(t) /\ In(t, "report")
    /\ holder = t /\ holder' = "nobody"
    /\ work' = [work EXCEPT ![t].pc = "loop"]
    /\ UNCHANGED <<storeVars, historyVars, phase, launch, signal, summary, exit, runs>>

-----------------------------------------------------------------------------
(* main, and the end of a process.                                         *)

MainLogged ==
    /\ Goes("main")
    /\ holder = "main" /\ holder' = "nobody"
    /\ phase' = NextPhase[phase]
    /\ exit' = IF phase = "failed" THEN "error" ELSE exit
    /\ signal' = IF phase' = "off" THEN "nobody" ELSE signal
    /\ UNCHANGED <<storeVars, historyVars, launch, work, summary, runs>>

\* The constructor of a thread throws.
SpawnFails ==
    /\ Goes("main")
    /\ phase = "starting" /\ ~AllStarted
    /\ phase' = "failing"
    /\ UNCHANGED <<storeVars, historyVars, launch, work, holder, signal, summary, exit, runs>>

\* The destructor of the miner has joined the threads.
Unwind ==
    /\ Goes("main")
    /\ phase = "failing"
    /\ work = Everyone(Off)
    /\ phase' = "failed"
    /\ UNCHANGED <<storeVars, historyVars, launch, work, holder, signal, summary, exit, runs>>

Poll ==
    /\ Goes("main")
    /\ phase = "up" /\ signal = "stored"
    /\ phase' = "closing"
    /\ UNCHANGED <<storeVars, historyVars, launch, work, holder, signal, summary, exit, runs>>

\* MUTANT of Summarize: nobody joins the threads.
SummarizeAtOnce ==
    /\ Goes("main")
    /\ phase = "stopping"
    /\ phase' = "leaving"
    /\ \/ summary' = Tip.height /\ exit' = "clean"
       \/ UNCHANGED summary /\ exit' = "unreported"
    /\ UNCHANGED <<storeVars, historyVars, launch, work, holder, signal, runs>>

\* miner->stop has joined the threads, and with them a save; nothing else is
\* saved.  The summary file may refuse to open.
Summarize ==
    /\ Goes("main")
    /\ phase = "stopping"
    /\ work = Everyone(Off)
    /\ phase' = "leaving"
    /\ \/ summary' = Tip.height /\ exit' = "clean"
       \/ UNCHANGED summary /\ exit' = "unreported"
    /\ UNCHANGED <<storeVars, historyVars, launch, work, holder, signal, runs>>

Crash ==
    /\ phase # "off"
    /\ phase' = "off"
    /\ exit' = "crash"
    /\ work' = Everyone(Off)
    /\ holder' = "nobody" /\ signal' = "nobody"
    /\ NewStore
    /\ UNCHANGED <<historyVars, launch, summary, runs>>

ThreadStep(t) == LoadFlag(t) \/ Admit(t) \/ Commit(t) \/ SaveItem(t) \/ Report(t)
MainStep == MainLogged \/ SpawnFails \/ Unwind \/ Poll \/ Summarize

DaemonNext ==
    \/ \E l \in LaunchSet(runs + 1) : Launch(l)
    \/ \E t \in Thread : ThreadStep(t)
    \/ MainStep
    \/ \E u \in Actor : TakeLogger(u) \/ Signal(u)
    \/ Handle
    \/ Crash

DaemonSpec == DaemonInit /\ [][DaemonNext]_daemonVars

\* A thread waits for a save of another one and for the logger, which everyone
\* gets who asks for it, and main for the threads; nobody has to start the
\* daemon, to signal it or to crash it.
FairDaemonSpec ==
    /\ DaemonSpec
    /\ \A t \in Thread : WF_daemonVars(ThreadStep(t))
    /\ WF_daemonVars(MainStep)
    /\ \A u \in Actor : SF_daemonVars(TakeLogger(u))
    /\ SF_daemonVars(Handle)

-----------------------------------------------------------------------------
(* Properties                                                              *)

Places == {"off", "loop", "search", "admitted", "saving", "report"}
Phases == {"off", "starting", "up", "closing", "stopping", "leaving", "failing", "failed"}

\* A save belongs to one thread; threads run in a process only, and none is left
\* when main has joined them.
StorageTypeOK ==
    /\ phase \in Phases
    /\ exit \in {"none", "error", "crash", "clean", "unreported"}
    /\ best.height \in 0..MaxHeight
    /\ summary \in 0..MaxHeight
    /\ holder \in Actor \cup {"nobody"}
    /\ signal \in Actor \cup {"nobody", "stored"}
    /\ \A t \in Thread : work[t].pc \in Places
    /\ \A t \in Thread : phase \in {"off", "leaving", "failed"} => In(t, "off")
    /\ \A t \in Thread : In(t, "saving") => Saving
    /\ Saving => \E t \in Thread : In(t, "saving") /\ \A u \in Thread \ {t} : ~In(u, "saving")

WithinLimit(block) ==
    \A i \in DOMAIN block.txs :
        /\ \A j \in DOMAIN block.txs[i].inputs :
              /\ Len(block.txs[i].inputs[j].sig) <= MAX_SCRIPT
              /\ Len(block.txs[i].inputs[j].pubkey) <= MAX_SCRIPT
        /\ \A j \in DOMAIN block.txs[i].outputs :
              Len(block.txs[i].outputs[j].script) <= MAX_SCRIPT

\* putBlock takes any block; getBlock gives it back exactly when none of its
\* scripts is longer than a reader accepts, and what is stored of it is not
\* readable when it is cut after the header, half way or before the last cell.
ReadBack ==
    [][\A hash \in DOMAIN blocks' \ DOMAIN blocks : \E m \in mined'[runs] :
          LET data == blocks'[hash]
              got  == DeserializeBlock(data)
          IN  /\ BlockHash(m.block) = hash
              /\ got.ok <=> WithinLimit(m.block)
              /\ got.ok => got.val = m.block
              /\ \A n \in {HEADER_CELLS, Len(data) \div 2, Len(data) - 1} :
                    ~DeserializeBlock(SubSeq(data, 1, n)).ok
      ]_daemonVars

Snap == INSTANCE Snapshot WITH
    Empty  <- Contents(NoBlocks, NoBest),
    held   <- Contents(blocks, best),
    found  <- IF Reader(file).ok THEN {Contents(Reader(file).blocks, Reader(file).best)}
              ELSE {},
    saving <- Saving

\* blockchain.dat is written item by item and a process may die between any
\* two: a reader finds either nothing or all that the store held when
\* saveToDisk was called.
ImplementsSnapshot == Snap!SnapshotSpec

\* A whole file holds one process' chain: its best block is at a height where
\* saves are due, and is there with all its ancestors, although commits of
\* other threads may have set the tip back, and older files were overwritten.
FileIsOneRun ==
    Reader(file).ok =>
        \E r \in 1..runs :
            LET data == Contents(Reader(file).blocks, 0).data
                saved == {m \in mined[r] : SerializeBlock(m.block) \in data}
                At(hash, height) == \E m \in saved :
                             BlockHash(m.block) = hash /\ m.height = height
            IN  /\ Cardinality(saved) = file[3]
                /\ At(file[4], file[5])
                /\ file[5] % SaveInterval = 0
                /\ \A m \in saved :
                      m.height = 1 \/ At(m.block.prev, m.height - 1)

\* A clean exit does not save, yet it waits for a save: the file of a process
\* that reached a due height and missed no save is whole, and its own.  (The
\* blocks above that height are in the summary alone.)
ShutdownKeepsSave ==
    LET due == {m \in mined[runs] : m.height % SaveInterval = 0}
    IN  (exit = "clean" /\ ~missed /\ due # {}) =>
            /\ Reader(file).ok
            /\ \E m \in due : BlockHash(m.block) = file[4]

\* main.cpp:26: "Signal handler for graceful shutdown".  A signal ends the
\* process, whatever its threads are doing.
ShutdownCompletes == signal \in Actor ~> phase = "off"

=============================================================================
