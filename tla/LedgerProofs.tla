---------------------------- MODULE LedgerProofs ----------------------------
(***************************************************************************)
(* The coins, as long as one thread at a time is inside addBlock: what     *)
(* connectBlockUTXO has done so far, at each of its steps, and from it     *)
(* that the chain implements Ledger and that only a block which spends a   *)
(* coin twice can lose coins.                                              *)
(*                                                                         *)
(* OnlyConflictsLose speaks of the states between calls.  LedgerInv says   *)
(* what the UTXO set is in each loop of a call: all inputs checked so far  *)
(* are there (Checking); every input is either still there or spent by     *)
(* this call, and nothing else has gone (Spending); the outputs added so   *)
(* far are the block's and the rest is what it leaves (Putting).           *)
(***************************************************************************)
EXTENDS BlockchainProofs

USE DEF At

-----------------------------------------------------------------------------
(* The inductive invariant.                                                *)

\* Every coin of one map is the same coin of the other.
Within(map, coins) == \A op \in DOMAIN map : op \in DOMAIN coins /\ map[op] = coins[op]

MayBeLost(op) == \E b \in Block : SpendsTwice(b) /\ op \in SpentBy(b)

\* Between calls, and in a call until it has checked every input.
Settled ==
    /\ Within(utxo, ledger)
    /\ \A op \in DOMAIN ledger \ DOMAIN utxo : MayBeLost(op)

\* The inputs that a loop of thread t has dealt with, and the outputs.
InputsDone(t) ==
    {SpentAt(frame[t].block, p) : p \in InputPositions(frame[t].block) \ frame[t].todo}

OutputsDone(t) ==
    {CreatedAt(frame[t].block, p) : p \in OutputPositions(frame[t].block) \ frame[t].todo}

Checking(t) == InputsDone(t) \subseteq DOMAIN utxo

Spending(t) ==
    /\ frame[t].todo \subseteq InputPositions(frame[t].block)
    /\ Within(utxo, ledger)
    /\ SpentBy(frame[t].block) \subseteq DOMAIN ledger
    /\ SpentBy(frame[t].block) \subseteq DOMAIN utxo \cup InputsDone(t)
    /\ InputsDone(t) \cap DOMAIN utxo = {}
    /\ \A op \in DOMAIN ledger \ DOMAIN utxo : op \in InputsDone(t) \/ MayBeLost(op)

Putting(t) ==
    LET block == frame[t].block
    IN  /\ frame[t].todo \subseteq OutputPositions(block)
        /\ SpentBy(block) \subseteq DOMAIN ledger
        /\ OutputsDone(t) \subseteq DOMAIN utxo
        /\ \A op \in OutputsDone(t) : utxo[op] = OutputOf(block, op)
        /\ \A op \in DOMAIN utxo \ OutputsDone(t) :
              op \in DOMAIN ledger \ SpentBy(block) /\ utxo[op] = ledger[op]
        /\ \A op \in DOMAIN ledger \ (DOMAIN utxo \cup SpentBy(block)) : MayBeLost(op)

CoinPhases ==
    /\ (\A t \in Thread : frame[t].pc \notin {"has", "spend", "put"}) => Settled
    /\ \A t \in Thread : At(t, "inputs") => Checking(t)
    /\ \A t \in Thread : frame[t].pc \in {"has", "spend"} => Spending(t)
    /\ \A t \in Thread : At(t, "put") => Putting(t)

LedgerInv == SerialInv /\ CoinPhases

-----------------------------------------------------------------------------
(* Its proof.                                                              *)

\* At first the coins are those of genesis.
LEMMA InitPhases == Init => CoinPhases
<1> SUFFICES ASSUME Init PROVE CoinPhases
  OBVIOUS
<1>1. \A t \in Thread : frame[t].pc = "idle"
  BY DEF Init, IdleFrame
<1>2. utxo = ledger
  BY DEF Init
<1>3. Settled
  BY <1>2 DEF Settled, Within
<1> QED
  BY <1>1, <1>3 DEF CoinPhases

\* The only thread is in one phase at a time.
LEMMA OnePhase ==
    ASSUME OneThread, NEW t \in Thread,
           frame'[t].pc \notin {"has", "spend", "put"} => Settled',
           frame'[t].pc = "inputs" => Checking(t)',
           frame'[t].pc \in {"has", "spend"} => Spending(t)',
           frame'[t].pc = "put" => Putting(t)'
    PROVE  CoinPhases'
<1>1. \A u \in Thread : u = t
  BY DEF OneThread
<1>2. (\A u \in Thread : frame'[u].pc \notin {"has", "spend", "put"}) => Settled'
  OBVIOUS
<1>3. ASSUME NEW u \in Thread
      PROVE  /\ frame'[u].pc = "inputs" => Checking(u)'
             /\ frame'[u].pc \in {"has", "spend"} => Spending(u)'
             /\ frame'[u].pc = "put" => Putting(u)'
  BY <1>1
<1> QED
  BY <1>2, <1>3 DEF CoinPhases

\* A step outside the loops leaves settled coins settled.
LEMMA QuietPhases ==
    ASSUME OneThread, CoinPhases, NEW t \in Thread,
           frame[t].pc \notin {"has", "spend", "put"},
           frame'[t].pc \notin {"inputs", "has", "spend", "put"},
           UNCHANGED <<utxo, ledger>>
    PROVE  CoinPhases'
<1>1. Settled
  BY DEF CoinPhases, OneThread
<1>2. Settled'
  BY <1>1 DEF Settled, Within
<1> QED
  BY <1>2, OnePhase

\* connectBlock's first pass over the inputs changes no coin.
LEMMA CheckInputPhases ==
    ASSUME OneThread, TypeOK, CoinPhases, NEW t \in Thread, CheckInput(t)
    PROVE  CoinPhases'
<1> DEFINE b == frame[t].block
           todo == frame[t].todo
<1>0. frame \in [Thread -> Frame] /\ UNCHANGED <<utxo, ledger>>
  BY DEF TypeOK, CheckInput, historyVars
<1>1. Settled /\ Checking(t)
  BY DEF CoinPhases, OneThread, CheckInput
<1>2. Settled'
  BY <1>0, <1>1 DEF Settled, Within
<1>3. CASE todo = {} /\ GotoWith(t, "has", InputPositions(b))
  <2>1. /\ frame'[t].pc = "has" /\ frame'[t].block = b
        /\ frame'[t].todo = InputPositions(b)
    BY <1>0, <1>3 DEF GotoWith, Frame
  <2>2. InputsDone(t)' = {}
    BY <2>1 DEF InputsDone
  <2>3. SpentBy(b) \subseteq DOMAIN utxo
    BY <1>1, <1>3 DEF Checking, InputsDone, SpentBy
  <2>4. Spending(t)'
    BY <1>0, <1>1, <2>1, <2>2, <2>3 DEF Spending, Settled, Within
  <2> QED
    BY <1>2, <2>1, <2>4, OnePhase
<1>4. ASSUME NEW p \in todo, SpentAt(b, p) \in DOMAIN utxo,
             GotoWith(t, "inputs", todo \ {p})
      PROVE  CoinPhases'
  <2>1. /\ frame'[t].pc = "inputs" /\ frame'[t].block = b
        /\ frame'[t].todo = todo \ {p}
    BY <1>0, <1>4 DEF GotoWith, Frame
  <2>2. InputsDone(t)' \subseteq InputsDone(t) \cup {SpentAt(b, p)}
    BY <2>1 DEF InputsDone
  <2>3. Checking(t)'
    BY <1>0, <1>1, <1>4, <2>2 DEF Checking
  <2> QED
    BY <1>2, <2>1, <2>3, OnePhase
<1>5. CASE Return(t, FALSE)
  BY <1>0, <1>5, QuietPhases DEF Return, IdleFrame, CheckInput
<1> QED
  BY <1>3, <1>4, <1>5 DEF CheckInput

\* An input that has gone since it was checked was spent by this very block,
\* and whatever the block has spent before it is lost.
LEMMA HasInputPhases ==
    ASSUME OneThread, TypeOK, Admitted, CoinPhases, NEW t \in Thread, HasInput(t)
    PROVE  CoinPhases'
<1> DEFINE b == frame[t].block
           todo == frame[t].todo
<1>0. frame \in [Thread -> Frame] /\ UNCHANGED <<utxo, ledger>>
  BY DEF TypeOK, HasInput, historyVars
<1>1. Spending(t)
  BY DEF CoinPhases, HasInput
<1>2. b \in Block
  BY <1>0 DEF Admitted, HasInput, Frame, Blocks
<1>3. CASE todo = {} /\ GotoWith(t, "put", OutputPositions(b))
  <2>1. /\ frame'[t].pc = "put" /\ frame'[t].block = b
        /\ frame'[t].todo = OutputPositions(b)
    BY <1>0, <1>3 DEF GotoWith, Frame
  <2>2. OutputsDone(t)' = {}
    BY <2>1 DEF OutputsDone
  <2>3. InputsDone(t) = SpentBy(b)
    BY <1>3 DEF InputsDone, SpentBy
  <2>4. Putting(t)'
    BY <1>0, <1>1, <2>1, <2>2, <2>3 DEF Spending, Putting, Within
  <2> QED
    BY <2>1, <2>4, OnePhase
<1>4. CASE Goto(t, "spend")
  <2>1. /\ frame'[t].pc = "spend" /\ frame'[t].block = b
        /\ frame'[t].todo = todo
    BY <1>0, <1>4 DEF Goto, Frame
  <2>2. InputsDone(t)' = InputsDone(t)
    BY <2>1 DEF InputsDone
  <2>3. Spending(t)'
    BY <1>0, <1>1, <2>1, <2>2 DEF Spending, Within
  <2> QED
    BY <2>1, <2>3, OnePhase
<1>5. ASSUME NEW p \in todo, SpentAt(b, p) \notin DOMAIN utxo, Return(t, FALSE)
      PROVE  CoinPhases'
  <2>1. frame'[t].pc = "idle"
    BY <1>0, <1>5 DEF Return, IdleFrame
  <2>2. p \in InputPositions(b) /\ SpentAt(b, p) \in InputsDone(t)
    BY <1>1, <1>5 DEF Spending, SpentBy
  <2>3. PICK q \in InputPositions(b) \ todo : SpentAt(b, q) = SpentAt(b, p)
    BY <2>2 DEF InputsDone
  <2>4. SpendsTwice(b)
    BY <1>5, <2>2, <2>3 DEF SpendsTwice
  <2>5. InputsDone(t) \subseteq SpentBy(b)
    BY DEF InputsDone, SpentBy
  <2>6. \A op \in DOMAIN ledger \ DOMAIN utxo : MayBeLost(op)
    BY <1>1, <1>2, <2>4, <2>5 DEF Spending, MayBeLost
  <2>7. Settled'
    BY <1>0, <1>1, <2>6 DEF Spending, Settled, Within
  <2> QED
    BY <2>1, <2>7, OnePhase
<1> QED
  BY <1>3, <1>4, <1>5 DEF HasInput

\* Spending an input takes that coin and no other.
LEMMA SpendInputPhases ==
    ASSUME OneThread, TypeOK, CoinPhases, NEW t \in Thread, SpendInput(t)
    PROVE  CoinPhases'
<1> DEFINE b == frame[t].block
           todo == frame[t].todo
<1>0. frame \in [Thread -> Frame] /\ UNCHANGED ledger
  BY DEF TypeOK, SpendInput, historyVars
<1>1. Spending(t)
  BY DEF CoinPhases, SpendInput
<1>2. PICK p \in todo :
        /\ utxo' = Erase(utxo, SpentAt(b, p))
        /\ GotoWith(t, "has", todo \ {p})
  BY DEF SpendInput
<1>3. /\ frame'[t].pc = "has" /\ frame'[t].block = b
      /\ frame'[t].todo = todo \ {p}
  BY <1>0, <1>2 DEF GotoWith, Frame
<1>4. /\ DOMAIN utxo' = DOMAIN utxo \ {SpentAt(b, p)}
      /\ \A op \in DOMAIN utxo' : utxo'[op] = utxo[op]
  BY <1>2 DEF Erase
<1>5. InputsDone(t)' = InputsDone(t) \cup {SpentAt(b, p)}
  BY <1>1, <1>3 DEF InputsDone, Spending
<1>6. Spending(t)'
  BY <1>0, <1>1, <1>3, <1>4, <1>5 DEF Spending, Within
<1> QED
  BY <1>3, <1>6, OnePhase

\* Adding an output adds the block's, over whatever was there.
LEMMA PutOutputPhases ==
    ASSUME OneThread, TypeOK, CoinPhases, NEW t \in Thread, PutOutput(t)
    PROVE  CoinPhases'
<1> DEFINE b == frame[t].block
           todo == frame[t].todo
<1>0. frame \in [Thread -> Frame] /\ b \in Blocks /\ UNCHANGED ledger
  BY DEF TypeOK, Frame, PutOutput, historyVars
<1>1. Putting(t)
  BY DEF CoinPhases, PutOutput
<1>2. PICK p \in todo :
        /\ utxo' = Assign(utxo, CreatedAt(b, p), OutputAt(b, p))
        /\ GotoWith(t, "put", todo \ {p})
  BY DEF PutOutput
<1> DEFINE new == CreatedAt(b, p)
<1>3. /\ frame'[t].pc = "put" /\ frame'[t].block = b
      /\ frame'[t].todo = todo \ {p}
  BY <1>0, <1>2 DEF GotoWith, Frame
<1>4. p \in OutputPositions(b) /\ OutputAt(b, p) = OutputOf(b, new)
  BY <1>0, <1>1, OutputOfCreated DEF Putting
<1>5. OutputsDone(t)' = OutputsDone(t) \cup {new}
  BY <1>3, <1>4 DEF OutputsDone
<1>6. /\ DOMAIN utxo' = DOMAIN utxo \cup {new}
      /\ utxo'[new] = OutputOf(b, new)
      /\ \A op \in DOMAIN utxo : op # new => utxo'[op] = utxo[op]
  BY <1>2, <1>4 DEF Assign
<1> HIDE DEF new, b, todo
<1>7. Putting(t)'
  BY <1>0, <1>1, <1>3, <1>5, <1>6 DEF Putting, b, todo
<1> QED
  BY <1>3, <1>7, OnePhase

\* A commit leaves in the UTXO set what the ledger gains and loses by its block.
LEMMA CommitPhases ==
    ASSUME OneThread, TypeOK, CoinPhases, NEW t \in Thread, Commit(t)
    PROVE  CoinPhases'
<1> DEFINE b == frame[t].block
<1>0. frame \in [Thread -> Frame] /\ utxo' = utxo /\ ledger' = ApplyBlock(b, ledger)
  BY DEF TypeOK, Commit
<1>1. Putting(t) /\ OutputsDone(t) = CreatedBy(b)
  BY DEF CoinPhases, Commit, OutputsDone, CreatedBy
<1>2. frame'[t].pc = "idle"
  BY <1>0 DEF Commit, Return, IdleFrame
<1> HIDE DEF b
<1>3. /\ DOMAIN ledger' = (DOMAIN ledger \ SpentBy(b)) \cup CreatedBy(b)
      /\ \A op \in CreatedBy(b) : ledger'[op] = OutputOf(b, op)
      /\ \A op \in DOMAIN ledger \ SpentBy(b) : op \notin CreatedBy(b) => ledger'[op] = ledger[op]
  BY <1>0 DEF ApplyBlock
<1>4. Within(utxo, ledger)'
  BY <1>0, <1>1, <1>3 DEF Within, Putting, b
<1>5. \A op \in DOMAIN ledger' \ DOMAIN utxo' : MayBeLost(op)
  BY <1>0, <1>1, <1>3 DEF Putting, b
<1>6. Settled'
  BY <1>4, <1>5 DEF Settled
<1> QED
  BY <1>2, <1>6, OnePhase

\* Every step of the only thread keeps the phases.
LEMMA StepPhases == OneThread /\ SerialInv /\ CoinPhases /\ [Next]_vars => CoinPhases'
<1> SUFFICES ASSUME OneThread, SerialInv, CoinPhases, [Next]_vars PROVE CoinPhases'
  OBVIOUS
<1>0. TypeOK /\ Admitted /\ frame \in [Thread -> Frame]
  BY DEF SerialInv, DepthInv, TypeOK
<1>1. ASSUME NEW t \in Thread, NEW pc, NEW r,
             frame[t].pc \notin {"has", "spend", "put"},
             pc \notin {"inputs", "has", "spend", "put"},
             Goto(t, pc) \/ Return(t, r), UNCHANGED <<utxo, ledger>>
      PROVE  CoinPhases'
  <2>1. CASE Goto(t, pc)
    BY <1>0, <1>1, <2>1, QuietPhases DEF Goto, Frame
  <2>2. CASE Return(t, r)
    BY <1>0, <1>1, <2>2, QuietPhases DEF Return, IdleFrame
  <2> QED
    BY <1>1, <2>1, <2>2
<1>2. ASSUME NEW t \in Thread, NEW b \in Block, NEW n \in Height, AddBlock(t, b, n)
      PROVE  CoinPhases'
  <2>1. CASE frame' = [frame EXCEPT ![t].pc = "structure", ![t].block = b, ![t].at = n]
    BY <1>0, <1>2, <2>1, QuietPhases DEF AddBlock, historyVars, Frame
  <2> QED
    BY <1>1, <1>2, <2>1 DEF AddBlock, historyVars
<1>3. ASSUME NEW t \in Thread, ValidateStructure(t) PROVE CoinPhases'
  BY <1>1, <1>3 DEF ValidateStructure, historyVars
<1>4. ASSUME NEW t \in Thread, ReadHeight(t) PROVE CoinPhases'
  <2>1. CASE frame' = [frame EXCEPT ![t].pc = "prev", ![t].tip = height]
    BY <1>0, <1>4, <2>1, QuietPhases DEF ReadHeight, historyVars, Frame
  <2> QED
    BY <1>1, <1>4, <2>1 DEF ReadHeight, historyVars
<1>5. ASSUME NEW t \in Thread, ReadPrevBlock(t) PROVE CoinPhases'
  <2>1. CASE frame' = [frame EXCEPT ![t].pc = "first", ![t].prev = BlockAt(frame[t].tip)]
    BY <1>0, <1>5, <2>1, QuietPhases DEF ReadPrevBlock, historyVars, Frame
  <2> QED
    BY <1>1, <1>5, <2>1 DEF ReadPrevBlock, historyVars
<1>6. ASSUME NEW t \in Thread, ReadFirstBlock(t) PROVE CoinPhases'
  BY <1>1, <1>6 DEF ReadFirstBlock, historyVars
<1>7. ASSUME NEW t \in Thread, ValidateTransactions(t) PROVE CoinPhases'
  <2>0. frame[t].pc = "txs" /\ UNCHANGED <<utxo, ledger>>
    BY <1>7 DEF ValidateTransactions, historyVars
  <2>1. CASE GotoWith(t, "inputs", InputPositions(frame[t].block))
    <3>1. /\ frame'[t].pc = "inputs" /\ frame'[t].block = frame[t].block
          /\ frame'[t].todo = InputPositions(frame[t].block)
      BY <1>0, <2>1 DEF GotoWith, Frame
    <3>2. InputsDone(t)' = {}
      BY <3>1 DEF InputsDone
    <3>3. Checking(t)'
      BY <3>2 DEF Checking
    <3>4. Settled
      BY <2>0 DEF CoinPhases, OneThread
    <3>5. Settled'
      BY <2>0, <3>4 DEF Settled, Within
    <3> QED
      BY <3>1, <3>3, <3>5, OnePhase
  <2> QED
    BY <1>1, <1>7, <2>0, <2>1 DEF ValidateTransactions
<1>8. ASSUME NEW t \in Thread, CheckInput(t) PROVE CoinPhases'
  BY <1>0, <1>8, CheckInputPhases
<1>9. ASSUME NEW t \in Thread, HasInput(t) PROVE CoinPhases'
  BY <1>0, <1>9, HasInputPhases
<1>10. ASSUME NEW t \in Thread, SpendInput(t) PROVE CoinPhases'
  BY <1>0, <1>10, SpendInputPhases
<1>11. ASSUME NEW t \in Thread, PutOutput(t) PROVE CoinPhases'
  BY <1>0, <1>11, PutOutputPhases
<1>12. ASSUME NEW t \in Thread, Commit(t) PROVE CoinPhases'
  BY <1>0, <1>12, CommitPhases
<1>13. CASE UNCHANGED vars
  BY <1>13 DEF vars, historyVars, CoinPhases, Settled, Within, Checking, Spending, Putting,
     InputsDone, OutputsDone
<1> QED
  BY <1>2, <1>3, <1>4, <1>5, <1>6, <1>7, <1>8, <1>9, <1>10, <1>11, <1>12, <1>13
     DEF Next, Step

\* The invariant of a chain that one thread uses.
LEMMA SerialLedger == ASSUME OneThread PROVE Spec => []LedgerInv
<1>1. Init => LedgerInv
  BY InitSerial, InitPhases DEF LedgerInv
<1>2. LedgerInv /\ [Next]_vars => LedgerInv'
  BY StepSerial, StepPhases DEF LedgerInv
<1> QED
  BY <1>1, <1>2, PTL DEF Spec

\* OnlyConflictsLose: used by one thread at a time, the UTXO set between two
\* calls holds no spent coin, and the coins it lacks are those of a block that
\* spends one of them twice.
THEOREM OnlyConflictsLoseCoins == ASSUME OneThread PROVE Spec => []OnlyConflictsLose
<1>1. LedgerInv => OnlyConflictsLose
  BY DEF LedgerInv, CoinPhases, OnlyConflictsLose, Settled, Within, MayBeLost
<1> QED
  BY <1>1, SerialLedger, PTL

-----------------------------------------------------------------------------
(* The refinement.                                                         *)

\* The blocks of the index, from genesis to the tip: TheLedger's chain.
ChainTo(n) == [i \in 1..(n + 1) |-> BlockAt(i - 1)]

\* At first both chains are genesis.
LEMMA InitRefines == Init => TheLedger!Init
<1> SUFFICES ASSUME Init PROVE TheLedger!Init
  OBVIOUS
<1>1. height = 0 /\ BlockAt(0) = Genesis
  BY DEF Init, Assign, BlockAt
<1>2. [i \in 1..(height + 1) |-> BlockAt(i - 1)] = <<Genesis>>
  BY <1>1
<1> QED
  BY <1>2 DEF Init, TheLedger!Init

\* A step that is no commit is a stutter of the ledger.
LEMMA QuietRefines ==
    ASSUME UNCHANGED <<chainVars, ledger>>
    PROVE  UNCHANGED <<ChainTo(height), ledger>>
BY DEF chainVars, ChainTo, BlockAt

\* A commit appends its block.
LEMMA CommitRefines ==
    ASSUME OneThread, LedgerInv, NEW t \in Thread, Commit(t)
    PROVE  TheLedger!Extend(frame[t].block)
<1> DEFINE b == frame[t].block
           hash == BlockHash(b)
<1>1. /\ TypeOK /\ height \in Nat /\ IndexComplete
      /\ DOMAIN heightIndex = 0..height
      /\ frame[t].at = height + 1
      /\ b.prev = bestBlockHash /\ hash \notin DOMAIN blockCache
  BY DEF LedgerInv, SerialInv, DepthInv, TypeOK, TipWaits, Commit
<1>2. Putting(t)
  BY DEF LedgerInv, CoinPhases, Commit
<1>3. /\ blockCache' = Assign(blockCache, hash, b)
      /\ heightIndex' = Assign(heightIndex, height + 1, hash)
      /\ height' = height + 1
      /\ ledger' = ApplyBlock(b, ledger)
  BY <1>1 DEF Commit
<1>4. SpentBy(b) \subseteq DOMAIN ledger
  BY <1>2 DEF Putting
<1> HIDE DEF b, hash
<1>5. \A n \in 0..height : /\ heightIndex[n] \in DOMAIN blockCache
                           /\ BlockHash(BlockAt(n)) = heightIndex[n]
                           /\ BlockAt(n)' = BlockAt(n)
  <2> SUFFICES ASSUME NEW n \in 0..height
               PROVE  /\ heightIndex[n] \in DOMAIN blockCache
                      /\ BlockHash(BlockAt(n)) = heightIndex[n]
                      /\ BlockAt(n)' = BlockAt(n)
    OBVIOUS
  <2>1. heightIndex[n] \in DOMAIN blockCache
    BY <1>1 DEF IndexComplete, HasBlockAt
  <2>2. BlockHash(BlockAt(n)) = heightIndex[n]
    BY <1>1, <2>1 DEF TypeOK, BlockMap, BlockAt
  <2>3. heightIndex'[n] = heightIndex[n]
    BY <1>1, <1>3 DEF Assign
  <2>4. blockCache'[heightIndex[n]] = blockCache[heightIndex[n]]
    BY <1>1, <1>3, <2>1 DEF Assign
  <2> QED
    BY <2>1, <2>2, <2>3, <2>4 DEF BlockAt
<1>6. blockCache'[heightIndex'[height + 1]] = b
  BY <1>3 DEF Assign
<1> DEFINE chain == ChainTo(height)
<1>7. Len(chain) = height + 1 /\ DOMAIN chain = 1..(height + 1)
  BY <1>1 DEF ChainTo
<1>8. b.prev = BlockHash(chain[Len(chain)])
  BY <1>1, <1>5, <1>7 DEF ChainTo, IndexComplete
<1>9. \A i \in DOMAIN chain : BlockHash(chain[i]) # hash
  BY <1>1, <1>5, <1>7 DEF ChainTo
<1>10. ChainTo(height)' = Append(chain, b)
  <2>1. ChainTo(height)' = [i \in 1..(height + 2) |-> blockCache'[heightIndex'[i - 1]]]
    BY <1>1, <1>3 DEF ChainTo, BlockAt
  <2>2. Append(chain, b) = [i \in 1..(height + 2) |-> IF i = height + 2 THEN b ELSE chain[i]]
    BY <1>1, <1>7 DEF ChainTo
  <2>3. \A i \in 1..(height + 2) :
           blockCache'[heightIndex'[i - 1]] = IF i = height + 2 THEN b ELSE chain[i]
    <3> SUFFICES ASSUME NEW i \in 1..(height + 2)
                 PROVE  blockCache'[heightIndex'[i - 1]] = IF i = height + 2 THEN b ELSE chain[i]
      OBVIOUS
    <3>1. CASE i = height + 2
      BY <1>1, <1>6, <3>1
    <3>2. CASE i # height + 2
      <4>1. i - 1 \in 0..height /\ i \in 1..(height + 1)
        BY <1>1, <3>2
      <4> QED
        BY <1>5, <3>2, <4>1 DEF ChainTo, BlockAt
    <3> QED
      BY <3>1, <3>2
  <2> QED
    BY <2>1, <2>2, <2>3
<1> QED
  BY <1>3, <1>4, <1>8, <1>9, <1>10 DEF TheLedger!Extend, ChainTo, hash, b

\* Every step of the only thread is a step of the ledger or leaves it alone.
LEMMA StepRefines ==
    OneThread /\ LedgerInv /\ [Next]_vars
        => TheLedger!Next \/ UNCHANGED <<ChainTo(height), ledger>>
<1> SUFFICES ASSUME OneThread, LedgerInv, [Next]_vars
             PROVE  TheLedger!Next \/ UNCHANGED <<ChainTo(height), ledger>>
  OBVIOUS
<1>1. TypeOK /\ Admitted
  BY DEF LedgerInv, SerialInv, DepthInv
<1>2. ASSUME NEW t \in Thread, NEW b \in Block, NEW n \in Height, AddBlock(t, b, n)
      PROVE  UNCHANGED <<chainVars, ledger>>
  BY <1>2 DEF AddBlock, historyVars
<1>3. ASSUME NEW t \in Thread, Step(t), ~Commit(t)
      PROVE  UNCHANGED <<chainVars, ledger>>
  BY <1>1, <1>3, InnerStep DEF KeepsCall, historyVars
<1>4. ASSUME NEW t \in Thread, Commit(t)
      PROVE  TheLedger!Next
  <2>1. TheLedger!Extend(frame[t].block)
    BY <1>4, CommitRefines
  <2>2. frame[t].block \in Block
    BY <1>1, <1>4 DEF Commit, Admitted, TypeOK, Frame, Blocks
  <2> QED
    BY <2>1, <2>2 DEF TheLedger!Next
<1>5. CASE UNCHANGED vars
  BY <1>5, QuietRefines DEF vars, historyVars
<1> QED
  BY <1>2, <1>3, <1>4, <1>5, QuietRefines DEF Next

\* ImplementsLedger: used by one thread at a time, the chain is a Ledger: its
\* blocks, from genesis to the tip, grow by one valid block at a time, which
\* spends only coins that the blocks before it have left unspent.
THEOREM ChainImplementsLedger == ASSUME OneThread PROVE Spec => ImplementsLedger
<1>1. LedgerInv /\ [Next]_vars => [TheLedger!Next]_<<ChainTo(height), ledger>>
  BY StepRefines
<1> QED
  BY <1>1, InitRefines, SerialLedger, PTL DEF Spec, ImplementsLedger, TheLedger!Spec, ChainTo

=============================================================================
