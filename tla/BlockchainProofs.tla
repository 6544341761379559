-------------------------- MODULE BlockchainProofs --------------------------
(***************************************************************************)
(* Theorems about Blockchain, for every set of threads and blocks and      *)
(* every value of the parameters.                                          *)
(*                                                                         *)
(* Outline: TypeOK is inductive.  HeightIsDepth is not: it is strengthened *)
(* by what a thread that has passed addBlock's first lock may rely on      *)
(* until its commit although the tip moves under it (Admitted), and by the *)
(* agreement of cache, index and history (Recorded).                       *)
(***************************************************************************)
EXTENDS Blockchain, TLAPS

USE DEF At

-----------------------------------------------------------------------------
(* Maps.                                                                   *)

\* A block stored under its own hash keeps a block map a block map.
LEMMA AssignBlock ==
    ASSUME NEW map, BlockMap(map), NEW b \in Blocks
    PROVE  BlockMap(Assign(map, BlockHash(b), b))
BY DEF BlockMap, Assign, Hashes

\* The empty map is one.
LEMMA EmptyBlockMap == BlockMap([h \in {} |-> h])
BY DEF BlockMap

\* A hash determines the parent.
LEMMA HashHasPrev ==
    ASSUME NEW a, NEW b, BlockHash(a) = BlockHash(b)
    PROVE  a.prev = b.prev
BY DEF BlockHash

-----------------------------------------------------------------------------
(* Type correctness.                                                       *)

\* A call that returns leaves an idle frame.
LEMMA IdleFrameType ==
    ASSUME NEW r \in BOOLEAN
    PROVE  IdleFrame(r) \in Frame
BY DEF Frame, IdleFrame, PCs, Blocks

\* The constructor and init establish the types.
LEMMA InitType == Init => TypeOK
<1> SUFFICES ASSUME Init PROVE TypeOK
  OBVIOUS
<1>1. BlockMap(blockCache)
  BY EmptyBlockMap, AssignBlock DEF Init, Blocks
<1>2. DOMAIN heightIndex \subseteq Nat /\ \A n \in DOMAIN heightIndex : heightIndex[n] \in Hashes
  BY DEF Init, Assign, Hashes, Blocks
<1>3. IsStore(store) /\ IsStore(disk)
  BY EmptyBlockMap DEF Init, EmptyStore, IsStore
<1>4. frame \in [Thread -> Frame]
  BY IdleFrameType DEF Init
<1>5. height \in Nat /\ bestBlockHash \in Hashes
  BY DEF Init, Hashes, Blocks
<1>6. accepted \subseteq Hashes \X Nat
  BY DEF Init, Hashes, Blocks
<1> QED
  BY <1>1, <1>2, <1>3, <1>4, <1>5, <1>6 DEF TypeOK

\* A step that changes one frame to a well-typed one, and no other typed
\* variable, keeps the types.
LEMMA FrameStepType ==
    ASSUME TypeOK, NEW t \in Thread, frame'[t] \in Frame,
           frame' = [frame EXCEPT ![t] = frame'[t]],
           UNCHANGED <<chainVars, storeVars, historyVars>>
    PROVE  TypeOK'
<1>1. frame' \in [Thread -> Frame]
  BY DEF TypeOK
<1> QED
  BY <1>1 DEF TypeOK, chainVars, storeVars, historyVars

\* The three ways a step changes a frame.
LEMMA FrameChange ==
    ASSUME TypeOK, NEW t \in Thread, NEW pc \in PCs, NEW todo \in SUBSET Positions,
           NEW r \in BOOLEAN, Goto(t, pc) \/ GotoWith(t, pc, todo) \/ Return(t, r)
    PROVE  frame'[t] \in Frame /\ frame' = [frame EXCEPT ![t] = frame'[t]]
<1>1. frame \in [Thread -> Frame]
  BY DEF TypeOK
<1>2. CASE Goto(t, pc)
  BY <1>1, <1>2 DEF Goto, Frame
<1>3. CASE GotoWith(t, pc, todo)
  BY <1>1, <1>3 DEF GotoWith, Frame
<1>4. CASE Return(t, r)
  BY <1>1, <1>4, IdleFrameType DEF Return
<1> QED
  BY <1>2, <1>3, <1>4

\* Positions of a known block are positions.
LEMMA BlockPositions ==
    ASSUME NEW b \in Blocks
    PROVE  InputPositions(b) \subseteq Positions /\ OutputPositions(b) \subseteq Positions
BY DEF Positions

\* A block read from the index is a known block.
LEMMA BlockAtType ==
    ASSUME TypeOK, NEW n, HasBlockAt(n)
    PROVE  BlockAt(n) \in Blocks
BY DEF TypeOK, HasBlockAt, BlockAt, BlockMap

\* Every step keeps the types.
LEMMA StepType == TypeOK /\ [Next]_vars => TypeOK'
<1> SUFFICES ASSUME TypeOK, [Next]_vars PROVE TypeOK'
  OBVIOUS
<1>0. frame \in [Thread -> Frame] /\ height \in Nat
  BY DEF TypeOK
<1>1. ASSUME NEW t \in Thread, NEW b \in Block, NEW n \in Height, AddBlock(t, b, n)
      PROVE  TypeOK'
  <2>1. CASE Return(t, TRUE) \/ Return(t, FALSE)
    BY <1>1, <2>1, FrameChange, FrameStepType DEF AddBlock, PCs
  <2>2. CASE frame' = [frame EXCEPT ![t].pc = "structure", ![t].block = b, ![t].at = n]
    <3>1. n \in Nat
      BY ChainConstants
    <3>2. frame'[t] \in Frame /\ frame' = [frame EXCEPT ![t] = frame'[t]]
      BY <1>0, <1>1, <2>2, <3>1 DEF Frame, PCs, Blocks
    <3> QED
      BY <1>1, <3>2, FrameStepType DEF AddBlock
  <2> QED
    BY <1>1, <2>1, <2>2 DEF AddBlock
<1>2. ASSUME NEW t \in Thread, ValidateStructure(t)
      PROVE  TypeOK'
  BY <1>2, FrameChange, FrameStepType DEF ValidateStructure, PCs
<1>3. ASSUME NEW t \in Thread, ReadHeight(t)
      PROVE  TypeOK'
  <2>1. CASE Goto(t, "txs")
    BY <1>3, <2>1, FrameChange, FrameStepType DEF ReadHeight, PCs
  <2>2. CASE frame' = [frame EXCEPT ![t].pc = "prev", ![t].tip = height]
    <3>1. frame'[t] \in Frame /\ frame' = [frame EXCEPT ![t] = frame'[t]]
      BY <1>0, <2>2 DEF Frame, PCs
    <3> QED
      BY <1>3, <3>1, FrameStepType DEF ReadHeight
  <2> QED
    BY <1>3, <2>1, <2>2 DEF ReadHeight
<1>4. ASSUME NEW t \in Thread, ReadPrevBlock(t)
      PROVE  TypeOK'
  <2> DEFINE tip == frame[t].tip
  <2>1. CASE Goto(t, "txs") \/ Return(t, FALSE)
    BY <1>4, <2>1, FrameChange, FrameStepType DEF ReadPrevBlock, PCs
  <2>2. CASE /\ HasBlockAt(tip)
             /\ frame' = [frame EXCEPT ![t].pc = "first", ![t].prev = BlockAt(tip)]
    <3>1. BlockAt(tip) \in Blocks
      BY <2>2, BlockAtType
    <3>2. frame'[t] \in Frame /\ frame' = [frame EXCEPT ![t] = frame'[t]]
      BY <1>0, <2>2, <3>1 DEF Frame, PCs
    <3> QED
      BY <1>4, <3>2, FrameStepType DEF ReadPrevBlock
  <2> QED
    BY <1>4, <2>1, <2>2 DEF ReadPrevBlock
<1>5. ASSUME NEW t \in Thread, ReadFirstBlock(t)
      PROVE  TypeOK'
  BY <1>5, FrameChange, FrameStepType DEF ReadFirstBlock, PCs
<1>6. ASSUME NEW t \in Thread, ValidateTransactions(t)
      PROVE  TypeOK'
  <2>1. InputPositions(frame[t].block) \in SUBSET Positions
    BY <1>0, BlockPositions DEF Frame
  <2> QED
    BY <1>6, <2>1, FrameChange, FrameStepType DEF ValidateTransactions, PCs
<1>7. ASSUME NEW t \in Thread, CheckInput(t)
      PROVE  TypeOK'
  <2>1. InputPositions(frame[t].block) \in SUBSET Positions
    BY <1>0, BlockPositions DEF Frame
  <2>2. \A p : frame[t].todo \ {p} \in SUBSET Positions
    BY <1>0 DEF Frame
  <2> QED
    BY <1>7, <2>1, <2>2, FrameChange, FrameStepType DEF CheckInput, PCs
<1>8. ASSUME NEW t \in Thread, HasInput(t)
      PROVE  TypeOK'
  <2>1. OutputPositions(frame[t].block) \in SUBSET Positions
    BY <1>0, BlockPositions DEF Frame
  <2> QED
    BY <1>8, <2>1, FrameChange, FrameStepType DEF HasInput, PCs
<1>9. ASSUME NEW t \in Thread, SpendInput(t)
      PROVE  TypeOK'
  <2>1. \A p : frame[t].todo \ {p} \in SUBSET Positions
    BY <1>0 DEF Frame
  <2> QED
    BY <1>9, <2>1, FrameChange, FrameStepType DEF SpendInput, PCs
<1>10. ASSUME NEW t \in Thread, PutOutput(t)
       PROVE  TypeOK'
  <2>1. \A p : frame[t].todo \ {p} \in SUBSET Positions
    BY <1>0 DEF Frame
  <2> QED
    BY <1>10, <2>1, FrameChange, FrameStepType DEF PutOutput, PCs
<1>11. ASSUME NEW t \in Thread, Commit(t)
       PROVE  TypeOK'
  <2> DEFINE b == frame[t].block
             n == frame[t].at
  <2>1. b \in Blocks /\ n \in Nat /\ BlockHash(b) \in Hashes
    BY <1>0 DEF Frame, Hashes
  <2>2. frame' \in [Thread -> Frame]
    BY <1>11, FrameChange DEF Commit, PCs, TypeOK
  <2>3. BlockMap(blockCache')
    BY <1>11, <2>1, AssignBlock DEF Commit, TypeOK
  <2>4. /\ DOMAIN heightIndex' \subseteq Nat
        /\ \A k \in DOMAIN heightIndex' : heightIndex'[k] \in Hashes
    BY <1>11, <2>1 DEF Commit, TypeOK, Assign
  <2>5. IsStore(store')
    BY <1>11, <2>1, AssignBlock DEF Commit, TypeOK, IsStore
  <2>6. IsStore(disk')
    BY <1>11, <2>5 DEF Commit, SaveToDisk, TypeOK
  <2>7. accepted' \subseteq Hashes \X Nat
    <3>1. <<BlockHash(b), n>> \in Hashes \X Nat
      BY <2>1
    <3>2. accepted' = accepted \cup {<<BlockHash(b), n>>}
      BY <1>11 DEF Commit
    <3> QED
      BY <3>1, <3>2 DEF TypeOK
  <2>8. height' \in Nat /\ bestBlockHash' \in Hashes
    BY <1>11, <2>1 DEF Commit
  <2> QED
    BY <2>2, <2>3, <2>4, <2>5, <2>6, <2>7, <2>8 DEF TypeOK
<1>12. CASE UNCHANGED vars
  BY <1>12 DEF TypeOK, vars, chainVars, storeVars, historyVars
<1> QED
  BY <1>1, <1>2, <1>3, <1>4, <1>5, <1>6, <1>7, <1>8, <1>9, <1>10, <1>11, <1>12
     DEF Next, Step

\* TypeOK: the variables keep the shape their C++ counterparts give them.
THEOREM TypeCorrect == Spec => []TypeOK
BY InitType, StepType, PTL DEF Spec


-----------------------------------------------------------------------------
(* Heights are depths, for any number of threads.                          *)

\* Thread t changes nothing but its own frame, stays in its call or leaves
\* it, and keeps the block and the height it was admitted with.
KeepsCall(t) ==
    /\ ~At(t, "idle")
    /\ \A u \in Thread \ {t} : frame'[u] = frame[u]
    /\ frame'[t].pc # "idle" =>
          frame'[t].block = frame[t].block /\ frame'[t].at = frame[t].at
    /\ UNCHANGED <<chainVars, storeVars, historyVars>>

\* Between admission and commit a call touches neither chain nor history.
LEMMA InnerStep ==
    ASSUME TypeOK, NEW t \in Thread, Step(t), ~Commit(t)
    PROVE  KeepsCall(t)
<1>0. frame \in [Thread -> Frame]
  BY DEF TypeOK
<1>1. ASSUME NEW pc, NEW todo, NEW r, Goto(t, pc) \/ GotoWith(t, pc, todo) \/ Return(t, r)
      PROVE  /\ \A u \in Thread \ {t} : frame'[u] = frame[u]
             /\ frame'[t].pc # "idle" =>
                   frame'[t].block = frame[t].block /\ frame'[t].at = frame[t].at
  <2>1. CASE Goto(t, pc)
    BY <1>0, <2>1 DEF Goto, Frame
  <2>2. CASE GotoWith(t, pc, todo)
    BY <1>0, <2>2 DEF GotoWith, Frame
  <2>3. CASE Return(t, r)
    BY <1>0, <2>3 DEF Return, IdleFrame
  <2> QED
    BY <1>1, <2>1, <2>2, <2>3
<1>2. CASE ValidateStructure(t)
  BY <1>1, <1>2 DEF ValidateStructure, KeepsCall
<1>3. CASE ReadHeight(t)
  <2>1. CASE frame' = [frame EXCEPT ![t].pc = "prev", ![t].tip = height]
    BY <1>0, <1>3, <2>1 DEF ReadHeight, KeepsCall, Frame
  <2> QED
    BY <1>1, <1>3, <2>1 DEF ReadHeight, KeepsCall
<1>4. CASE ReadPrevBlock(t)
  <2>1. CASE frame' = [frame EXCEPT ![t].pc = "first", ![t].prev = BlockAt(frame[t].tip)]
    BY <1>0, <1>4, <2>1 DEF ReadPrevBlock, KeepsCall, Frame
  <2> QED
    BY <1>1, <1>4, <2>1 DEF ReadPrevBlock, KeepsCall
<1>5. CASE ReadFirstBlock(t)
  BY <1>1, <1>5 DEF ReadFirstBlock, KeepsCall
<1>6. CASE ValidateTransactions(t)
  BY <1>1, <1>6 DEF ValidateTransactions, KeepsCall
<1>7. CASE CheckInput(t)
  BY <1>1, <1>7 DEF CheckInput, KeepsCall
<1>8. CASE HasInput(t)
  BY <1>1, <1>8 DEF HasInput, KeepsCall
<1>9. CASE SpendInput(t)
  BY <1>1, <1>9 DEF SpendInput, KeepsCall
<1>10. CASE PutOutput(t)
  BY <1>1, <1>10 DEF PutOutput, KeepsCall
<1> QED
  BY <1>2, <1>3, <1>4, <1>5, <1>6, <1>7, <1>8, <1>9, <1>10 DEF Step

\* A new chain: genesis alone, at height 0.
LEMMA InitDepth == Init => DepthInv
<1> SUFFICES ASSUME Init PROVE DepthInv
  OBVIOUS
<1>1. TypeOK
  BY InitType
<1>2. DOMAIN heightIndex = {0} /\ heightIndex[0] = BlockHash(Genesis)
  BY DEF Init, Assign
<1>3. DOMAIN blockCache = {BlockHash(Genesis)}
  BY DEF Init, Assign
<1>4. IndexComplete
  BY <1>2, <1>3 DEF Init, IndexComplete, HasBlockAt
<1>5. HeightIsDepth
  BY <1>2 DEF Init, HeightIsDepth
<1>6. Recorded
  BY <1>3 DEF Init, Recorded
<1>7. Admitted
  BY DEF Init, Admitted, IdleFrame
<1> QED
  BY <1>1, <1>4, <1>5, <1>6, <1>7 DEF DepthInv

\* Commit is where the stale check could do harm: what the admission knew of
\* the parent is enough to place the block, whatever the tip is by now.
LEMMA CommitDepth ==
    ASSUME DepthInv, TypeOK', NEW t \in Thread, Commit(t)
    PROVE  DepthInv'
<1> DEFINE b == frame[t].block
           n == frame[t].at
           hash == BlockHash(b)
<1> USE DEF DepthInv
<1>1. frame \in [Thread -> Frame] /\ b \in Blocks /\ n \in Nat
  BY DEF TypeOK, Frame
<1>2. /\ n > 0
      /\ hash # BlockHash(Genesis)
      /\ <<b.prev, n - 1>> \in accepted
      /\ n - 1 \in DOMAIN heightIndex
  BY DEF Commit, Admitted
<1>3. /\ DOMAIN blockCache' = DOMAIN blockCache \cup {hash}
      /\ blockCache'[hash] = b
      /\ \A h \in DOMAIN blockCache : h # hash => blockCache'[h] = blockCache[h]
  <2>1. blockCache' = Assign(blockCache, hash, b)
    BY DEF Commit
  <2> HIDE DEF hash, b, DepthInv
  <2> QED
    BY <2>1 DEF Assign
<1>4. /\ DOMAIN heightIndex' = DOMAIN heightIndex \cup {n}
      /\ heightIndex'[n] = hash
      /\ \A k \in DOMAIN heightIndex : k # n => heightIndex'[k] = heightIndex[k]
  <2>1. heightIndex' = Assign(heightIndex, n, hash)
    BY DEF Commit
  <2> HIDE DEF hash, n, DepthInv
  <2> QED
    BY <2>1 DEF Assign
<1>5. accepted' = accepted \cup {<<hash, n>>} /\ height' = n /\ bestBlockHash' = hash
  BY DEF Commit
<1>6. DOMAIN heightIndex \subseteq Nat /\ accepted \subseteq Hashes \X Nat
  BY DEF TypeOK
<1>7. IndexComplete'
  <2>1. \A k \in DOMAIN heightIndex' : 0..k \subseteq DOMAIN heightIndex'
    BY <1>1, <1>2, <1>4, <1>6 DEF IndexComplete
  <2>2. \A k \in DOMAIN heightIndex' : heightIndex'[k] \in DOMAIN blockCache'
    BY <1>3, <1>4 DEF IndexComplete, HasBlockAt
  <2> QED
    BY <1>4, <1>5, <2>1, <2>2 DEF IndexComplete, HasBlockAt
<1>8. Recorded'
  BY <1>1, <1>2, <1>3, <1>5 DEF Recorded
<1>9. \A a \in accepted : a[1] = hash => a[2] = n
  <2> SUFFICES ASSUME NEW a \in accepted, a[1] = hash PROVE a[2] = n
    OBVIOUS
  <2>1. a[2] \in Nat /\ a[2] # 0 /\ a[1] \in DOMAIN blockCache
    BY <1>2, <1>6 DEF Recorded
  <2>2. BlockHash(blockCache[hash]) = hash
    BY <2>1 DEF TypeOK, BlockMap
  <2>3. blockCache[hash].prev = b.prev
    BY <2>2, HashHasPrev
  <2>4. <<b.prev, a[2] - 1>> \in accepted
    BY <2>1, <2>3 DEF HeightIsDepth
  <2>5. a[2] - 1 = n - 1
    BY <1>2, <2>4 DEF HeightIsDepth
  <2> QED
    BY <1>1, <2>1, <2>5
<1>10. HeightIsDepth'
  <2>1. \A a, c \in accepted' : a[1] = c[1] => a[2] = c[2]
    BY <1>5, <1>9 DEF HeightIsDepth
  <2>2. \A a \in accepted' : a[2] > 0 => <<blockCache'[a[1]].prev, a[2] - 1>> \in accepted'
    <3> SUFFICES ASSUME NEW a \in accepted', a[2] > 0
                 PROVE  <<blockCache'[a[1]].prev, a[2] - 1>> \in accepted'
      OBVIOUS
    <3>1. CASE a[1] = hash
      <4>1. a[2] = n
        BY <1>5, <1>9, <3>1
      <4> QED
        BY <1>2, <1>3, <1>5, <3>1, <4>1
    <3>2. CASE a[1] # hash
      <4>1. a \in accepted
        BY <1>5, <3>2
      <4>2. blockCache'[a[1]] = blockCache[a[1]]
        BY <1>3, <3>2, <4>1 DEF Recorded
      <4>3. <<blockCache[a[1]].prev, a[2] - 1>> \in accepted
        BY <4>1 DEF HeightIsDepth
      <4> QED
        BY <1>5, <4>2, <4>3
    <3> QED
      BY <3>1, <3>2
  <2>3. \A k \in DOMAIN heightIndex' : <<heightIndex'[k], k>> \in accepted'
    BY <1>4, <1>5 DEF HeightIsDepth
  <2> QED
    BY <2>1, <2>2, <2>3 DEF HeightIsDepth
<1>11. Admitted'
  <2>1. /\ \A u \in Thread \ {t} : frame'[u] = frame[u]
        /\ frame'[t].pc = "idle"
    BY <1>1 DEF Commit, Return, IdleFrame
  <2> QED
    BY <1>4, <1>5, <2>1 DEF Admitted
<1> QED
  BY <1>7, <1>8, <1>10, <1>11

\* Every step keeps the heights.
LEMMA StepDepth == DepthInv /\ [Next]_vars => DepthInv'
<1> SUFFICES ASSUME DepthInv, [Next]_vars PROVE DepthInv'
  OBVIOUS
<1>0. TypeOK /\ TypeOK'
  BY StepType DEF DepthInv
<1>1. ASSUME NEW t \in Thread, NEW b \in Block, NEW n \in Height, AddBlock(t, b, n)
      PROVE  DepthInv'
  <2>1. frame \in [Thread -> Frame]
    BY <1>0 DEF TypeOK
  <2>2. UNCHANGED <<chainVars, historyVars>>
    BY <1>1 DEF AddBlock
  <2>3. Admitted'
    <3>1. CASE \E r : Return(t, r)
      BY <2>1, <2>2, <3>1
         DEF Return, IdleFrame, Admitted, DepthInv, chainVars, historyVars
    <3>2. CASE /\ frame' = [frame EXCEPT ![t].pc = "structure", ![t].block = b, ![t].at = n]
               /\ BlockHash(b) \notin DOMAIN blockCache
               /\ n = height + 1 /\ b.prev = bestBlockHash
      <4>1. /\ \A u \in Thread \ {t} : frame'[u] = frame[u]
            /\ frame'[t].block = b /\ frame'[t].at = n
        BY <2>1, <3>2 DEF Frame
      <4>2. height \in Nat /\ n > 0 /\ n - 1 = height
        BY <1>0, <3>2 DEF TypeOK
      <4>3. BlockHash(b) # BlockHash(Genesis)
        BY <3>2 DEF DepthInv, Recorded
      <4>4. <<b.prev, n - 1>> \in accepted
        BY <3>2, <4>2 DEF DepthInv, Recorded
      <4>5. n - 1 \in DOMAIN heightIndex
        BY <4>2 DEF DepthInv, IndexComplete
      <4> QED
        BY <2>2, <4>1, <4>2, <4>3, <4>4, <4>5
           DEF Admitted, DepthInv, chainVars, historyVars
    <3> QED
      BY <1>1, <3>1, <3>2 DEF AddBlock
  <2> QED
    BY <1>0, <2>2, <2>3 DEF DepthInv, IndexComplete, HeightIsDepth, Recorded,
       HasBlockAt, chainVars, historyVars
<1>2. ASSUME NEW t \in Thread, Step(t), ~Commit(t)
      PROVE  DepthInv'
  <2>1. KeepsCall(t)
    BY <1>0, <1>2, InnerStep
  <2>2. Admitted'
    BY <2>1 DEF KeepsCall, DepthInv, Admitted, chainVars, historyVars
  <2> QED
    BY <1>0, <2>1, <2>2 DEF KeepsCall, DepthInv, IndexComplete, HeightIsDepth,
       Recorded, HasBlockAt, chainVars, historyVars
<1>3. ASSUME NEW t \in Thread, Commit(t)
      PROVE  DepthInv'
  BY <1>0, <1>3, CommitDepth
<1>4. CASE UNCHANGED vars
  BY <1>0, <1>4 DEF DepthInv, IndexComplete, HeightIsDepth, Recorded, Admitted,
     HasBlockAt, vars, chainVars, historyVars
<1> QED
  BY <1>1, <1>2, <1>3, <1>4 DEF Next

\* HeightIsDepth: however many threads add blocks at once, a block is only
\* ever committed at one height, one above its parent's.
THEOREM HeightsAreDepths == Spec => []HeightIsDepth
<1>1. DepthInv => HeightIsDepth
  BY DEF DepthInv
<1> QED
  BY <1>1, InitDepth, StepDepth, PTL DEF Spec

\* IndexComplete: the index has no gap up to the tip, and every entry leads to
\* a cached block.
THEOREM IndexIsComplete == Spec => []IndexComplete
<1>1. DepthInv => IndexComplete
  BY DEF DepthInv
<1> QED
  BY <1>1, InitDepth, StepDepth, PTL DEF Spec


\* FloorNeverFalls: with any number of threads the tip is set back at most to
\* the lowest height that a call under way was admitted for.
THEOREM SetBacksAreBounded == Spec => FloorNeverFalls
<1>1. TypeOK /\ [Next]_vars => [\A n \in 0..height : AtOrAbove(n) => AtOrAbove(n)']_vars
  <2> SUFFICES ASSUME TypeOK, Next, NEW n \in 0..height, AtOrAbove(n)
               PROVE  AtOrAbove(n)'
    OBVIOUS
  <2>0. frame \in [Thread -> Frame] /\ height \in Nat
    BY DEF TypeOK
  <2>1. ASSUME NEW t \in Thread, NEW b \in Block, NEW m \in Height, AddBlock(t, b, m)
        PROVE  AtOrAbove(n)'
    <3>1. CASE \E r : Return(t, r)
      BY <2>0, <2>1, <3>1 DEF AddBlock, Return, IdleFrame, AtOrAbove, chainVars
    <3>2. CASE /\ frame' = [frame EXCEPT ![t].pc = "structure", ![t].block = b, ![t].at = m]
               /\ m = height + 1
      <4>1. \A u \in Thread \ {t} : frame'[u] = frame[u]
        BY <2>0, <3>2
      <4>2. frame'[t].at >= n
        BY <2>0, <3>2 DEF Frame
      <4> QED
        BY <2>1, <4>1, <4>2 DEF AddBlock, AtOrAbove, chainVars
    <3> QED
      BY <2>1, <3>1, <3>2 DEF AddBlock
  <2>2. ASSUME NEW t \in Thread, Step(t), ~Commit(t)
        PROVE  AtOrAbove(n)'
    BY <2>2, InnerStep DEF KeepsCall, AtOrAbove, chainVars
  <2>3. ASSUME NEW t \in Thread, Commit(t)
        PROVE  AtOrAbove(n)'
    BY <2>0, <2>3 DEF Commit, Return, IdleFrame, AtOrAbove
  <2> QED
    BY <2>1, <2>2, <2>3 DEF Next
<1> QED
  BY <1>1, InitType, StepType, PTL DEF Spec, FloorNeverFalls

-----------------------------------------------------------------------------
(* Coins have an origin, for any number of threads.                        *)

\* A txid commits to the outputs, so an outpoint alone determines its output.
LEMMA OutputOfCreated ==
    ASSUME NEW b \in Blocks, NEW p \in OutputPositions(b)
    PROVE  /\ CreatedAt(b, p) \in CreatedBy(b)
           /\ OutputOf(b, CreatedAt(b, p)) = OutputAt(b, p)
<1>1. \A q \in OutputPositions(b) :
        /\ q[1] \in DOMAIN b.txs
        /\ q[2] \in DOMAIN b.txs[q[1]].outputs
        /\ q[2] \in Nat
  BY ChainConstants DEF OutputPositions, Blocks
<1> DEFINE q == CHOOSE q \in OutputPositions(b) : CreatedAt(b, q) = CreatedAt(b, p)
<1>2. q \in OutputPositions(b) /\ CreatedAt(b, q) = CreatedAt(b, p)
  OBVIOUS
<1> HIDE DEF q
<1>3. TxId(b.txs[q[1]]) = TxId(b.txs[p[1]]) /\ q[2] - 1 = p[2] - 1
  BY <1>2 DEF CreatedAt, OutPoint
<1>4. b.txs[q[1]].outputs = b.txs[p[1]].outputs
  BY <1>3 DEF TxId
<1>5. q[2] = p[2]
  BY <1>1, <1>2, <1>3
<1>6. OutputAt(b, q) = OutputAt(b, p)
  BY <1>4, <1>5 DEF OutputAt
<1>7. OutputOf(b, CreatedAt(b, p)) = OutputAt(b, q)
  BY DEF OutputOf, q
<1> QED
  BY <1>6, <1>7 DEF CreatedBy

\* Two blocks of one hash give an outpoint the same output.
LEMMA SameOutput ==
    ASSUME NEW a \in Blocks, NEW b \in Blocks, BlockHash(a) = BlockHash(b),
           HasItsRoot(a), HasItsRoot(b), NEW op \in CreatedBy(a)
    PROVE  op \in CreatedBy(b) /\ OutputOf(a, op) = OutputOf(b, op)
<1>1. op \in CreatedBy(b)
  BY HashCommits DEF Blocks
<1>2. PICK p \in OutputPositions(a) : op = CreatedAt(a, p)
  BY DEF CreatedBy
<1>3. PICK q \in OutputPositions(b) : op = CreatedAt(b, q)
  BY <1>1 DEF CreatedBy
<1>4. OutputOf(a, op) = OutputAt(a, p) /\ OutputOf(b, op) = OutputAt(b, q)
  BY <1>2, <1>3, OutputOfCreated
<1>5. TxId(a.txs[p[1]]) = TxId(b.txs[q[1]]) /\ p[2] - 1 = q[2] - 1
  BY <1>2, <1>3 DEF CreatedAt, OutPoint
<1>6. p[2] \in Nat /\ q[2] \in Nat
  BY ChainConstants DEF OutputPositions, Blocks
<1>7. a.txs[p[1]].outputs = b.txs[q[1]].outputs /\ p[2] = q[2]
  BY <1>5, <1>6 DEF TxId
<1> QED
  BY <1>1, <1>4, <1>7 DEF OutputAt


\* Genesis has its root.
LEMMA InitRoots == Init => RootsChecked
<1> SUFFICES ASSUME Init PROVE RootsChecked
  OBVIOUS
<1>1. \A h \in DOMAIN blockCache : blockCache[h] = Genesis
  BY DEF Init, Assign
<1>2. \A t \in Thread : frame[t].pc = "idle"
  BY DEF Init, IdleFrame
<1> QED
  BY <1>1, <1>2, HashCommits DEF RootsChecked

\* Nothing gets past validateBlockStructure without its root.
LEMMA StepRoots == TypeOK /\ RootsChecked /\ [Next]_vars => RootsChecked'
<1> SUFFICES ASSUME TypeOK, RootsChecked, [Next]_vars PROVE RootsChecked'
  OBVIOUS
<1>0. frame \in [Thread -> Frame]
  BY DEF TypeOK
<1>1. ASSUME NEW t \in Thread, NEW b \in Block, NEW n \in Height, AddBlock(t, b, n)
      PROVE  RootsChecked'
  <2>1. CASE \E r : Return(t, r)
    BY <1>0, <1>1, <2>1 DEF AddBlock, Return, IdleFrame, RootsChecked, chainVars
  <2>2. CASE frame' = [frame EXCEPT ![t].pc = "structure", ![t].block = b, ![t].at = n]
    <3>1. /\ frame'[t].pc = "structure"
          /\ \A u \in Thread \ {t} : frame'[u] = frame[u]
      BY <1>0, <2>2 DEF Frame
    <3> QED
      BY <1>1, <3>1 DEF AddBlock, RootsChecked, chainVars
  <2> QED
    BY <1>1, <2>1, <2>2 DEF AddBlock
<1>2. ASSUME NEW t \in Thread, ValidateStructure(t)
      PROVE  RootsChecked'
  <2>1. frame'[t].pc = "idle" \/ HasItsRoot(frame[t].block)
    BY <1>0, <1>2 DEF ValidateStructure, ValidateBlockStructure, HasItsRoot,
       Return, IdleFrame
  <2>2. KeepsCall(t)
    BY <1>2, InnerStep DEF Step, ValidateStructure, Commit
  <2> QED
    BY <2>1, <2>2 DEF KeepsCall, RootsChecked, chainVars
<1>3. ASSUME NEW t \in Thread, Step(t), ~ValidateStructure(t), ~Commit(t)
      PROVE  RootsChecked'
  <2>1. KeepsCall(t)
    BY <1>3, InnerStep
  <2>2. frame[t].pc \notin {"idle", "structure"}
    BY <1>3 DEF Step, ReadHeight, ReadPrevBlock, ReadFirstBlock,
       ValidateTransactions, CheckInput, HasInput, SpendInput, PutOutput
  <2> QED
    BY <2>1, <2>2 DEF KeepsCall, RootsChecked, chainVars
<1>4. ASSUME NEW t \in Thread, Commit(t)
      PROVE  RootsChecked'
  <2>1. blockCache' = Assign(blockCache, BlockHash(frame[t].block), frame[t].block)
    BY <1>4 DEF Commit
  <2>2. HasItsRoot(frame[t].block)
    BY <1>4 DEF Commit, RootsChecked
  <2>3. \A h \in DOMAIN blockCache' : HasItsRoot(blockCache'[h])
    BY <2>1, <2>2 DEF Assign, RootsChecked
  <2>4. /\ \A u \in Thread \ {t} : frame'[u] = frame[u]
        /\ frame'[t].pc = "idle"
    BY <1>0, <1>4 DEF Commit, Return, IdleFrame
  <2> QED
    BY <2>3, <2>4 DEF RootsChecked
<1>5. CASE UNCHANGED vars
  BY <1>5 DEF RootsChecked, vars, chainVars
<1> QED
  BY <1>1, <1>2, <1>3, <1>4, <1>5 DEF Next

\* Losing coins does no harm while the origins stay.
LEMMA CoinsKept ==
    ASSUME CoinsHaveOrigin, Origins \subseteq Origins',
           DOMAIN utxo' \subseteq DOMAIN utxo,
           \A op \in DOMAIN utxo' : utxo'[op] = utxo[op]
    PROVE  CoinsHaveOrigin'
<1> SUFFICES ASSUME NEW op \in DOMAIN utxo'
             PROVE  \E b \in Origins' : op \in CreatedBy(b) /\ utxo'[op] = OutputOf(b, op)
  BY DEF CoinsHaveOrigin, CreatedBy, OutputOf
<1>1. PICK b \in Origins : op \in CreatedBy(b) /\ utxo[op] = OutputOf(b, op)
  BY DEF CoinsHaveOrigin
<1> QED
  BY <1>1

\* The origins stay when the cache does and no thread leaves the last loop.
LEMMA OriginsKept ==
    ASSUME UNCHANGED blockCache,
           \A t \in Thread : At(t, "put") =>
               frame'[t].pc = "put" /\ frame'[t].block = frame[t].block
    PROVE  Origins \subseteq Origins'
BY DEF Origins, InFlight

\* At first the coins are genesis' own.
LEMMA InitCoins == Init => CoinInv
<1> SUFFICES ASSUME Init PROVE CoinInv
  OBVIOUS
<1>1. TypeOK
  BY InitType
<1>2. Genesis \in Origins
  <2>1. BlockHash(Genesis) \in DOMAIN blockCache /\ blockCache[BlockHash(Genesis)] = Genesis
    BY DEF Init, Assign
  <2> QED
    BY <2>1 DEF Origins
<1>3. /\ DOMAIN utxo = CreatedBy(Genesis)
      /\ \A op \in DOMAIN utxo : utxo[op] = OutputOf(Genesis, op)
  BY DEF Init, ApplyBlock, NoCoins
<1>4. CoinsHaveOrigin
  BY <1>2, <1>3 DEF CoinsHaveOrigin
<1>5. \A t \in Thread : ~At(t, "put")
  BY DEF Init, IdleFrame
<1> QED
  BY <1>1, <1>4, <1>5, InitRoots DEF CoinInv

\* A step that leaves cache and UTXO set alone and takes thread t neither into
\* nor out of the last loop.
LEMMA QuietCoins ==
    ASSUME CoinInv, TypeOK', RootsChecked', NEW t \in Thread,
           ~At(t, "put"), frame'[t].pc # "put",
           \A u \in Thread \ {t} : frame'[u] = frame[u],
           UNCHANGED <<blockCache, utxo>>
    PROVE  CoinInv'
<1>1. Origins \subseteq Origins'
  BY OriginsKept
<1>2. CoinsHaveOrigin'
  BY <1>1, CoinsKept DEF CoinInv
<1> QED
  BY <1>2 DEF CoinInv

\* Every step keeps the coins' origins.
LEMMA StepCoins == CoinInv /\ [Next]_vars => CoinInv'
<1> SUFFICES ASSUME CoinInv, [Next]_vars PROVE CoinInv'
  OBVIOUS
<1>0. /\ TypeOK /\ TypeOK'
      /\ RootsChecked /\ RootsChecked'
      /\ frame \in [Thread -> Frame]
      /\ CoinsHaveOrigin
  BY StepType, StepRoots DEF CoinInv, TypeOK
<1>1. ASSUME NEW t \in Thread, NEW pc, NEW todo, NEW r, ~At(t, "put"), pc # "put",
             Goto(t, pc) \/ GotoWith(t, pc, todo) \/ Return(t, r),
             UNCHANGED <<blockCache, utxo>>
      PROVE  CoinInv'
  <2>1. frame'[t].pc # "put" /\ \A u \in Thread \ {t} : frame'[u] = frame[u]
    <3>1. CASE Goto(t, pc)
      BY <1>0, <1>1, <3>1 DEF Goto, Frame
    <3>2. CASE GotoWith(t, pc, todo)
      BY <1>0, <1>1, <3>2 DEF GotoWith, Frame
    <3>3. CASE Return(t, r)
      BY <1>0, <3>3 DEF Return, IdleFrame
    <3> QED
      BY <1>1, <3>1, <3>2, <3>3
  <2> QED
    BY <1>0, <1>1, <2>1, QuietCoins
<1>2. ASSUME NEW t \in Thread, NEW b \in Block, NEW n \in Height, AddBlock(t, b, n)
      PROVE  CoinInv'
  <2>1. CASE frame' = [frame EXCEPT ![t].pc = "structure", ![t].block = b, ![t].at = n]
    <3>1. frame'[t].pc # "put" /\ \A u \in Thread \ {t} : frame'[u] = frame[u]
      BY <1>0, <2>1 DEF Frame
    <3> QED
      BY <1>0, <1>2, <3>1, QuietCoins DEF AddBlock, chainVars
  <2> QED
    BY <1>1, <1>2, <2>1 DEF AddBlock, chainVars
<1>3. ASSUME NEW t \in Thread, ValidateStructure(t) PROVE CoinInv'
  BY <1>1, <1>3 DEF ValidateStructure, chainVars
<1>4. ASSUME NEW t \in Thread, ReadHeight(t) PROVE CoinInv'
  <2>1. CASE frame' = [frame EXCEPT ![t].pc = "prev", ![t].tip = height]
    <3>1. frame'[t].pc # "put" /\ \A u \in Thread \ {t} : frame'[u] = frame[u]
      BY <1>0, <2>1 DEF Frame
    <3> QED
      BY <1>0, <1>4, <3>1, QuietCoins DEF ReadHeight, chainVars
  <2> QED
    BY <1>1, <1>4, <2>1 DEF ReadHeight, chainVars
<1>5. ASSUME NEW t \in Thread, ReadPrevBlock(t) PROVE CoinInv'
  <2>1. CASE frame' = [frame EXCEPT ![t].pc = "first", ![t].prev = BlockAt(frame[t].tip)]
    <3>1. frame'[t].pc # "put" /\ \A u \in Thread \ {t} : frame'[u] = frame[u]
      BY <1>0, <2>1 DEF Frame
    <3> QED
      BY <1>0, <1>5, <3>1, QuietCoins DEF ReadPrevBlock, chainVars
  <2> QED
    BY <1>1, <1>5, <2>1 DEF ReadPrevBlock, chainVars
<1>6. ASSUME NEW t \in Thread, ReadFirstBlock(t) PROVE CoinInv'
  BY <1>1, <1>6 DEF ReadFirstBlock, chainVars
<1>7. ASSUME NEW t \in Thread, ValidateTransactions(t) PROVE CoinInv'
  BY <1>1, <1>7 DEF ValidateTransactions, chainVars
<1>8. ASSUME NEW t \in Thread, CheckInput(t) PROVE CoinInv'
  BY <1>1, <1>8 DEF CheckInput, chainVars
<1>9. ASSUME NEW t \in Thread, HasInput(t) PROVE CoinInv'
  <2>1. CASE GotoWith(t, "put", OutputPositions(frame[t].block))
    <3>1. /\ \A u \in Thread \ {t} : frame'[u] = frame[u]
          /\ frame'[t].block = frame[t].block
          /\ frame'[t].todo = OutputPositions(frame[t].block)
      BY <1>0, <2>1 DEF GotoWith, Frame
    <3>2. Origins \subseteq Origins'
      BY <1>9, <3>1, OriginsKept DEF HasInput, chainVars
    <3>3. CoinsHaveOrigin'
      BY <1>0, <1>9, <3>2, CoinsKept DEF HasInput
    <3> QED
      BY <1>0, <3>1, <3>3 DEF CoinInv
  <2> QED
    BY <1>1, <1>9, <2>1 DEF HasInput, chainVars
<1>10. ASSUME NEW t \in Thread, SpendInput(t) PROVE CoinInv'
  <2>1. PICK p \in frame[t].todo :
          /\ utxo' = Erase(utxo, SpentAt(frame[t].block, p))
          /\ GotoWith(t, "has", frame[t].todo \ {p})
    BY <1>10 DEF SpendInput
  <2>2. /\ frame'[t].pc = "has"
        /\ \A u \in Thread \ {t} : frame'[u] = frame[u]
    BY <1>0, <2>1 DEF GotoWith, Frame
  <2>3. Origins \subseteq Origins'
    BY <1>10, <2>2, OriginsKept DEF SpendInput, chainVars
  <2>4. CoinsHaveOrigin'
    BY <1>0, <2>1, <2>3, CoinsKept DEF Erase
  <2> QED
    BY <1>0, <2>2, <2>4 DEF CoinInv
<1>11. ASSUME NEW t \in Thread, PutOutput(t) PROVE CoinInv'
  <2> DEFINE b == frame[t].block
  <2>1. PICK p \in frame[t].todo :
          /\ utxo' = Assign(utxo, CreatedAt(b, p), OutputAt(b, p))
          /\ GotoWith(t, "put", frame[t].todo \ {p})
    BY <1>11 DEF PutOutput
  <2>2. /\ frame'[t].pc = "put" /\ frame'[t].block = b
        /\ frame'[t].todo = frame[t].todo \ {p}
        /\ \A u \in Thread \ {t} : frame'[u] = frame[u]
    BY <1>0, <2>1 DEF GotoWith, Frame
  <2>3. b \in Blocks /\ p \in OutputPositions(b) /\ b \in Origins
    BY <1>0, <1>11, <2>1 DEF PutOutput, CoinInv, Frame, Origins, InFlight
  <2>4. Origins \subseteq Origins'
    BY <1>11, <2>2, OriginsKept DEF PutOutput, chainVars
  <2>5. CoinsHaveOrigin'
    <3> SUFFICES ASSUME NEW op \in DOMAIN utxo'
                 PROVE  \E c \in Origins' : op \in CreatedBy(c) /\ utxo'[op] = OutputOf(c, op)
      BY DEF CoinsHaveOrigin, CreatedBy, OutputOf
    <3>1. CASE op = CreatedAt(b, p)
      BY <2>1, <2>3, <2>4, <3>1, OutputOfCreated DEF Assign
    <3>2. CASE op # CreatedAt(b, p)
      <4>1. op \in DOMAIN utxo /\ utxo'[op] = utxo[op]
        BY <2>1, <3>2 DEF Assign
      <4> QED
        BY <1>0, <2>4, <4>1 DEF CoinsHaveOrigin
    <3> QED
      BY <3>1, <3>2
  <2>6. frame'[t].todo \subseteq OutputPositions(b)
    BY <1>11, <2>2 DEF PutOutput, CoinInv
  <2> QED
    BY <1>0, <2>2, <2>5, <2>6 DEF CoinInv
<1>12. ASSUME NEW t \in Thread, Commit(t) PROVE CoinInv'
  <2> DEFINE b == frame[t].block
             hash == BlockHash(b)
  <2>1. blockCache' = Assign(blockCache, hash, b) /\ Return(t, TRUE) /\ utxo' = utxo
    BY <1>12 DEF Commit
  <2>2. /\ \A u \in Thread \ {t} : frame'[u] = frame[u]
        /\ frame'[t].pc = "idle"
    BY <1>0, <2>1 DEF Return, IdleFrame
  <2>3. b \in Blocks /\ HasItsRoot(b)
    BY <1>0, <1>12 DEF Frame, RootsChecked, Commit
  <2>4. b \in Origins'
    <3>1. hash \in DOMAIN blockCache' /\ blockCache'[hash] = b
      BY <2>1 DEF Assign
    <3> QED
      BY <3>1 DEF Origins
  <2>5. \A c \in Origins :
          \/ c \in Origins'
          \/ c \in Blocks /\ BlockHash(c) = hash /\ HasItsRoot(c)
    <3> SUFFICES ASSUME NEW c \in Origins
                 PROVE  \/ c \in Origins'
                        \/ c \in Blocks /\ BlockHash(c) = hash /\ HasItsRoot(c)
      OBVIOUS
    <3>1. CASE c \in InFlight
      <4>1. PICK u \in Thread : At(u, "put") /\ c = frame[u].block
        BY <3>1 DEF InFlight
      <4>2. CASE u = t
        BY <2>4, <4>1, <4>2
      <4>3. CASE u # t
        BY <2>2, <4>1, <4>3 DEF Origins, InFlight
      <4> QED
        BY <4>2, <4>3
    <3>2. CASE c \in {blockCache[h] : h \in DOMAIN blockCache}
      <4>1. PICK h \in DOMAIN blockCache : c = blockCache[h]
        BY <3>2
      <4>2. c \in Blocks /\ BlockHash(c) = h /\ HasItsRoot(c)
        BY <1>0, <4>1 DEF TypeOK, BlockMap, RootsChecked
      <4>3. h # hash => h \in DOMAIN blockCache' /\ blockCache'[h] = c
        BY <2>1, <4>1 DEF Assign
      <4> QED
        BY <4>2, <4>3 DEF Origins
    <3> QED
      BY <3>1, <3>2 DEF Origins
  <2>6. CoinsHaveOrigin'
    <3> SUFFICES ASSUME NEW op \in DOMAIN utxo
                 PROVE  \E c \in Origins' : op \in CreatedBy(c) /\ utxo[op] = OutputOf(c, op)
      BY <2>1 DEF CoinsHaveOrigin, CreatedBy, OutputOf
    <3>1. PICK c \in Origins : op \in CreatedBy(c) /\ utxo[op] = OutputOf(c, op)
      BY <1>0 DEF CoinsHaveOrigin
    <3>2. CASE c \in Origins'
      BY <3>1, <3>2
    <3>3. CASE c \in Blocks /\ BlockHash(c) = BlockHash(b) /\ HasItsRoot(c)
      BY <2>3, <2>4, <3>1, <3>3, SameOutput
    <3> QED
      BY <2>5, <3>2, <3>3
  <2> QED
    BY <1>0, <2>2, <2>6 DEF CoinInv
<1>13. CASE UNCHANGED vars
  <2>1. Origins \subseteq Origins' /\ UNCHANGED <<utxo, frame>>
    BY <1>13 DEF vars, chainVars, Origins, InFlight
  <2>2. CoinsHaveOrigin'
    BY <1>0, <2>1, CoinsKept
  <2>3. \A t \in Thread : At(t, "put")' =>
          frame'[t].todo \subseteq OutputPositions(frame'[t].block)
    <3>1. frame' = frame
      BY <2>1
    <3> QED
      BY <3>1 DEF CoinInv
  <2> QED
    BY <1>0, <2>2, <2>3 DEF CoinInv
<1> QED
  BY <1>2, <1>3, <1>4, <1>5, <1>6, <1>7, <1>8, <1>9, <1>10, <1>11, <1>12, <1>13
     DEF Next, Step

\* CoinsHaveOrigin: however many threads add blocks at once, and however their
\* calls fail, every coin was created by a block that is or will be committed.
THEOREM CoinsComeFromBlocks == Spec => []CoinsHaveOrigin
<1>1. CoinInv => CoinsHaveOrigin
  BY DEF CoinInv
<1> QED
  BY <1>1, InitCoins, StepCoins, PTL DEF Spec


-----------------------------------------------------------------------------
(* One thread at a time.                                                   *)

\* A new chain is a chain.
LEMMA InitSerial == Init => SerialInv
<1> SUFFICES ASSUME Init PROVE SerialInv
  OBVIOUS
<1>1. DepthInv
  BY InitDepth
<1>2. DOMAIN heightIndex = 0..height
  BY DEF Init, Assign
<1>3. TipWaits
  BY DEF Init, TipWaits, IdleFrame
<1>4. TipIsLongest
  BY DEF Init, TipIsLongest
<1>5. IndexLinked
  BY <1>2 DEF Init, IndexLinked
<1>6. BitsWait
  BY DEF Init, BitsWait, IdleFrame
<1>7. BitsAreDue
  BY <1>2 DEF Init, BitsAreDue
<1> QED
  BY <1>1, <1>2, <1>3, <1>4, <1>5, <1>6, <1>7 DEF SerialInv

\* A positive multiple is no smaller.
LEMMA MultipleIsAtLeast ==
    ASSUME NEW n \in Nat \ {0}, NEW d \in Nat \ {0}, n % d = 0
    PROVE  n >= d
<1>1. n < d => n % d = n
  OBVIOUS
<1> QED
  BY <1>1

\* checkDifficulty by the only thread: its three reads see one chain.
LEMMA BitsStep ==
    ASSUME OneThread, SerialInv, NEW t \in Thread, Step(t), ~Commit(t)
    PROVE  BitsWait'
<1>0. /\ TypeOK /\ frame \in [Thread -> Frame] /\ height \in Nat
      /\ BitsWait /\ HasBlockAt(height)
      /\ DOMAIN heightIndex = 0..height
      /\ \A n \in DOMAIN heightIndex : HasBlockAt(n)
      /\ DIFFICULTY_INTERVAL \in Nat \ {0}
  BY ChainConstants DEF SerialInv, DepthInv, TypeOK, IndexComplete
<1>1. KeepsCall(t)
  BY <1>0, InnerStep
<1>2. UNCHANGED chainVars /\ \A n : Due(n)' = Due(n) /\ BlockAt(n)' = BlockAt(n)
  BY <1>1 DEF KeepsCall, Due, BlockAt, chainVars
<1> DEFINE Checked == {"txs", "inputs", "has", "spend", "put"}
           Bits == height = 0 \/ frame[t].block.bits = Due(height + 1)
<1>3. ASSUME frame'[t].pc \in Checked, Bits
      PROVE  BitsWait'
  BY <1>1, <1>2, <1>3 DEF KeepsCall, BitsWait, OneThread, chainVars
<1>4. ASSUME frame'[t].pc \in {"idle", "height"}
      PROVE  BitsWait'
  BY <1>4 DEF BitsWait, OneThread
<1>5. CASE ValidateStructure(t)
  BY <1>0, <1>4, <1>5 DEF ValidateStructure, Goto, Return, IdleFrame, Frame
<1>6. CASE ReadHeight(t)
  <2>1. CASE Goto(t, "txs") /\ height = 0
    BY <1>0, <1>3, <2>1 DEF Goto, Frame
  <2>2. CASE frame' = [frame EXCEPT ![t].pc = "prev", ![t].tip = height] /\ height # 0
    <3>1. frame'[t].pc = "prev" /\ frame'[t].tip = height
      BY <1>0, <2>2 DEF Frame
    <3> QED
      BY <1>0, <1>2, <2>2, <3>1 DEF BitsWait, OneThread, chainVars
  <2> QED
    BY <1>6, <2>1, <2>2 DEF ReadHeight
<1>7. CASE ReadPrevBlock(t)
  <2>1. frame[t].tip = height /\ height > 0
    BY <1>0, <1>7 DEF ReadPrevBlock, BitsWait
  <2>2. (height + 1) % DIFFICULTY_INTERVAL = 0 => height >= DIFFICULTY_INTERVAL - 1
    BY <1>0, MultipleIsAtLeast, height + 1 \in Nat \ {0}
  <2>3. CASE Goto(t, "txs")
    <3>1. frame'[t].pc \in Checked
      BY <1>0, <2>3 DEF Goto, Frame
    <3>2. /\ (height + 1) % DIFFICULTY_INTERVAL # 0
          /\ frame[t].block.bits = BlockAt(height).bits
      BY <1>0, <1>7, <2>1, <2>2, <3>1 DEF ReadPrevBlock, Return, IdleFrame, Frame
    <3>3. Due(height + 1) = BlockAt(height).bits
      BY <1>0, <3>2, (height + 1) - 1 = height DEF Due
    <3> QED
      BY <1>3, <3>1, <3>2, <3>3
  <2>4. CASE Return(t, FALSE)
    BY <1>0, <1>4, <2>4 DEF Return, IdleFrame
  <2>5. CASE /\ frame' = [frame EXCEPT ![t].pc = "first", ![t].prev = BlockAt(height)]
             /\ (height + 1) % DIFFICULTY_INTERVAL = 0
    <3>1. /\ frame'[t].pc = "first" /\ frame'[t].prev = BlockAt(height)
          /\ frame'[t].tip = height
      BY <1>0, <2>1, <2>5 DEF Frame
    <3> QED
      BY <1>2, <2>1, <2>5, <3>1 DEF BitsWait, OneThread, chainVars
  <2> QED
    BY <1>7, <2>1, <2>3, <2>4, <2>5 DEF ReadPrevBlock
<1>8. CASE ReadFirstBlock(t)
  <2> DEFINE first == height - (DIFFICULTY_INTERVAL - 1)
  <2>1. /\ frame[t].tip = height /\ height > 0
        /\ frame[t].prev = BlockAt(height)
        /\ (height + 1) % DIFFICULTY_INTERVAL = 0
    BY <1>0, <1>8 DEF ReadFirstBlock, BitsWait
  <2>2. height + 1 >= DIFFICULTY_INTERVAL
    BY <1>0, <2>1, MultipleIsAtLeast, height + 1 \in Nat \ {0}
  <2>3. first \in 0..height /\ first = (height + 1) - DIFFICULTY_INTERVAL
    BY <1>0, <2>2
  <2>4. HasBlockAt(first)
    BY <1>0, <2>3
  <2>5. Due(height + 1) =
          GetAdaptiveNextDifficulty(BlockAt(height).bits, BlockAt(height).time,
              BlockAt(first).time, DIFFICULTY_INTERVAL, height + 1)
    BY <1>0, <2>1, <2>3, (height + 1) - 1 = height DEF Due
  <2>6. CASE Goto(t, "txs") /\ frame[t].block.bits = Due(height + 1)
    BY <1>0, <1>3, <2>6 DEF Goto, Frame
  <2>7. CASE Return(t, FALSE)
    BY <1>0, <1>4, <2>7 DEF Return, IdleFrame
  <2> HIDE DEF first
  <2> QED
    BY <1>8, <2>1, <2>4, <2>5, <2>6, <2>7 DEF ReadFirstBlock, first
<1>9. ASSUME frame[t].pc \in Checked, frame'[t].pc \in Checked \cup {"idle"}
      PROVE  BitsWait'
  <2>1. Bits
    BY <1>0, <1>9 DEF BitsWait
  <2> QED
    BY <1>3, <1>4, <1>9, <2>1
<1>10. CASE \/ ValidateTransactions(t) \/ CheckInput(t) \/ HasInput(t)
            \/ SpendInput(t) \/ PutOutput(t)
  <2>1. frame[t].pc \in Checked /\ frame'[t].pc \in Checked \cup {"idle"}
    BY <1>0, <1>10 DEF ValidateTransactions, CheckInput, HasInput, SpendInput,
       PutOutput, Goto, GotoWith, Return, IdleFrame, Frame
  <2> QED
    BY <1>9, <2>1
<1> QED
  BY <1>5, <1>6, <1>7, <1>8, <1>10 DEF Step

\* With nobody else to move the tip, a commit puts its block on top.
LEMMA CommitSerial ==
    ASSUME OneThread, SerialInv, DepthInv', NEW t \in Thread, Commit(t)
    PROVE  SerialInv'
<1> DEFINE b == frame[t].block
           n == frame[t].at
           hash == BlockHash(b)
<1>1. /\ frame \in [Thread -> Frame] /\ height \in Nat
      /\ DOMAIN heightIndex = 0..height
      /\ IndexComplete /\ IndexLinked /\ TipIsLongest
      /\ accepted \subseteq Hashes \X Nat
  BY DEF SerialInv, DepthInv, TypeOK
<1>2. n = height + 1 /\ b.prev = bestBlockHash /\ hash \notin DOMAIN blockCache
  BY DEF SerialInv, TipWaits, Commit
<1>3. /\ blockCache' = Assign(blockCache, hash, b)
      /\ heightIndex' = Assign(heightIndex, n, hash)
      /\ height' = n
      /\ accepted' = accepted \cup {<<hash, n>>}
      /\ frame'[t].pc = "idle"
  BY <1>1 DEF Commit, Return, IdleFrame
<1> HIDE DEF b, n, hash
<1>4. /\ DOMAIN blockCache' = DOMAIN blockCache \cup {hash}
      /\ blockCache'[hash] = b
      /\ \A h \in DOMAIN blockCache : blockCache'[h] = blockCache[h]
  BY <1>2, <1>3 DEF Assign
<1>5. /\ DOMAIN heightIndex' = DOMAIN heightIndex \cup {n}
      /\ heightIndex'[n] = hash
      /\ \A k \in DOMAIN heightIndex : k # n => heightIndex'[k] = heightIndex[k]
  BY <1>3 DEF Assign
<1>6. DOMAIN heightIndex' = 0..height'
  <2>1. 0..(height + 1) = (0..height) \cup {height + 1}
    BY <1>1
  <2>2. DOMAIN heightIndex' = (0..height) \cup {n}
    BY <1>1, <1>5
  <2> QED
    BY <1>2, <1>3, <2>1, <2>2
<1>7. TipIsLongest'
  BY <1>1, <1>2, <1>3 DEF TipIsLongest
<1>8. TipWaits'
  BY <1>3 DEF TipWaits, OneThread
<1>9. IndexLinked'
  <2> SUFFICES ASSUME NEW k \in DOMAIN heightIndex', k > 0
               PROVE  /\ k - 1 \in DOMAIN heightIndex'
                      /\ blockCache'[heightIndex'[k]].prev = heightIndex'[k - 1]
    BY DEF IndexLinked, BlockAt
  <2>1. CASE k = n
    <3>1. k - 1 = height /\ height # n /\ height \in DOMAIN heightIndex
      BY <1>1, <1>2, <2>1
    <3>2. heightIndex'[k - 1] = bestBlockHash
      BY <1>1, <1>5, <3>1 DEF IndexComplete
    <3> QED
      BY <1>2, <1>4, <1>5, <2>1, <3>1, <3>2
  <2>2. CASE k # n
    <3>1. k \in DOMAIN heightIndex /\ k - 1 \in DOMAIN heightIndex /\ k - 1 # n
      BY <1>1, <1>2, <1>5, <2>2
    <3>2. heightIndex[k] \in DOMAIN blockCache
      BY <1>1, <3>1 DEF IndexComplete, HasBlockAt
    <3>3. blockCache[heightIndex[k]].prev = heightIndex[k - 1]
      BY <1>1, <2>2, <3>1 DEF IndexLinked, BlockAt
    <3> QED
      BY <1>4, <1>5, <2>2, <3>1, <3>2, <3>3
  <2> QED
    BY <2>1, <2>2
<1>10. BitsWait'
  BY <1>3 DEF BitsWait, OneThread
<1>11. ASSUME NEW k \in 0..height
       PROVE  BlockAt(k)' = BlockAt(k)
  <2>1. k \in DOMAIN heightIndex /\ k # n /\ heightIndex[k] \in DOMAIN blockCache
    BY <1>1, <1>2 DEF IndexComplete, HasBlockAt
  <2> QED
    BY <1>4, <1>5, <2>1 DEF BlockAt
<1>12. ASSUME NEW k \in 1..(height + 1)
       PROVE  Due(k)' = Due(k)
  <2>1. DIFFICULTY_INTERVAL \in Nat \ {0} /\ k \in Nat \ {0}
    BY <1>1, ChainConstants
  <2>2. k - 1 \in 0..height
    BY <1>1
  <2>3. k % DIFFICULTY_INTERVAL = 0 => k - DIFFICULTY_INTERVAL \in 0..height
    BY <1>1, <2>1, MultipleIsAtLeast
  <2> QED
    BY <1>11, <2>2, <2>3 DEF Due
<1>13. BitsAreDue'
  <2> SUFFICES ASSUME NEW k \in DOMAIN heightIndex', k > 1
               PROVE  BlockAt(k)'.bits = Due(k)'
    BY DEF BitsAreDue
  <2>1. k \in 1..(height + 1)
    BY <1>1, <1>2, <1>3, <1>6
  <2>2. CASE k = n
    <3>1. height > 0 /\ b.bits = Due(height + 1)
      BY <1>1, <1>2, <2>2 DEF SerialInv, BitsWait, Commit, b
    <3>2. BlockAt(k)' = b
      BY <1>4, <1>5, <2>2 DEF BlockAt
    <3> QED
      BY <1>2, <1>12, <2>1, <2>2, <3>1, <3>2
  <2>3. CASE k # n
    <3>1. k \in 0..height /\ k \in DOMAIN heightIndex
      BY <1>1, <1>2, <2>1, <2>3
    <3>2. BlockAt(k).bits = Due(k)
      BY <3>1 DEF SerialInv, BitsAreDue
    <3> QED
      BY <1>11, <1>12, <2>1, <3>1, <3>2
  <2> QED
    BY <2>2, <2>3
<1> QED
  BY <1>6, <1>7, <1>8, <1>9, <1>10, <1>13 DEF SerialInv

\* Every step keeps the chain a chain.
LEMMA StepSerial == OneThread /\ SerialInv /\ [Next]_vars => SerialInv'
<1> SUFFICES ASSUME OneThread, SerialInv, [Next]_vars PROVE SerialInv'
  OBVIOUS
<1>0. DepthInv /\ DepthInv' /\ TypeOK /\ frame \in [Thread -> Frame]
  BY StepDepth DEF SerialInv, DepthInv, TypeOK
<1>1. ASSUME TipWaits', BitsWait', UNCHANGED <<chainVars, accepted>>
      PROVE  SerialInv'
  BY <1>0, <1>1 DEF SerialInv, TipIsLongest, IndexLinked, BitsAreDue, Due, BlockAt, chainVars
<1>2. ASSUME NEW t \in Thread, NEW b \in Block, NEW n \in Height, AddBlock(t, b, n)
      PROVE  SerialInv'
  <2>1. UNCHANGED <<chainVars, accepted>>
    BY <1>2 DEF AddBlock, historyVars
  <2>2. CASE \E r : Return(t, r)
    <3>1. frame'[t].pc = "idle"
      BY <1>0, <2>2 DEF Return, IdleFrame
    <3> QED
      BY <1>1, <2>1, <3>1 DEF TipWaits, BitsWait, OneThread
  <2>3. CASE /\ frame' = [frame EXCEPT ![t].pc = "structure", ![t].block = b, ![t].at = n]
             /\ BlockHash(b) \notin DOMAIN blockCache
             /\ n = height + 1 /\ b.prev = bestBlockHash
    <3>1. frame'[t].block = b /\ frame'[t].at = n /\ frame'[t].pc = "structure"
      BY <1>0, <2>3 DEF Frame
    <3>2. BitsWait'
      BY <3>1 DEF BitsWait, OneThread
    <3> QED
      BY <1>1, <2>1, <2>3, <3>1, <3>2 DEF TipWaits, OneThread, chainVars
  <2> QED
    BY <1>2, <2>2, <2>3 DEF AddBlock
<1>3. ASSUME NEW t \in Thread, Step(t), ~Commit(t)
      PROVE  SerialInv'
  <2>1. KeepsCall(t)
    BY <1>0, <1>3, InnerStep
  <2>2. TipWaits'
    BY <2>1 DEF KeepsCall, SerialInv, TipWaits, OneThread, chainVars
  <2>3. BitsWait'
    BY <1>3, BitsStep
  <2> QED
    BY <1>1, <2>1, <2>2, <2>3 DEF KeepsCall, historyVars
<1>4. ASSUME NEW t \in Thread, Commit(t)
      PROVE  SerialInv'
  BY <1>0, <1>4, CommitSerial
<1>5. CASE UNCHANGED vars
  <2>1. TipWaits'
    BY <1>5 DEF SerialInv, TipWaits, vars, chainVars
  <2>2. BitsWait'
    BY <1>5 DEF SerialInv, BitsWait, Due, BlockAt, vars, chainVars
  <2> QED
    BY <1>1, <1>5, <2>1, <2>2 DEF vars, historyVars
<1> QED
  BY <1>2, <1>3, <1>4, <1>5 DEF Next

\* TipIsLongest: used by one thread at a time, the tip is never below a block
\* that was committed before it.
THEOREM SerialTip == ASSUME OneThread PROVE Spec => []TipIsLongest
<1>1. SerialInv => TipIsLongest
  BY DEF SerialInv
<1>2. SerialInv /\ [Next]_vars => SerialInv'
  BY StepSerial
<1> QED
  BY <1>1, <1>2, InitSerial, PTL DEF Spec

\* IndexLinked: used by one thread at a time, the index is a chain of blocks
\* from the tip down to genesis.
THEOREM SerialIndex == ASSUME OneThread PROVE Spec => []IndexLinked
<1>1. SerialInv => IndexLinked
  BY DEF SerialInv
<1>2. SerialInv /\ [Next]_vars => SerialInv'
  BY StepSerial
<1> QED
  BY <1>1, <1>2, InitSerial, PTL DEF Spec

\* BitsAreDue: used by one thread at a time, checkDifficulty lets no block in
\* whose bits are not those that the chain below it demands.
THEOREM SerialBits == ASSUME OneThread PROVE Spec => []BitsAreDue
<1>1. SerialInv => BitsAreDue
  BY DEF SerialInv
<1>2. SerialInv /\ [Next]_vars => SerialInv'
  BY StepSerial
<1> QED
  BY <1>1, <1>2, InitSerial, PTL DEF Spec

-----------------------------------------------------------------------------

(***************************************************************************)
(* The chain state behind the chain, for any number of threads: what       *)
(* MemoryChainState holds, and what saveToDisk has last written, are       *)
(* chains without a gap.                                                   *)
(*                                                                         *)
(* StoreIsClosed is inductive relative to DepthInv: a late commit finds    *)
(* its parent in the store because the admission found it in the cache     *)
(* (Admitted, Recorded) and the store keeps up with the cache.             *)
(***************************************************************************)

StoreInv == DepthInv /\ StoreIsClosed

\* A new chain state is empty, and so is the file.
LEMMA InitStore == Init => StoreInv
<1> SUFFICES ASSUME Init PROVE StoreInv
  OBVIOUS
<1>1. /\ store = EmptyStore /\ disk = EmptyStore /\ height = 0
      /\ DOMAIN blockCache = {BlockHash(Genesis)}
  BY DEF Init, Assign
<1>2. HoldsItsChain(EmptyStore)
  BY DEF HoldsItsChain, EmptyStore
<1>3. 0 % SaveInterval = 0
  BY ChainConstants
<1>4. StoreIsClosed
  BY <1>1, <1>2, <1>3 DEF StoreIsClosed, EmptyStore
<1> QED
  BY <1>4, InitDepth DEF StoreInv

\* The history only grows, so a chain state that holds its chain goes on to.
LEMMA ClosedStays ==
    ASSUME NEW s, HoldsItsChain(s), accepted \subseteq accepted'
    PROVE  /\ s.height > 0 => <<s.best, s.height>> \in accepted' /\ s.best \in DOMAIN s.blocks
           /\ \A h \in DOMAIN s.blocks :
                 s.blocks[h].prev \in DOMAIN s.blocks \cup {BlockHash(Genesis)}
BY DEF HoldsItsChain

\* A commit, however late, puts its block on a parent that is stored.
LEMMA CommitStore ==
    ASSUME StoreInv, NEW t \in Thread, Commit(t)
    PROVE  StoreIsClosed'
<1> DEFINE b == frame[t].block
           n == frame[t].at
           hash == BlockHash(b)
<1>1. /\ n \in Nat /\ n > 0
      /\ hash # BlockHash(Genesis)
      /\ b.prev \in DOMAIN blockCache
  <2>1. n \in Nat
    BY DEF StoreInv, DepthInv, TypeOK, Frame
  <2>2. n > 0 /\ hash # BlockHash(Genesis) /\ <<b.prev, n - 1>> \in accepted
    BY DEF Commit, StoreInv, DepthInv, Admitted
  <2> QED
    BY <2>1, <2>2 DEF StoreInv, DepthInv, Recorded
<1>2. /\ HoldsItsChain(store) /\ HoldsItsChain(disk)
      /\ DOMAIN store.blocks = DOMAIN blockCache \ {BlockHash(Genesis)}
      /\ disk.height % SaveInterval = 0
      /\ DOMAIN disk.blocks \subseteq DOMAIN store.blocks
  BY DEF StoreInv, StoreIsClosed
<1>3. /\ blockCache' = Assign(blockCache, hash, b)
      /\ store' = [blocks |-> Assign(store.blocks, hash, b), best |-> hash, height |-> n]
      /\ SaveToDisk(n, store')
      /\ accepted' = accepted \cup {<<hash, n>>}
      /\ height' = n
  BY DEF Commit
<1> HIDE DEF b, n, hash
<1>4. /\ DOMAIN store'.blocks = DOMAIN store.blocks \cup {hash}
      /\ store'.blocks[hash] = b
      /\ \A h \in DOMAIN store.blocks : h # hash => store'.blocks[h] = store.blocks[h]
      /\ store'.best = hash /\ store'.height = n
  BY <1>3 DEF Assign
<1>5. HoldsItsChain(store)'
  <2>1. \A h \in DOMAIN store'.blocks :
           store'.blocks[h].prev \in DOMAIN store'.blocks \cup {BlockHash(Genesis)}
    BY <1>1, <1>2, <1>4 DEF HoldsItsChain
  <2> QED
    BY <1>3, <1>4, <2>1 DEF HoldsItsChain
<1>6. DOMAIN store'.blocks = DOMAIN blockCache' \ {BlockHash(Genesis)}
  BY <1>1, <1>2, <1>3, <1>4 DEF Assign
<1>7. /\ HoldsItsChain(disk)'
      /\ disk'.height % SaveInterval = 0
      /\ DOMAIN disk'.blocks \subseteq DOMAIN store'.blocks
  <2>1. CASE disk' = disk
    BY <1>2, <1>3, <1>4, <2>1, ClosedStays DEF HoldsItsChain
  <2>2. CASE disk' = store' /\ n % SaveInterval = 0
    BY <1>4, <1>5, <2>2 DEF HoldsItsChain
  <2> QED
    BY <1>3, <2>1, <2>2 DEF SaveToDisk
<1> QED
  BY <1>3, <1>4, <1>5, <1>6, <1>7 DEF StoreIsClosed

\* Every step keeps the chain state closed.
LEMMA StepStore == StoreInv /\ [Next]_vars => StoreInv'
<1> SUFFICES ASSUME StoreInv, [Next]_vars PROVE StoreInv'
  OBVIOUS
<1>1. DepthInv /\ DepthInv' /\ TypeOK
  BY StepDepth DEF StoreInv, DepthInv
<1>2. ASSUME UNCHANGED <<chainVars, storeVars, historyVars>>
      PROVE  StoreInv'
  BY <1>1, <1>2 DEF StoreInv, StoreIsClosed, HoldsItsChain, chainVars, storeVars, historyVars
<1>3. ASSUME NEW t \in Thread, NEW b \in Block, NEW n \in Height, AddBlock(t, b, n)
      PROVE  StoreInv'
  BY <1>2, <1>3 DEF AddBlock
<1>4. ASSUME NEW t \in Thread, Step(t), ~Commit(t)
      PROVE  StoreInv'
  BY <1>1, <1>2, <1>4, InnerStep DEF KeepsCall
<1>5. ASSUME NEW t \in Thread, Commit(t)
      PROVE  StoreInv'
  BY <1>1, <1>5, CommitStore DEF StoreInv
<1>6. CASE UNCHANGED vars
  BY <1>2, <1>6 DEF vars
<1> QED
  BY <1>3, <1>4, <1>5, <1>6 DEF Next

\* StoreIsClosed: whatever the threads do between addBlock's two locks, the
\* chain state holds exactly the blocks of the cache but genesis, each with its
\* parent, and the file was a chain of its own when it was saved.
THEOREM StoreStaysClosed == Spec => []StoreIsClosed
<1>1. StoreInv => StoreIsClosed
  BY DEF StoreInv
<1> QED
  BY <1>1, InitStore, StepStore, PTL DEF Spec
=============================================================================
