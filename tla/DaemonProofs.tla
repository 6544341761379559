---------------------------- MODULE DaemonProofs ----------------------------
(***************************************************************************)
(* The daemon from one process to the next, for any number of threads,     *)
(* processes and blocks.  Four invariants carry the theorems:              *)
(*                                                                         *)
(*   StoreOK     while a save is under way, the file and what is yet to be *)
(*               written are together what saveToDisk set out to write;    *)
(*   KeepInv     the last block that was due is being saved, or saved;     *)
(*   HistoryInv  a process stores what it mines and builds on nothing      *)
(*               else, hashes tell its blocks apart, and the file holds a  *)
(*               chain that one of the processes had when it was written;  *)
(*   AskedInv    a process has mining threads if it was asked to mine.     *)
(*                                                                         *)
(* Blocks are compared by hash in the chain and by encoding in the file.   *)
(* That these agree takes the length of every encoding (BlockLength): a    *)
(* header can be read back from the front of a sequence only.              *)
(***************************************************************************)
EXTENDS Daemon, CodecProofs

-----------------------------------------------------------------------------
(* What is written, and what can be told from it.                          *)

\* A list with one element.
LEMMA ListOfOne ==
    ASSUME NEW x, 1 < COUNT_LIMIT
    PROVE  IsList(<<x>>)
<1> DEFINE list == <<x>>
           S == {list[i] : i \in DOMAIN list}
<1>1. DOMAIN list = 1..1 /\ list[1] = x /\ Len(list) = 1
  OBVIOUS
<1>2. x \in S
  <2> HIDE DEF list
  <2>1. 1 \in DOMAIN list
    BY <1>1
  <2> QED
    BY <1>1, <2>1
<1>3. list \in Seq(S)
  <2> HIDE DEF S
  <2> QED
    BY <1>2
<1> QED
  BY <1>1, <1>3 DEF IsList

\* A coinbase is a transaction.
LEMMA CoinbaseIsTransaction ==
    ASSUME NEW note, NEW amount
    PROVE  IsTransaction(CoinbaseTx(<<note>>, amount, Payout))
<1> DEFINE in == [prev |-> CoinbaseOutPoint, sig |-> <<note>>, pubkey |-> << >>]
           out == [amount |-> amount, script |-> PayToHash(Payout)]
<1>1. 1 < COUNT_LIMIT /\ COUNT_LIMIT \in Nat
  <2>1. BYTE \in Nat /\ BYTE > 3
    BY DifficultyConstants, CodecConstants
  <2>2. BYTE * BYTE \in Nat /\ BYTE * BYTE > 3
    BY <2>1
  <2>3. BYTE * BYTE * BYTE \in Nat /\ BYTE * BYTE * BYTE > 3
    BY <2>1, <2>2
  <2>4. BYTE \div 2 \in Nat /\ BYTE \div 2 > 0
    BY <2>1
  <2>5. (BYTE \div 2) * (BYTE * BYTE * BYTE) > 3 /\ (BYTE \div 2) * (BYTE * BYTE * BYTE) \in Nat
    BY <2>3, <2>4
  <2> QED
    BY <2>5 DEF COUNT_LIMIT, MANTISSA_UNIT
<1>2. IsInput(in)
  <2>1. IsList(<<note>>)
    BY <1>1, ListOfOne
  <2>2. IsList(<< >>)
    <3>1. << >> \in Seq({<< >>[i] : i \in DOMAIN << >>}) /\ Len(<< >>) = 0
      OBVIOUS
    <3>2. COUNT_LIMIT > 0
      BY <1>1
    <3> QED
      BY <3>1, <3>2 DEF IsList
  <2> QED
    BY <2>1, <2>2 DEF IsInput, CoinbaseOutPoint, OutPoint
<1>3. IsOutput(out)
  BY PooledAreTransactions DEF IsOutput
<1> HIDE DEF in, out
<1>4. IsList(<<in>>) /\ IsList(<<out>>)
  BY <1>1, ListOfOne
<1>5. CoinbaseTx(<<note>>, amount, Payout) = [inputs |-> <<in>>, outputs |-> <<out>>]
  BY DEF CoinbaseTx, in, out
<1> QED
  BY <1>2, <1>3, <1>4, <1>5 DEF IsTransaction

\* The blocks that threads commit are blocks of transactions.
LEMMA CommitsBlock ==
    ASSUME NEW n \in 1..MaxRuns, NEW now \in Seconds(n), NEW tip
    PROVE  IsBlock(NewBlock(tip, now))
<1> DEFINE height == tip.height + 1
           coinbase == CoinbaseTx(<<height>>, GetBlockSubsidy(height), Payout)
           pooled == Pooled(now)
           txs == <<coinbase>> \o pooled
<1>1. /\ IsList(pooled) /\ Len(pooled) + 1 < COUNT_LIMIT
      /\ \A i \in 1..Len(pooled) : IsTransaction(pooled[i])
  BY PooledAreTransactions
<1>2. IsTransaction(coinbase)
  BY CoinbaseIsTransaction
<1> HIDE DEF coinbase, pooled
<1>3. /\ Len(txs) = Len(pooled) + 1 /\ DOMAIN txs = 1..Len(txs)
      /\ \A i \in DOMAIN txs : IsTransaction(txs[i])
      /\ txs \in Seq({txs[i] : i \in DOMAIN txs})
  <2> DEFINE S == {pooled[i] : i \in DOMAIN pooled}
             T == {coinbase} \cup S
  <2>1. pooled \in Seq(S) /\ \A i \in DOMAIN pooled : i \in 1..Len(pooled)
    BY <1>1 DEF IsList
  <2>2. pooled \in Seq(T) /\ <<coinbase>> \in Seq(T)
    <3>1. S \subseteq T /\ coinbase \in T
      OBVIOUS
    <3> HIDE DEF S, T
    <3> QED
      BY <2>1, <3>1
  <2>3. /\ Len(txs) = Len(pooled) + 1 /\ DOMAIN txs = 1..Len(txs) /\ txs \in Seq(T)
        /\ txs[1] = coinbase /\ \A i \in 1..Len(pooled) : txs[i + 1] = pooled[i]
    <3> HIDE DEF S, T
    <3> QED
      BY <2>2
  <2>4. \A i \in DOMAIN txs : IsTransaction(txs[i])
    <3> TAKE i \in DOMAIN txs
    <3>1. i = 1 \/ (i - 1 \in 1..Len(pooled) /\ txs[i] = pooled[i - 1])
      BY <2>1, <2>3
    <3> QED
      BY <1>1, <1>2, <2>3, <3>1
  <2> HIDE DEF txs
  <2>5. txs \in Seq({txs[i] : i \in DOMAIN txs})
    BY <2>3
  <2> QED
    BY <2>3, <2>4, <2>5
<1>4. NewBlock(tip, now).txs = txs
  BY DEF NewBlock, coinbase, pooled
<1>5. IsList(txs)
  BY <1>1, <1>3 DEF IsList
<1> HIDE DEF txs
<1>6. LET block == NewBlock(tip, now)
      IN  block = [prev |-> block.prev, root |-> block.root, time |-> block.time,
                   bits |-> block.bits, nonce |-> block.nonce, txs |-> block.txs]
  BY DEF NewBlock
<1> QED
  BY <1>3, <1>4, <1>5, <1>6 DEF IsBlock

\* They can be written.
LEMMA BlockLength ==
    ASSUME NEW n \in 1..MaxRuns, NEW now \in Seconds(n), NEW tip
    PROVE  Len(WriteList(NewBlock(tip, now).txs, SerializeTransaction)) \in Nat
<1> DEFINE list == WriteList(NewBlock(tip, now).txs, SerializeTransaction)
<1>1. IsBlock(NewBlock(tip, now))
  BY CommitsBlock
<1>2. Len(<< >>) \in Nat /\ 1 \in Nat \ {0}
  OBVIOUS
<1>3. Len(list) \in Nat \ {0}
  BY <1>1, <1>2, ReadsTransactions, Zenon DEF IsBlock
<1> HIDE DEF list
<1>4. Len(list) \in Nat
  BY <1>3
<1> QED
  BY <1>4 DEF list

\* Encodings that are equal have equal headers, so that hashes are equal too.
LEMMA HeaderIsStored ==
    ASSUME NEW a, NEW b, SerializeBlock(a) = SerializeBlock(b),
           Len(WriteList(a.txs, SerializeTransaction)) \in Nat,
           Len(WriteList(b.txs, SerializeTransaction)) \in Nat
    PROVE  BlockHash(a) = BlockHash(b)
<1> DEFINE bodyA == WriteList(a.txs, SerializeTransaction)
           bodyB == WriteList(b.txs, SerializeTransaction)
           dataA == <<1, a.prev, a.root, a.time, a.bits, a.nonce>> \o bodyA
           dataB == <<1, b.prev, b.root, b.time, b.bits, b.nonce>> \o bodyB
<1>1. dataA = dataB
  BY DEF SerializeBlock
<1>2. Len(bodyA) \in Nat /\ Len(bodyB) \in Nat
  OBVIOUS
<1> HIDE DEF bodyA, bodyB
<1>3. /\ dataA[2] = a.prev /\ dataA[3] = a.root /\ dataA[4] = a.time
      /\ dataA[5] = a.bits /\ dataA[6] = a.nonce
  BY <1>2
<1>4. /\ dataB[2] = b.prev /\ dataB[3] = b.root /\ dataB[4] = b.time
      /\ dataB[5] = b.bits /\ dataB[6] = b.nonce
  BY <1>2
<1> QED
  BY <1>1, <1>3, <1>4 DEF BlockHash

-----------------------------------------------------------------------------
(* The file.                                                               *)

\* The fixed order of a finite set: every element once.
LEMMA OrderOfSet ==
    ASSUME NEW S, IsFiniteSet(S)
    PROVE  /\ Cardinality(S) \in Nat
           /\ Seqs!SetToSeq(S) \in Seq(S)
           /\ Len(Seqs!SetToSeq(S)) = Cardinality(S)
           /\ \A x \in S : \E i \in 1..Cardinality(S) : Seqs!SetToSeq(S)[i] = x
           /\ \A i, j \in 1..Cardinality(S) :
                 Seqs!SetToSeq(S)[i] = Seqs!SetToSeq(S)[j] => i = j
<1> DEFINE n == Cardinality(S)
           s == Seqs!SetToSeq(S)
<1>1. n \in Nat /\ ExistsBijection(1..n, S)
  BY FS_CardinalityType
<1>2. \E f \in [1..n -> S] : Seqs!IsInjective(f)
  BY <1>1 DEF ExistsBijection, Bijection, Injection, IsInjective, Seqs!IsInjective
<1>3. s \in [1..n -> S] /\ Seqs!IsInjective(s)
  <2>1. Seqs!Cardinality(S) = n
    BY DEF Seqs!Cardinality, Cardinality
  <2> QED
    BY <1>2, <2>1 DEF Seqs!SetToSeq
<1>4. s \in Injection(1..n, S)
  BY <1>3 DEF Injection, IsInjective, Seqs!IsInjective
<1>5. IsFiniteSet(1..n) /\ Cardinality(1..n) = n
  BY <1>1, FS_Interval
<1> HIDE DEF s, n
<1>6. s \in Surjection(1..n, S)
  <2>1. Cardinality(S) = n
    BY DEF n
  <2> QED
    BY <1>4, <1>5, <2>1, FS_Injection
<1>7. \A x \in S : \E i \in 1..n : s[i] = x
  BY <1>6 DEF Surjection
<1>8. s \in Seq(S) /\ Len(s) = n
  BY <1>1, <1>3
<1>9. \A i, j \in 1..n : s[i] = s[j] => i = j
  BY <1>3 DEF Seqs!IsInjective
<1> QED
  BY <1>1, <1>7, <1>8, <1>9 DEF n, s

\* A chain state: finitely many blocks, and a best one.
IsStore(stored, tip) ==
    /\ stored = [h \in DOMAIN stored |-> stored[h]]
    /\ IsFiniteSet(DOMAIN stored)
    /\ tip = [hash |-> tip.hash, height |-> tip.height]

Items(stored, tip) ==
    {FileOf(stored, tip)[i] : i \in 1..(5 + 2 * Cardinality(DOMAIN stored))}

\* What saveToDisk writes, item by item.
LEMMA FileItems ==
    ASSUME NEW stored, NEW tip, IsStore(stored, tip)
    PROVE  LET whole == FileOf(stored, tip)
               n     == Cardinality(DOMAIN stored)
               order == Seqs!SetToSeq(DOMAIN stored)
           IN  /\ n \in Nat
               /\ whole \in Seq(Items(stored, tip))
               /\ Len(whole) = 5 + 2 * n
               /\ whole[1] = "SHWN" /\ whole[2] = 1 /\ whole[3] = n
               /\ whole[4] = tip.hash /\ whole[5] = tip.height
               /\ \A i \in 1..n : whole[5 + 2 * i] = stored[order[i]]
<1> DEFINE whole == FileOf(stored, tip)
           n == Cardinality(DOMAIN stored)
           order == Seqs!SetToSeq(DOMAIN stored)
           item(i) == IF i % 2 = 1 THEN Len(stored[order[(i + 1) \div 2]])
                      ELSE stored[order[i \div 2]]
           head == <<"SHWN", 1, n, tip.hash, tip.height>>
           rest == [i \in 1..(2 * n) |-> item(i)]
           Cell == {"SHWN", 1, n, tip.hash, tip.height} \cup {item(i) : i \in 1..(2 * n)}
<1>1. n \in Nat /\ Len(order) = n
  BY OrderOfSet DEF IsStore
<1>2. whole = head \o rest
  BY <1>1 DEF FileOf
<1> HIDE DEF whole, n, order
<1>3. head \in Seq(Cell) /\ Len(head) = 5
  OBVIOUS
<1>4. rest \in Seq(Cell) /\ Len(rest) = 2 * n
  <2> HIDE DEF item
  <2> QED
    BY <1>1
<1>5. \A i \in 1..n : rest[2 * i] = stored[order[i]]
  <2> TAKE i \in 1..n
  <2>1. 2 * i \in 1..(2 * n) /\ (2 * i) % 2 = 0 /\ (2 * i) \div 2 = i
    BY <1>1
  <2>2. rest[2 * i] = item(2 * i)
    <3> HIDE DEF item
    <3> QED
      BY <2>1
  <2>3. item(2 * i) = stored[order[(2 * i) \div 2]]
    BY <2>1
  <2> QED
    BY <2>1, <2>2, <2>3
<1>6. head[1] = "SHWN" /\ head[2] = 1 /\ head[3] = n /\ head[4] = tip.hash /\ head[5] = tip.height
  OBVIOUS
<1> HIDE DEF head, rest, Cell
<1>7. /\ whole \in Seq(Cell)
      /\ Len(whole) = 5 + 2 * n
      /\ \A i \in 1..(5 + 2 * n) : whole[i] = IF i <= 5 THEN head[i] ELSE rest[i - 5]
  <2>1. /\ head \o rest \in Seq(Cell)
        /\ Len(head \o rest) = Len(head) + Len(rest)
        /\ \A i \in 1..Len(head) + Len(rest) : (head \o rest)[i] =
              IF i <= Len(head) THEN head[i] ELSE rest[i - Len(head)]
    BY <1>3, <1>4, ConcatProperties
  <2> QED
    BY <1>1, <1>2, <1>3, <1>4, <2>1
<1>8. whole \in Seq(Items(stored, tip))
  <2>1. whole \in Seq({whole[i] : i \in 1..(5 + 2 * n)})
    BY <1>1, <1>7
  <2> QED
    BY <2>1, Zenon DEF Items, whole, n
<1>9. \A i \in 1..n : whole[5 + 2 * i] = stored[order[i]]
  <2> TAKE i \in 1..n
  <2>1. 5 + 2 * i \in 1..(5 + 2 * n) /\ ~(5 + 2 * i <= 5) /\ 5 + 2 * i - 5 = 2 * i
    BY <1>1
  <2> QED
    BY <1>5, <1>7, <2>1
<1> QED
  BY <1>1, <1>6, <1>7, <1>8, <1>9 DEF whole, n, order

\* What makes a reader content.
LEMMA ReaderOk ==
    ASSUME NEW f, Len(f) \in Nat
    PROVE  Reader(f).ok <=> /\ Len(f) >= 5 /\ f[1] = "SHWN" /\ f[2] = 1
                            /\ CompleteBlocks(f) = f[3]
<1>1. CASE Len(f) < 3 \/ f[1] # "SHWN" \/ f[2] # 1
  BY <1>1 DEF Reader, LoadFromDisk
<1>2. CASE ~(Len(f) < 3 \/ f[1] # "SHWN" \/ f[2] # 1) /\ Len(f) < 5
  BY <1>2 DEF Reader, LoadFromDisk
<1>3. CASE ~(Len(f) < 3 \/ f[1] # "SHWN" \/ f[2] # 1) /\ ~(Len(f) < 5)
  <2>1. Reader(f).ok <=> CompleteBlocks(f) = f[3]
    BY <1>3, Zenon DEF Reader, LoadFromDisk
  <2> QED
    BY <1>3, <2>1
<1> QED
  BY <1>1, <1>2, <1>3

\* A save that was cut short is noticed, wherever it was cut.
LEMMA PartIsRefused ==
    ASSUME NEW stored, NEW tip, IsStore(stored, tip),
           NEW k \in 0..(Len(FileOf(stored, tip)) - 1)
    PROVE  /\ Len(SubSeq(FileOf(stored, tip), 1, k)) = k
           /\ ~Reader(SubSeq(FileOf(stored, tip), 1, k)).ok
<1> DEFINE whole == FileOf(stored, tip)
           n == Cardinality(DOMAIN stored)
           part == SubSeq(whole, 1, k)
<1>1. /\ n \in Nat
      /\ whole \in Seq(Items(stored, tip))
      /\ Len(whole) = 5 + 2 * n
      /\ whole[3] = n
  BY FileItems
<1> HIDE DEF whole, n
<1>2. k \in Nat /\ k < 5 + 2 * n
  BY <1>1 DEF whole
<1>3. Len(part) = k /\ \A i \in 1..k : part[i] = whole[i]
  BY <1>1, <1>2
<1>4. ASSUME k >= 5, CompleteBlocks(part) = part[3]
      PROVE  FALSE
  <2>1. part[3] = n
    BY <1>1, <1>2, <1>3, <1>4
  <2>2. (k - 5) \div 2 < n
    BY <1>1, <1>2, <1>4
  <2> QED
    BY <1>1, <1>2, <1>3, <1>4, <2>1, <2>2 DEF CompleteBlocks, AtMost
<1>5. ~Reader(part).ok
  <2> HIDE DEF part
  <2> QED
    BY <1>2, <1>3, <1>4, ReaderOk
<1> QED
  BY <1>3, <1>5 DEF whole

\* A save that ended is read back as it was.
LEMMA WholeIsRead ==
    ASSUME NEW stored, NEW tip, IsStore(stored, tip)
    PROVE  LET read == Reader(FileOf(stored, tip))
           IN  /\ read.ok
               /\ Contents(read.blocks, read.best) = Contents(stored, tip)
<1> DEFINE whole == FileOf(stored, tip)
           n == Cardinality(DOMAIN stored)
           order == Seqs!SetToSeq(DOMAIN stored)
           read == Reader(whole)
           keys == [i \in 1..Len(whole) |-> i]
           LastUnder(key) == CHOOSE i \in 1..n :
               keys[i] = key /\ \A j \in (i + 1)..n : keys[j] # key
<1>1. /\ n \in Nat
      /\ Len(whole) = 5 + 2 * n
      /\ whole[1] = "SHWN" /\ whole[2] = 1 /\ whole[3] = n
      /\ whole[4] = tip.hash /\ whole[5] = tip.height
      /\ \A i \in 1..n : whole[5 + 2 * i] = stored[order[i]]
  BY FileItems
<1>2. order \in [1..n -> DOMAIN stored] /\ \A h \in DOMAIN stored : \E i \in 1..n : order[i] = h
  BY OrderOfSet DEF IsStore
<1> HIDE DEF whole, n, order
<1>3. CompleteBlocks(whole) = n
  <2>1. (5 + 2 * n - 5) \div 2 = n
    BY <1>1
  <2> QED
    BY <1>1, <2>1 DEF CompleteBlocks, AtMost
<1>4. read.ok
  BY <1>1, <1>3, ReaderOk
<1>5. /\ read.blocks = [key \in {keys[i] : i \in 1..n} |-> whole[5 + 2 * LastUnder(key)]]
      /\ read.best = [hash |-> whole[4], height |-> whole[5]]
  BY <1>1, <1>3 DEF Reader, LoadFromDisk
<1>6. \A i \in 1..n : keys[i] = i
  BY <1>1
<1>7. {keys[i] : i \in 1..n} = 1..n
  BY <1>6
<1>8. \A key \in 1..n : LastUnder(key) = key
  <2> TAKE key \in 1..n
  <2>1. keys[key] = key /\ \A j \in (key + 1)..n : keys[j] # key
    BY <1>1, <1>6
  <2>2. \A i \in 1..n : keys[i] = key => i = key
    BY <1>6
  <2> HIDE DEF keys
  <2> QED
    BY <2>1, <2>2
<1>9. read.blocks = [key \in 1..n |-> stored[order[key]]]
  <2>1. \A key \in 1..n : whole[5 + 2 * LastUnder(key)] = stored[order[key]]
    BY <1>1, <1>8
  <2> HIDE DEF LastUnder, keys
  <2> QED
    BY <1>5, <1>7, <2>1
<1>10. {read.blocks[k] : k \in DOMAIN read.blocks} = {stored[k] : k \in DOMAIN stored}
  <2> HIDE DEF read
  <2> QED
    BY <1>2, <1>9
<1>11. read.best = tip
  <2>1. read.best = [hash |-> tip.hash, height |-> tip.height]
    BY <1>1, <1>5
  <2> HIDE DEF read
  <2> QED
    BY <2>1 DEF IsStore
<1> QED
  BY <1>4, <1>10, <1>11 DEF Contents, read, whole

-----------------------------------------------------------------------------
(* The store from one step to the next.                                    *)

\* While a save is under way, the file is the beginning of what it writes, up to
\* the first lost item, and unsaved is the rest.
Writing(whole) ==
    \E k \in 0..(Len(whole) - 1) : \E j \in 0..k :
        /\ file = SubSeq(whole, 1, j)
        /\ unsaved = SubSeq(whole, k + 1, Len(whole))
        /\ gap \/ j = k

StoreOK ==
    /\ IsStore(blocks, best)
    /\ Saving => Writing(FileOf(blocks, best))

LEMMA EmptyStore == IsStore(NoBlocks, NoBest)
<1>1. DOMAIN NoBlocks = {}
  BY DEF NoBlocks
<1>2. NoBlocks = [h \in DOMAIN NoBlocks |-> NoBlocks[h]]
  BY DEF NoBlocks
<1>3. NoBest = [hash |-> NoBest.hash, height |-> NoBest.height]
  BY DEF NoBest
<1> QED
  BY <1>1, <1>2, <1>3, FS_EmptySet DEF IsStore

LEMMA InitialStore == StoreInit => StoreOK
BY EmptyStore DEF StoreInit, StoreOK, Saving

LEMMA NewStoreStep == NewStore => StoreOK'
BY EmptyStore DEF NewStore, StoreOK, Saving

\* putBlock adds a block; a save begins with an empty file and all to write.
LEMMA StoreBlockStep ==
    ASSUME StoreOK, NEW hash, NEW block, NEW height, NEW due,
           StoreBlock(hash, block, height, due)
    PROVE  /\ StoreOK'
           /\ Saving' => file' = << >> /\ due
           /\ ~Saving' => file' = file
<1> DEFINE stored == Assign(blocks, hash, SerializeBlock(block))
           tip == [hash |-> hash, height |-> height]
           whole == FileOf(stored, tip)
<1>1. ~Saving /\ blocks' = stored /\ best' = tip
  BY DEF StoreBlock
<1>2. IsStore(stored, tip)
  <2>1. DOMAIN stored = DOMAIN blocks \cup {hash} /\ stored = [h \in DOMAIN stored |-> stored[h]]
    BY DEF Assign
  <2>2. IsFiniteSet(DOMAIN stored)
    BY <2>1, FS_AddElement DEF StoreOK, IsStore
  <2> QED
    BY <2>1, <2>2 DEF IsStore
<1> HIDE DEF stored, tip
<1>3. \/ due /\ file' = << >> /\ unsaved' = whole
      \/ file' = file /\ unsaved' = << >>
  <2>1. IF due THEN BeginSave(stored, tip) ELSE UNCHANGED <<file, gap, unsaved>>
    BY <1>1 DEF StoreBlock, stored, tip
  <2> QED
    BY <1>1, <2>1 DEF BeginSave, Saving
<1>4. /\ Len(whole) \in Nat /\ Len(whole) > 0
      /\ whole = SubSeq(whole, 1, Len(whole))
      /\ << >> = SubSeq(whole, 1, 0)
  <2> DEFINE n == Cardinality(DOMAIN stored)
  <2>1. n \in Nat /\ whole \in Seq(Items(stored, tip)) /\ Len(whole) = 5 + 2 * n
    BY <1>2, FileItems
  <2> HIDE DEF whole, n
  <2> QED
    BY <2>1, SubSeqFull, SubSeqEmpty
<1>5. whole # << >>
  BY <1>4
<1>6. CASE due /\ file' = << >> /\ unsaved' = whole
  <2>1. file' = SubSeq(whole, 1, 0) /\ unsaved' = SubSeq(whole, 0 + 1, Len(whole))
    BY <1>4, <1>6
  <2>2. Saving' /\ 0 \in 0..(Len(whole) - 1) /\ 0 \in 0..0
    BY <1>4, <1>5, <1>6 DEF Saving
  <2>3. \E k \in 0..(Len(whole) - 1) : \E j \in 0..k :
           /\ file' = SubSeq(whole, 1, j)
           /\ unsaved' = SubSeq(whole, k + 1, Len(whole))
           /\ gap' \/ j = k
    <3> HIDE DEF whole
    <3> QED
      BY <2>1, <2>2
  <2>4. FileOf(blocks, best)' = whole
    BY <1>1
  <2>5. Writing(FileOf(blocks, best))'
    <3> HIDE DEF whole
    <3> QED
      BY <2>3, <2>4 DEF Writing
  <2> QED
    BY <1>1, <1>2, <1>6, <2>2, <2>5 DEF StoreOK
<1>7. CASE file' = file /\ unsaved' = << >>
  BY <1>1, <1>2, <1>7 DEF StoreOK, Saving
<1> QED
  BY <1>3, <1>6, <1>7

\* A save writes its next item or loses it; only a save that lost none makes a
\* file that a reader accepts, with its last item.
LEMMA WriteItemStep ==
    ASSUME StoreOK, WriteItem
    PROVE  /\ StoreOK'
           /\ ~Reader(file).ok
           /\ \/ ~Reader(file').ok /\ (Saving' \/ gap')
              \/ ~Saving' /\ file' = FileOf(blocks, best)
<1> DEFINE whole == FileOf(blocks, best)
           n == Cardinality(DOMAIN blocks)
           S == Items(blocks, best)
<1>1. /\ IsStore(blocks, best) /\ Saving
      /\ UNCHANGED <<blocks, best>>
      /\ unsaved' = Tail(unsaved)
      /\ \/ gap' /\ file' = file
         \/ ~gap /\ ~gap' /\ file' = Append(file, Head(unsaved))
  BY DEF StoreOK, WriteItem
<1>2. n \in Nat /\ whole \in Seq(S) /\ Len(whole) = 5 + 2 * n
  <2>1. IsStore(blocks, best)
    BY <1>1
  <2> QED
    BY <2>1, FileItems
<1>3. PICK k \in 0..(Len(whole) - 1) : \E j \in 0..k :
         /\ file = SubSeq(whole, 1, j)
         /\ unsaved = SubSeq(whole, k + 1, Len(whole))
         /\ gap \/ j = k
  BY <1>1 DEF StoreOK, Writing
<1>4. PICK j \in 0..k :
         /\ file = SubSeq(whole, 1, j)
         /\ unsaved = SubSeq(whole, k + 1, Len(whole))
         /\ gap \/ j = k
  BY <1>3
<1>5. ~Reader(file).ok
  <2>1. j \in 0..(Len(whole) - 1)
    BY <1>2, <1>4
  <2> QED
    BY <1>1, <1>4, <2>1, PartIsRefused
<1>6. ASSUME k + 1 < Len(whole)
      PROVE  ~Reader(SubSeq(whole, 1, k + 1)).ok
  <2>1. k + 1 \in 0..(Len(whole) - 1)
    BY <1>2, <1>6
  <2> QED
    BY <1>1, <2>1, PartIsRefused
<1> HIDE DEF whole, S, n
<1>7. /\ unsaved' = SubSeq(whole, k + 2, Len(whole))
      /\ Append(SubSeq(whole, 1, k), Head(unsaved)) = SubSeq(whole, 1, k + 1)
  <2>1. /\ k + 1 \in 1..Len(whole) /\ Len(whole) \in (k + 1)..Len(whole)
        /\ 1 \in 1..Len(whole) /\ k + 1 \in 1..Len(whole) /\ k + 1 - 1 = k
        /\ k + 1 + 1 = k + 2
    BY <1>2
  <2>2. Head(unsaved) = whole[k + 1] /\ Tail(unsaved) = SubSeq(whole, k + 2, Len(whole))
    BY <1>2, <1>4, <2>1, HeadTailOfSubSeq
  <2>3. SubSeq(whole, 1, k + 1) = SubSeq(whole, 1, k) \o <<whole[k + 1]>>
    BY <1>2, <2>1, SubSeqRecursiveSecond
  <2>4. SubSeq(whole, 1, k) \in Seq(S) /\ whole[k + 1] \in S
    BY <1>2, <2>1, SubSeqProperties
  <2>5. Append(SubSeq(whole, 1, k), whole[k + 1]) = SubSeq(whole, 1, k) \o <<whole[k + 1]>>
    BY <2>4, AppendIsConcat
  <2> QED
    BY <1>1, <2>2, <2>3, <2>5
\* The file goes on to end where it did, or ends with the next item.
<1>8. \E i \in 0..(k + 1) : file' = SubSeq(whole, 1, i) /\ (gap' \/ i = k + 1)
  <2>1. CASE gap' /\ file' = file
    <3>1. j \in 0..(k + 1)
      OBVIOUS
    <3> QED
      BY <1>4, <2>1, <3>1
  <2>2. CASE ~gap /\ file' = Append(file, Head(unsaved))
    <3>1. j = k /\ file = SubSeq(whole, 1, k)
      BY <1>4, <2>2
    <3>2. file' = SubSeq(whole, 1, k + 1)
      BY <1>7, <2>2, <3>1
    <3>3. k + 1 \in 0..(k + 1)
      OBVIOUS
    <3> QED
      BY <3>2, <3>3
  <2> QED
    BY <1>1, <2>1, <2>2
<1>9. CASE k + 1 < Len(whole)
  <2>1. /\ k + 1 \in 0..(Len(whole) - 1) /\ k + 1 + 1 = k + 2
        /\ Len(SubSeq(whole, k + 2, Len(whole))) > 0
    BY <1>2, <1>9
  <2>2. Saving'
    <3>1. Len(unsaved') > 0
      BY <1>7, <2>1
    <3> QED
      BY <3>1 DEF Saving
  <2>3. unsaved' = SubSeq(whole, (k + 1) + 1, Len(whole))
    BY <1>7, <2>1
  <2>4. Writing(whole)'
    BY <1>1, <1>8, <2>1, <2>3 DEF Writing, whole
  <2>5. StoreOK'
    BY <1>1, <2>4 DEF StoreOK, whole
  <2>6. ~Reader(file').ok
    <3>1. CASE file' = file
      BY <1>5, <3>1
    <3>2. CASE file' = SubSeq(whole, 1, k + 1)
      BY <1>6, <1>9, <3>2
    <3> QED
      BY <1>1, <1>4, <1>7, <3>1, <3>2
  <2> QED
    BY <1>5, <2>2, <2>5, <2>6
<1>10. CASE k + 1 = Len(whole)
  <2>1. unsaved' = << >>
    BY <1>2, <1>7, <1>10, SubSeqEmpty
  <2>2. StoreOK' /\ ~Saving'
    BY <1>1, <2>1 DEF StoreOK, Saving
  <2>3. CASE gap' /\ file' = file
    BY <1>5, <2>2, <2>3
  <2>4. CASE ~gap /\ file' = Append(file, Head(unsaved))
    <3>1. file' = whole
      BY <1>2, <1>4, <1>7, <1>10, <2>4, SubSeqFull
    <3> QED
      BY <1>5, <2>2, <3>1 DEF whole
  <2> QED
    BY <1>1, <2>3, <2>4
<1> QED
  BY <1>2, <1>9, <1>10

-----------------------------------------------------------------------------
(* Steps that leave the store and the history alone.                       *)

\* main, the logger and the signal.
Aside == MainStep \/ (\E u \in Actor : TakeLogger(u) \/ Signal(u)) \/ Handle

LEMMA AsideIsQuiet ==
    ASSUME Aside
    PROVE  /\ UNCHANGED <<storeVars, historyVars, launch, work, runs>>
           /\ phase' # "off" => phase # "off"
           /\ phase' # "off" \/ exit' = "clean" => phase # "off" \/ exit = "clean"
<1>1. CASE MainStep
  BY <1>1 DEF MainStep, MainLogged, SpawnFails, Unwind, Poll, Summarize, Goes
<1>2. CASE \E u \in Actor : TakeLogger(u) \/ Signal(u)
  BY <1>2 DEF TakeLogger, Signal
<1>3. CASE Handle
  BY <1>3 DEF Handle
<1> QED
  BY <1>1, <1>2, <1>3 DEF Aside

\* The steps of a thread that do not commit or save.
Wander(t) == LoadFlag(t) \/ Admit(t) \/ Report(t)

LEMMA WanderIsQuiet ==
    ASSUME NEW t, Wander(t)
    PROVE  /\ UNCHANGED <<storeVars, historyVars, phase, launch, signal, summary, exit, runs>>
           /\ phase # "off"
           /\ work[t].pc \in {"loop", "search", "report"}
           /\ \/ \E pc \in {"search", "loop"} : work' = [work EXCEPT ![t].pc = pc]
              \/ work' = [work EXCEPT ![t] = Off] /\ ~Mining
              \/ Tip.height < MaxHeight /\ work' = [work EXCEPT ![t] = [pc |-> "admitted", tip |-> Tip]]
           /\ holder' \in {holder, "nobody"}
BY Zenon DEF Wander, LoadFlag, Admit, Report, Goes, In

LEMMA Steps ==
    DaemonNext => \/ \E l \in LaunchSet(runs + 1) : Launch(l)
                  \/ \E t \in Thread : Wander(t) \/ Commit(t) \/ SaveItem(t)
                  \/ Aside
                  \/ Crash
BY DEF DaemonNext, ThreadStep, Wander, Aside

\* What the steps of a daemon are to its store.
LEMMA StoreSteps ==
    ASSUME [DaemonNext]_daemonVars
    PROVE  \/ NewStore
           \/ \E hash, block, height, due : StoreBlock(hash, block, height, due)
           \/ WriteItem
           \/ UNCHANGED storeVars
<1>1. ASSUME NEW l, Launch(l)
      PROVE  NewStore
  BY <1>1 DEF Launch
<1>2. ASSUME NEW t, Wander(t)
      PROVE  UNCHANGED storeVars
  BY <1>2, WanderIsQuiet
<1>3. ASSUME NEW t, Commit(t)
      PROVE  \E hash, block, height, due : StoreBlock(hash, block, height, due)
  BY <1>3 DEF Commit, CommitBlock
<1>4. ASSUME NEW t, SaveItem(t)
      PROVE  WriteItem
  BY <1>4 DEF SaveItem
<1>5. CASE Aside
  BY <1>5, AsideIsQuiet
<1>6. CASE Crash
  BY <1>6 DEF Crash
<1>7. CASE UNCHANGED daemonVars
  BY <1>7 DEF daemonVars
<1> QED
  BY <1>1, <1>2, <1>3, <1>4, <1>5, <1>6, <1>7, Steps

LEMMA StoreQuiet ==
    ASSUME StoreOK, UNCHANGED storeVars
    PROVE  StoreOK'
BY DEF storeVars, StoreOK, Saving, Writing

LEMMA StoreStep == StoreOK /\ [DaemonNext]_daemonVars => StoreOK'
<1> SUFFICES ASSUME StoreOK, [DaemonNext]_daemonVars
             PROVE  StoreOK'
  OBVIOUS
<1> QED
  BY StoreSteps, NewStoreStep, StoreBlockStep, WriteItemStep, StoreQuiet

LEMMA StoreInvariant == DaemonSpec => []StoreOK
<1>1. DaemonInit => StoreOK
  BY InitialStore DEF DaemonInit
<1> QED
  BY <1>1, StoreStep, PTL DEF DaemonSpec

-----------------------------------------------------------------------------
(* The snapshot.                                                           *)

Held == Contents(blocks, best)

Found == IF Reader(file).ok THEN {Contents(Reader(file).blocks, Reader(file).best)} ELSE {}

snapshot == <<Held, Found, Saving>>

LEMMA SnapshotInitially == DaemonInit => Snap!SnapshotInit
<1> SUFFICES ASSUME DaemonInit PROVE Snap!SnapshotInit
  OBVIOUS
<1>1. blocks = NoBlocks /\ best = NoBest /\ file = << >> /\ unsaved = << >>
  BY DEF DaemonInit, StoreInit
<1>2. ~Reader(<< >>).ok
  BY ReaderOk
<1> QED
  BY <1>1, <1>2 DEF Snap!SnapshotInit, Saving

LEMMA SnapshotStep ==
    StoreOK /\ [DaemonNext]_daemonVars
        => [Snap!SnapshotNext]_snapshot
<1> SUFFICES ASSUME StoreOK, [DaemonNext]_daemonVars
             PROVE  Snap!SnapshotNext \/ UNCHANGED snapshot
  OBVIOUS
<1> USE DEF Held, Found, snapshot
<1>1. CASE NewStore
  <2>1. blocks' = NoBlocks /\ best' = NoBest /\ file' = file /\ unsaved' = << >>
    BY <1>1 DEF NewStore
  <2>2. Snap!Restart
    BY <2>1 DEF Snap!Restart, Saving
  <2> QED
    BY <2>2 DEF Snap!SnapshotNext
<1>2. ASSUME NEW hash, NEW block, NEW height, NEW due, StoreBlock(hash, block, height, due)
      PROVE  Snap!SnapshotNext
  <2>1. ~Saving
    BY <1>2 DEF StoreBlock
  <2>2. Saving' => file' = << >>
    BY <1>2, StoreBlockStep
  <2>3. ~Saving' => file' = file
    BY <1>2, StoreBlockStep
  <2>4. ~Reader(<< >>).ok
    BY ReaderOk
  <2>5. Saving' => Found' = {}
    BY <2>2, <2>4
  <2>6. ~Saving' => Found' = Found
    BY <2>3
  <2>7. Saving' => Saving' = TRUE
    BY DEF Saving
  <2>8. ~Saving' => Saving' = Saving
    BY <2>1 DEF Saving
  <2>9. Snap!Change
    BY <2>1, <2>5, <2>6, <2>7, <2>8, Zenon DEF Snap!Change
  <2> QED
    BY <2>9 DEF Snap!SnapshotNext
<1>3. CASE WriteItem
  <2>1. Saving /\ UNCHANGED <<blocks, best>> /\ ~Reader(file).ok
    BY <1>3, WriteItemStep DEF WriteItem
  <2>2. IsStore(blocks, best)
    BY DEF StoreOK
  <2>3. CASE Saving' /\ ~Reader(file').ok
    BY <2>1, <2>3
  <2>4. CASE ~Saving' /\ file' = FileOf(blocks, best)
    <3>1. Found' = {Held}
      BY <2>2, <2>4, WholeIsRead
    <3>2. Snap!EndSave
      BY <2>1, <2>4, <3>1 DEF Snap!EndSave
    <3> QED
      BY <3>2 DEF Snap!SnapshotNext
  <2>5. CASE ~Saving' /\ ~Reader(file').ok
    <3>1. Found' = {}
      BY <2>5
    <3>2. Snap!EndSave
      BY <2>1, <2>5, <3>1 DEF Snap!EndSave
    <3> QED
      BY <3>2 DEF Snap!SnapshotNext
  <2> QED
    BY <1>3, <2>3, <2>4, <2>5, WriteItemStep
<1>4. CASE UNCHANGED storeVars
  BY <1>4 DEF storeVars, Saving
<1> QED
  BY <1>1, <1>2, <1>3, <1>4, StoreSteps

\* ImplementsSnapshot: whatever crashes, and whenever, a reader of blockchain.dat
\* finds nothing or all that the store held when saveToDisk was called.
THEOREM SaveImplementsSnapshot == DaemonSpec => ImplementsSnapshot
BY SnapshotInitially, SnapshotStep, StoreInvariant, PTL
   DEF DaemonSpec, ImplementsSnapshot, Snap!SnapshotSpec, Snap!snapshotVars, snapshot, Held, Found

-----------------------------------------------------------------------------
(* What every process keeps to, and what a commit does.                    *)

Genesis0 == [hash |-> BlockHash(Genesis), height |-> 0]

DaemonTypes ==
    /\ StorageTypeOK
    /\ runs \in 0..MaxRuns
    /\ phase # "off" => runs > 0
    /\ phase \notin {"off", "leaving"} => exit = "none"
    /\ work = [t \in Thread |-> [pc |-> work[t].pc, tip |-> work[t].tip]]
    /\ \A t \in Thread : In(t, "admitted") => work[t].tip.height \in 0..(MaxHeight - 1)
    /\ mined = [r \in 1..MaxRuns |-> mined[r]]
    /\ holder = "main" => HasToLog("main")

\* The block that thread t commits at a second, and its place in the history.
Committed(t, now) ==
    [block |-> NewBlock(work[t].tip, now), height |-> work[t].tip.height + 1]

LEMMA CommitEffect ==
    ASSUME DaemonTypes, NEW t \in Thread, Commit(t)
    PROVE  /\ runs \in 1..MaxRuns /\ phase # "off" /\ ~Saving
           /\ work[t].tip.height \in 0..(MaxHeight - 1)
           /\ UNCHANGED <<phase, launch, holder, signal, summary, exit, runs>>
           /\ \E now \in Seconds(runs) :
                 LET m    == Committed(t, now)
                     hash == BlockHash(m.block)
                     due  == m.height % SaveInterval = 0
                 IN  /\ StoreBlock(hash, m.block, m.height, due)
                     /\ blocks' = Assign(blocks, hash, SerializeBlock(m.block))
                     /\ best' = [hash |-> hash, height |-> m.height]
                     /\ mined' = [r \in 1..MaxRuns |->
                                     IF r = runs THEN mined[r] \cup {m} ELSE mined[r]]
                     /\ ~missed' => ~missed /\ (due => unsaved' # << >>)
           /\ work[t].pc = "admitted"
           /\ work'[t].pc = IF Saving' THEN "saving" ELSE "report"
           /\ \A u \in Thread : u # t => work'[u] = work[u]
           /\ work' = [u \in Thread |-> [pc |-> work'[u].pc, tip |-> work'[u].tip]]
<1>1. phase # "off" /\ runs \in 1..MaxRuns /\ ~Saving
  <2>1. phase # "off" /\ ~Saving
    BY DEF Commit, CommitBlock, StoreBlock, Goes
  <2> QED
    BY <2>1, DaemonConstants DEF DaemonTypes
<1>2. work[t].tip.height \in 0..(MaxHeight - 1)
  BY DEF DaemonTypes, Commit
<1>3. PICK now \in Seconds(runs) :
         LET block  == NewBlock(work[t].tip, now)
             height == work[t].tip.height + 1
             due    == height % SaveInterval = 0
         IN  /\ StoreBlock(BlockHash(block), block, height, due)
             /\ mined' = [mined EXCEPT ![runs] = @ \cup {[block |-> block, height |-> height]}]
             /\ missed' = (missed \/ (due /\ unsaved' = << >>))
  BY DEF Commit, CommitBlock
<1> DEFINE m == Committed(t, now)
           hash == BlockHash(m.block)
           due == m.height % SaveInterval = 0
<1>4. m.block = NewBlock(work[t].tip, now) /\ m.height = work[t].tip.height + 1
  BY DEF Committed
<1>5. m = [block |-> m.block, height |-> m.height]
  BY DEF Committed
<1> HIDE DEF m
<1>6. StoreBlock(hash, m.block, m.height, due)
  BY <1>3, <1>4, Zenon
<1>7. /\ blocks' = Assign(blocks, hash, SerializeBlock(m.block))
      /\ best' = [hash |-> hash, height |-> m.height]
  BY <1>6 DEF StoreBlock
<1>8. mined' = [r \in 1..MaxRuns |-> IF r = runs THEN mined[r] \cup {m} ELSE mined[r]]
  <2>1. mined' = [mined EXCEPT ![runs] = mined[runs] \cup {m}]
    BY <1>3, <1>4, <1>5, Zenon
  <2> QED
    BY <1>1, <2>1 DEF DaemonTypes
<1>9. ~missed' => ~missed /\ (due => unsaved' # << >>)
  BY <1>3, <1>4, Zenon
<1>10. /\ work[t].pc = "admitted"
       /\ work'[t].pc = IF Saving' THEN "saving" ELSE "report"
       /\ \A u \in Thread : u # t => work'[u] = work[u]
       /\ work' = [u \in Thread |-> [pc |-> work'[u].pc, tip |-> work'[u].tip]]
  BY DEF Commit, DaemonTypes, Off, In, Saving
<1>11. UNCHANGED <<phase, launch, holder, signal, summary, exit, runs>>
  BY DEF Commit
<1> QED
  BY <1>1, <1>2, <1>6, <1>7, <1>8, <1>9, <1>10, <1>11, Zenon DEF m

LEMMA InitialTypes == DaemonInit => DaemonTypes
BY DaemonConstants
   DEF DaemonInit, StoreInit, DaemonTypes, StorageTypeOK, Everyone, In, Off, Places, Phases,
       NoBest, Saving, Actor

\* A process starts, or is killed.
LEMMA LaunchTypes ==
    ASSUME DaemonTypes, NEW l, Launch(l)
    PROVE  DaemonTypes'
<1> USE DaemonConstants DEF DaemonTypes, In
<1>1. /\ phase = "off" /\ runs < MaxRuns /\ runs' = runs + 1
      /\ NewStore
      /\ UNCHANGED <<holder, signal, summary, mined>>
  BY DEF Launch
<1>2. best'.height = 0 /\ ~Saving'
  BY <1>1 DEF NewStore, NoBest, Saving
<1>3. holder' # "main"
  BY <1>1 DEF HasToLog, NextPhase
<1>4. /\ runs' \in 0..MaxRuns /\ runs' > 0
      /\ mined' = [r \in 1..MaxRuns |-> mined'[r]]
  <2>1. runs' \in 0..MaxRuns /\ runs' > 0
    BY <1>1
  <2>2. mined = [r \in 1..MaxRuns |-> mined[r]] /\ mined' = mined
    BY <1>1
  <2>3. mined' = [r \in 1..MaxRuns |-> mined'[r]]
    BY <2>2, Zenon
  <2> QED
    BY <2>1, <2>3
<1>5. /\ \A t \in Thread : work'[t].pc \in {"off", "loop"}
      /\ phase' = "off" => \A t \in Thread : work'[t].pc = "off"
      /\ phase' \in {"off", "starting"}
      /\ phase' = "starting" => exit' = "none"
      /\ exit' \in {"none", "error"}
      /\ work' = [t \in Thread |-> [pc |-> work'[t].pc, tip |-> work'[t].tip]]
  <2>1. CASE exit' = "error" /\ UNCHANGED <<phase, work>>
    BY <1>1, <2>1 DEF StorageTypeOK
  <2>2. ASSUME phase' = "starting", exit' = "none", NEW ts,
               work' = [t \in Thread |-> IF t \in ts THEN [Off EXCEPT !.pc = "loop"] ELSE Off]
        PROVE  <1>5!:
    BY <2>2 DEF Off
  <2> QED
    BY <2>1, <2>2 DEF Launch
<1>6. StorageTypeOK'
  BY <1>1, <1>2, <1>5 DEF StorageTypeOK, Places, Phases, Actor
<1> HIDE DEF In
<1> QED
  BY <1>3, <1>4, <1>5, <1>6 DEF In

LEMMA CrashTypes ==
    ASSUME DaemonTypes, Crash
    PROVE  DaemonTypes'
<1> USE DaemonConstants DEF DaemonTypes, In
<1>1. /\ best'.height = 0 /\ ~Saving'
      /\ phase' = "off" /\ exit' = "crash" /\ holder' = "nobody" /\ signal' = "nobody"
      /\ UNCHANGED <<summary, runs, mined>>
  BY DEF Crash, NewStore, NoBest, Saving, historyVars
<1>2. /\ \A t \in Thread : work'[t].pc = "off"
      /\ work' = [t \in Thread |-> [pc |-> work'[t].pc, tip |-> work'[t].tip]]
  BY DEF Crash, Everyone, Off
<1>3. StorageTypeOK'
  BY <1>1, <1>2 DEF StorageTypeOK, Places, Phases, Actor
<1> QED
  BY <1>1, <1>2, <1>3

\* main, the logger and the signal: main has joined the threads before it leaves.
LEMMA AsideTypes ==
    ASSUME DaemonTypes, Aside
    PROVE  DaemonTypes'
<1> USE DaemonConstants DEF DaemonTypes, In
<1>1. /\ UNCHANGED <<storeVars, historyVars, launch, work, runs>>
      /\ phase' # "off" => phase # "off"
  BY AsideIsQuiet
<1>2. Saving' = Saving /\ best' = best /\ mined' = mined /\ AllStarted' = AllStarted
  BY <1>1 DEF storeVars, historyVars, Saving, AllStarted
<1>3. Tip.height \in 0..MaxHeight
  BY DEF Tip, StorageTypeOK
<1>4. /\ phase' \in Phases
      /\ exit' \in {"none", "error", "crash", "clean", "unreported"}
      /\ summary' \in 0..MaxHeight
      /\ holder' \in Actor \cup {"nobody"} /\ signal' \in Actor \cup {"nobody", "stored"}
      /\ phase' \in {"off", "leaving", "failed"} => \A t \in Thread : work[t].pc = "off"
      /\ phase' \notin {"off", "leaving"} => exit' = "none"
      /\ holder' = "main" => HasToLog("main")'
  <2> USE <1>2, <1>3 DEF StorageTypeOK, Phases, Actor, HasToLog, NextPhase, Goes
  <2>1. CASE MainLogged
    BY <2>1 DEF MainLogged
  <2>2. CASE SpawnFails
    BY <2>2 DEF SpawnFails
  <2>3. CASE Unwind
    BY <2>3 DEF Unwind, Everyone, Off
  <2>4. CASE Poll
    BY <2>4 DEF Poll
  <2>5. CASE Summarize
    BY <2>5 DEF Summarize, Everyone, Off
  <2>6. ASSUME NEW u \in Actor, TakeLogger(u)
        PROVE  <1>4!:
    BY <2>6 DEF TakeLogger
  <2>7. ASSUME NEW u \in Actor, Signal(u)
        PROVE  <1>4!:
    BY <2>7 DEF Signal
  <2>8. CASE Handle
    BY <2>8 DEF Handle
  <2> QED
    BY <2>1, <2>2, <2>3, <2>4, <2>5, <2>6, <2>7, <2>8 DEF Aside, MainStep
<1>5. StorageTypeOK'
  BY <1>1, <1>2, <1>4 DEF StorageTypeOK
<1> QED
  BY <1>1, <1>2, <1>4, <1>5

\* A thread moves, and no other one does.
LEMMA WanderTypes ==
    ASSUME DaemonTypes, NEW t \in Thread, Wander(t)
    PROVE  DaemonTypes'
<1> USE DaemonConstants DEF DaemonTypes, In
<1>1. /\ UNCHANGED <<storeVars, historyVars, phase, launch, signal, summary, exit, runs>>
      /\ phase # "off"
      /\ work[t].pc \in {"loop", "search", "report"}
      /\ \/ \E pc \in {"search", "loop"} : work' = [work EXCEPT ![t].pc = pc]
         \/ work' = [work EXCEPT ![t] = Off] /\ ~Mining
         \/ Tip.height < MaxHeight /\ work' = [work EXCEPT ![t] = [pc |-> "admitted", tip |-> Tip]]
      /\ holder' \in {holder, "nobody"}
  BY WanderIsQuiet
<1>2. Saving' = Saving /\ best' = best /\ mined' = mined /\ AllStarted' = AllStarted
  BY <1>1 DEF storeVars, historyVars, Saving, AllStarted
<1>3. /\ work'[t] = [pc |-> work'[t].pc, tip |-> work'[t].tip]
      /\ \/ work'[t].pc \in {"search", "loop", "off"}
         \/ work'[t].pc = "admitted" /\ work'[t].tip.height \in 0..(MaxHeight - 1)
  <2>1. ASSUME NEW pc \in {"search", "loop"}, work' = [work EXCEPT ![t].pc = pc]
        PROVE  work'[t] = [pc |-> pc, tip |-> work[t].tip]
    <3>1. work'[t] = [work[t] EXCEPT !.pc = pc]
      BY <2>1
    <3>2. work[t] = [pc |-> work[t].pc, tip |-> work[t].tip]
      OBVIOUS
    <3> QED
      BY <3>1, <3>2, Zenon
  <2>2. CASE work' = [work EXCEPT ![t] = Off]
    BY <2>2 DEF Off
  <2>3. CASE Tip.height < MaxHeight /\ work' = [work EXCEPT ![t] = [pc |-> "admitted", tip |-> Tip]]
    <3>1. work'[t] = [pc |-> "admitted", tip |-> Tip]
      BY <2>3
    <3>2. Tip.height \in 0..(MaxHeight - 1)
      BY <2>3 DEF Tip, StorageTypeOK
    <3> QED
      BY <3>1, <3>2
  <2> QED
    BY <1>1, <2>1, <2>2, <2>3
<1>4. /\ \A u \in Thread : u # t => work'[u] = work[u]
      /\ work' = [u \in Thread |-> work'[u]]
  BY <1>1
<1>5. work' = [u \in Thread |-> [pc |-> work'[u].pc, tip |-> work'[u].tip]]
  BY <1>3, <1>4
<1>6. /\ work[t].pc # "saving" /\ work'[t].pc # "saving" /\ work[t].pc # "off"
      /\ work'[t].pc \in Places
  BY <1>1, <1>3 DEF Places
<1>7. /\ holder' \in Actor \cup {"nobody"}
      /\ \A u \in Thread : work'[u].pc \in Places
      /\ \A u \in Thread : phase' \in {"off", "leaving", "failed"} => work'[u].pc = "off"
      /\ \A u \in Thread : work'[u].pc = "saving" <=> work[u].pc = "saving"
  <2>1. holder \in Actor \cup {"nobody"}
    BY DEF StorageTypeOK
  <2>2. phase \notin {"leaving", "failed"}
    BY <1>6 DEF StorageTypeOK
  <2>3. \A u \in Thread : work[u].pc \in Places
    BY DEF StorageTypeOK
  <2>4. ASSUME NEW u \in Thread
        PROVE  /\ work'[u].pc \in Places
               /\ work'[u].pc = "saving" <=> work[u].pc = "saving"
    <3>1. u = t \/ work'[u] = work[u]
      BY <1>4
    <3> QED
      BY <1>6, <2>3, <3>1
  <2> QED
    BY <1>1, <2>1, <2>2, <2>4
<1>8. StorageTypeOK'
  BY <1>1, <1>2, <1>7 DEF StorageTypeOK
<1>9. holder' = "main" => HasToLog("main")'
  BY <1>1, <1>2 DEF HasToLog
<1> QED
  BY <1>1, <1>2, <1>3, <1>4, <1>5, <1>8, <1>9

LEMMA CommitTypes ==
    ASSUME DaemonTypes, NEW t \in Thread, Commit(t)
    PROVE  DaemonTypes'
<1> USE DaemonConstants DEF DaemonTypes, In
<1>1. PICK now \in Seconds(runs) :
         LET m == Committed(t, now)
         IN  /\ best' = [hash |-> BlockHash(m.block), height |-> m.height]
             /\ mined' = [r \in 1..MaxRuns |-> IF r = runs THEN mined[r] \cup {m} ELSE mined[r]]
  BY CommitEffect
<1>2. mined' = [r \in 1..MaxRuns |-> mined'[r]]
  BY <1>1
<1>3. best'.height \in 1..MaxHeight
  BY <1>1, CommitEffect DEF Committed
<1>4. /\ phase # "off" /\ ~Saving
      /\ UNCHANGED <<phase, launch, holder, signal, summary, exit, runs>>
      /\ work[t].pc = "admitted"
      /\ work'[t].pc = IF Saving' THEN "saving" ELSE "report"
      /\ \A u \in Thread : u # t => work'[u] = work[u]
      /\ work' = [u \in Thread |-> [pc |-> work'[u].pc, tip |-> work'[u].tip]]
  BY CommitEffect
<1>5. \A u \in Thread : work[u].pc # "saving"
  BY <1>4 DEF StorageTypeOK
<1>6. StorageTypeOK'
  BY <1>3, <1>4, <1>5 DEF StorageTypeOK, Places, Actor
<1>7. \A u \in Thread : work'[u].pc = "admitted" => work'[u].tip.height \in 0..(MaxHeight - 1)
  BY <1>4
<1>8. holder' = "main" => HasToLog("main")'
  BY <1>4 DEF HasToLog, AllStarted
<1> QED
  BY <1>2, <1>4, <1>6, <1>7, <1>8

\* A save and its thread come to an end together.
LEMMA SaveTypes ==
    ASSUME DaemonTypes, NEW t \in Thread, SaveItem(t)
    PROVE  DaemonTypes'
<1> USE DaemonConstants DEF DaemonTypes, In
<1>1. /\ UNCHANGED <<best, mined, phase, launch, holder, signal, summary, exit, runs>>
      /\ phase # "off" /\ Saving /\ work[t].pc = "saving"
      /\ ~Saving' => work' = [work EXCEPT ![t].pc = "report"]
      /\ Saving' => work' = work
  BY DEF SaveItem, WriteItem, Goes, Saving
<1>2. \A u \in Thread \ {t} : work[u].pc # "saving"
  BY <1>1 DEF StorageTypeOK
<1>3. holder' = "main" => HasToLog("main")'
  BY <1>1 DEF HasToLog, AllStarted
<1>4. CASE Saving'
  BY <1>1, <1>3, <1>4 DEF StorageTypeOK
<1>5. CASE ~Saving'
  <2>1. work'[t] = [pc |-> "report", tip |-> work[t].tip]
    <3>1. work'[t] = [work[t] EXCEPT !.pc = "report"]
      BY <1>1, <1>5
    <3>2. work[t] = [pc |-> work[t].pc, tip |-> work[t].tip]
      OBVIOUS
    <3> QED
      BY <3>1, <3>2, Zenon
  <2>2. /\ \A u \in Thread : u # t => work'[u] = work[u]
        /\ work' = [u \in Thread |-> work'[u]]
    BY <1>1, <1>5
  <2>3. work' = [u \in Thread |-> [pc |-> work'[u].pc, tip |-> work'[u].tip]]
    BY <2>1, <2>2
  <2>4. work'[t].pc = "report"
    BY <2>1
  <2>5. StorageTypeOK'
    BY <1>1, <1>2, <1>5, <2>2, <2>4 DEF StorageTypeOK, Places
  <2>6. \A u \in Thread : work'[u].pc = "admitted" => work'[u].tip.height \in 0..(MaxHeight - 1)
    BY <2>2, <2>4
  <2> QED
    BY <1>1, <1>3, <2>3, <2>5, <2>6
<1> QED
  BY <1>4, <1>5

LEMMA TypesStep == DaemonTypes /\ [DaemonNext]_daemonVars => DaemonTypes'
<1> SUFFICES ASSUME DaemonTypes, [DaemonNext]_daemonVars
             PROVE  DaemonTypes'
  OBVIOUS
<1>1. CASE UNCHANGED daemonVars
  BY <1>1 DEF daemonVars, storeVars, procVars, historyVars, DaemonTypes, StorageTypeOK, In, Saving,
              HasToLog, AllStarted
<1> QED
  BY <1>1, LaunchTypes, CrashTypes, AsideTypes, WanderTypes, CommitTypes, SaveTypes, Steps

LEMMA TypesInvariant == DaemonSpec => []DaemonTypes
BY InitialTypes, TypesStep, PTL DEF DaemonSpec

\* StorageTypeOK: heights stay in range, a save is that of a single thread, and no
\* thread is left when main has joined them.
THEOREM StorageTypeCorrect == DaemonSpec => []StorageTypeOK
<1>1. DaemonTypes => StorageTypeOK
  BY DEF DaemonTypes
<1> QED
  BY <1>1, TypesInvariant, PTL

-----------------------------------------------------------------------------
(* What a clean exit leaves.                                               *)

Due == {m \in mined[runs] : m.height % SaveInterval = 0}

FutureIsEmpty == \A r \in (runs + 1)..MaxRuns : mined[r] = {}

\* While a process runs, and after its clean exit: unless a save was missed, the
\* last block that was due is being saved, or it is in the file.
KeptSoFar ==
    (phase # "off" \/ exit = "clean") /\ ~missed /\ Due # {} =>
        /\ Saving => \E m \in Due : BlockHash(m.block) = best.hash
        /\ ~Saving => Reader(file).ok /\ \E m \in Due : BlockHash(m.block) = file[4]

KeepInv == StoreOK /\ DaemonTypes /\ FutureIsEmpty /\ KeptSoFar

LEMMA InitialKeep == DaemonInit => KeepInv
<1> SUFFICES ASSUME DaemonInit PROVE KeepInv
  OBVIOUS
<1>1. StoreOK /\ DaemonTypes
  BY InitialStore, InitialTypes DEF DaemonInit
<1>2. FutureIsEmpty
  BY DEF DaemonInit, FutureIsEmpty
<1>3. KeptSoFar
  BY DEF DaemonInit, KeptSoFar
<1> QED
  BY <1>1, <1>2, <1>3 DEF KeepInv

LEMMA KeepCommit ==
    ASSUME KeepInv, NEW t \in Thread, Commit(t)
    PROVE  FutureIsEmpty' /\ KeptSoFar'
<1>1. StoreOK /\ DaemonTypes /\ FutureIsEmpty /\ KeptSoFar
  BY DEF KeepInv
<1>2. /\ runs \in 1..MaxRuns /\ phase # "off" /\ ~Saving
      /\ runs' = runs
  BY <1>1, CommitEffect
<1>3. PICK now \in Seconds(runs) :
         LET m    == Committed(t, now)
             hash == BlockHash(m.block)
             due  == m.height % SaveInterval = 0
         IN  /\ StoreBlock(hash, m.block, m.height, due)
             /\ best' = [hash |-> hash, height |-> m.height]
             /\ mined' = [r \in 1..MaxRuns |-> IF r = runs THEN mined[r] \cup {m} ELSE mined[r]]
             /\ ~missed' => ~missed /\ (due => unsaved' # << >>)
  BY <1>1, CommitEffect
<1> DEFINE m == Committed(t, now)
           hash == BlockHash(m.block)
           due == m.height % SaveInterval = 0
<1>4. /\ StoreBlock(hash, m.block, m.height, due)
      /\ best'.hash = hash
      /\ mined' = [r \in 1..MaxRuns |-> IF r = runs THEN mined[r] \cup {m} ELSE mined[r]]
      /\ ~missed' => ~missed
      /\ ~missed' /\ due => Saving'
  BY <1>3 DEF Saving
<1> HIDE DEF m
<1>5. FutureIsEmpty'
  BY <1>1, <1>2, <1>4 DEF FutureIsEmpty
<1>6. mined'[runs'] = mined[runs] \cup {m}
  BY <1>2, <1>4
<1>7. Due' = IF due THEN Due \cup {m} ELSE Due
  BY <1>6 DEF Due
<1>8. /\ Saving' => due
      /\ ~Saving' => file' = file
  BY <1>1, <1>4, StoreBlockStep
<1>9. KeptSoFar'
  <2> SUFFICES ASSUME ~missed', Due' # {}
               PROVE  /\ Saving' => \E x \in Due' : BlockHash(x.block) = best'.hash
                      /\ ~Saving' => /\ Reader(file').ok
                                     /\ \E x \in Due' : BlockHash(x.block) = file'[4]
    BY DEF KeptSoFar
  <2>1. CASE Saving'
    BY <1>4, <1>7, <1>8, <2>1
  <2>2. CASE ~Saving'
    <3>1. ~due /\ Due' = Due /\ file' = file
      BY <1>4, <1>7, <1>8, <2>2
    <3>2. Reader(file).ok /\ \E x \in Due : BlockHash(x.block) = file[4]
      BY <1>1, <1>2, <1>4, <3>1 DEF KeptSoFar
    <3> QED
      BY <2>2, <3>1, <3>2
  <2> QED
    BY <2>1, <2>2
<1> QED
  BY <1>5, <1>9

LEMMA KeepSaveItem ==
    ASSUME KeepInv, NEW t \in Thread, SaveItem(t)
    PROVE  FutureIsEmpty' /\ KeptSoFar'
<1>1. StoreOK /\ FutureIsEmpty /\ KeptSoFar
  BY DEF KeepInv
<1>2. /\ WriteItem /\ Saving
      /\ UNCHANGED <<phase, exit, runs, mined, blocks, best>>
      /\ ~missed' => ~missed /\ ~gap'
  BY DEF SaveItem, WriteItem
<1>3. FutureIsEmpty' /\ Due' = Due
  BY <1>1, <1>2 DEF FutureIsEmpty, Due
<1>4. KeptSoFar'
  <2> SUFFICES ASSUME phase # "off" \/ exit = "clean", ~missed', Due # {}
               PROVE  /\ Saving' => \E x \in Due : BlockHash(x.block) = best.hash
                      /\ ~Saving' => /\ Reader(file').ok
                                     /\ \E x \in Due : BlockHash(x.block) = file'[4]
    BY <1>2, <1>3 DEF KeptSoFar
  <2>1. \E x \in Due : BlockHash(x.block) = best.hash
    BY <1>1, <1>2 DEF KeptSoFar
  <2>2. ~Saving' => file' = FileOf(blocks, best)
    BY <1>1, <1>2, WriteItemStep
  <2>3. Reader(FileOf(blocks, best)).ok /\ FileOf(blocks, best)[4] = best.hash
    <3>1. IsStore(blocks, best)
      BY <1>1 DEF StoreOK
    <3>2. Reader(FileOf(blocks, best)).ok
      BY <3>1, WholeIsRead
    <3>3. FileOf(blocks, best)[4] = best.hash
      BY <3>1, FileItems
    <3> QED
      BY <3>2, <3>3
  <2> QED
    BY <2>1, <2>2, <2>3
<1> QED
  BY <1>3, <1>4

LEMMA KeepStep == KeepInv /\ [DaemonNext]_daemonVars => KeepInv'
<1> SUFFICES ASSUME KeepInv, [DaemonNext]_daemonVars
             PROVE  KeepInv'
  OBVIOUS
<1>1. StoreOK /\ DaemonTypes /\ FutureIsEmpty /\ KeptSoFar
  BY DEF KeepInv
<1>2. StoreOK' /\ DaemonTypes'
  BY <1>1, StoreStep, TypesStep
<1>3. FutureIsEmpty' /\ KeptSoFar'
  <2>1. ASSUME NEW l, Launch(l)
        PROVE  FutureIsEmpty' /\ KeptSoFar'
    <3>1. runs < MaxRuns /\ runs' = runs + 1 /\ mined' = mined
      BY <2>1 DEF Launch
    <3>2. runs \in Nat /\ MaxRuns \in Nat
      BY <1>1, DaemonConstants DEF DaemonTypes
    <3>3. mined'[runs'] = {} /\ FutureIsEmpty'
      BY <1>1, <3>1, <3>2 DEF FutureIsEmpty
    <3>4. Due' = {}
      BY <3>3 DEF Due
    <3> QED
      BY <3>3, <3>4 DEF KeptSoFar
  <2>2. ASSUME NEW t \in Thread, Wander(t)
        PROVE  FutureIsEmpty' /\ KeptSoFar'
    <3>1. UNCHANGED <<best, file, unsaved, mined, missed, phase, exit, runs>>
      BY <2>2, WanderIsQuiet DEF storeVars, historyVars
    <3> QED
      BY <1>1, <3>1 DEF FutureIsEmpty, KeptSoFar, Due, Saving
  <2>3. ASSUME NEW t \in Thread, Commit(t) \/ SaveItem(t)
        PROVE  FutureIsEmpty' /\ KeptSoFar'
    BY <2>3, KeepCommit, KeepSaveItem
  <2>4. CASE Aside
    <3>1. /\ UNCHANGED <<best, file, unsaved, mined, missed, runs>>
          /\ phase' # "off" \/ exit' = "clean" => phase # "off" \/ exit = "clean"
      BY <2>4, AsideIsQuiet DEF storeVars, historyVars
    <3> QED
      BY <1>1, <3>1 DEF FutureIsEmpty, KeptSoFar, Due, Saving
  <2>5. CASE Crash
    <3>1. UNCHANGED <<mined, missed, runs>> /\ phase' = "off" /\ exit' = "crash"
      BY <2>5 DEF Crash, historyVars
    <3> QED
      BY <1>1, <3>1 DEF FutureIsEmpty, KeptSoFar
  <2>6. CASE UNCHANGED daemonVars
    <3>1. UNCHANGED <<best, file, unsaved, mined, missed, phase, exit, runs>>
      BY <2>6 DEF daemonVars, storeVars, historyVars, procVars
    <3> QED
      BY <1>1, <3>1 DEF FutureIsEmpty, KeptSoFar, Due, Saving
  <2> QED
    BY <2>1, <2>2, <2>3, <2>4, <2>5, <2>6, Steps
<1> QED
  BY <1>2, <1>3 DEF KeepInv

LEMMA KeepInvariant == DaemonSpec => []KeepInv
BY InitialKeep, KeepStep, PTL DEF DaemonSpec

\* ShutdownKeepsSave: a process that exits cleanly, reached a height at which saves
\* are due and missed none has left a whole file with the last such block on top.
THEOREM CleanExitKeepsSave == DaemonSpec => []ShutdownKeepsSave
<1>1. KeepInv => ShutdownKeepsSave
  <2> SUFFICES ASSUME KeepInv, exit = "clean", ~missed, Due # {}
               PROVE  Reader(file).ok /\ \E m \in Due : BlockHash(m.block) = file[4]
    BY DEF ShutdownKeepsSave, Due
  <2>1. phase \in {"off", "leaving"}
    BY DEF KeepInv, DaemonTypes
  <2>2. ~Saving
    BY <2>1 DEF KeepInv, DaemonTypes, StorageTypeOK, In
  <2> QED
    BY <2>2 DEF KeepInv, KeptSoFar
<1> QED
  BY <1>1, KeepInvariant, PTL

-----------------------------------------------------------------------------
(* What the processes have mined, and what the store and the file have of  *)
(* it.                                                                     *)

AsTip(m) == [hash |-> BlockHash(m.block), height |-> m.height]

\* What a block of process r can be built on.
Tips(r) == {Genesis0} \cup {AsTip(m) : m \in mined[r]}

BlockOn(tip, now) == [block |-> NewBlock(tip, now), height |-> tip.height + 1]

\* Every block was built on a tip of its process, and hashes tell them apart.
Grown(r) ==
    \A m \in mined[r] :
        /\ m.height \in Nat
        /\ \E tip \in Tips(r), now \in Seconds(r) : m = BlockOn(tip, now)

Unique(r) == \A a, b \in mined[r] : BlockHash(a.block) = BlockHash(b.block) => a = b

ChainsGrow == \A r \in 1..MaxRuns : Grown(r) /\ Unique(r)

\* A process stores what it has mined, and builds on nothing else.
StoreIsMined ==
    /\ phase # "off" =>
          /\ DOMAIN blocks = {BlockHash(m.block) : m \in mined[runs]}
          /\ \A m \in mined[runs] : blocks[BlockHash(m.block)] = SerializeBlock(m.block)
    /\ best.height > 0 => \E m \in mined[runs] : best = AsTip(m)
    /\ \A t \in Thread : In(t, "admitted") => work[t].tip \in Tips(runs)
    /\ Saving => best.height > 0 /\ best.height % SaveInterval = 0

FileData == Contents(Reader(file).blocks, 0).data

Saved(r) == {m \in mined[r] : SerializeBlock(m.block) \in FileData}

SavedAt(r, hash, height) == \E m \in Saved(r) : BlockHash(m.block) = hash /\ m.height = height

\* The file holds a chain that process r had mined when it began to save.
FromRun(r) ==
    /\ \A d \in FileData : \E m \in mined[r] : SerializeBlock(m.block) = d
    /\ Cardinality(Saved(r)) = file[3]
    /\ SavedAt(r, file[4], file[5])
    /\ file[5] % SaveInterval = 0
    /\ \A m \in Saved(r) : m.height = 1 \/ SavedAt(r, m.block.prev, m.height - 1)

FileIsMined == Reader(file).ok => file[3] \in Nat \ {0} /\ \E r \in 1..runs : FromRun(r)

HistoryInv == KeepInv /\ ChainsGrow /\ StoreIsMined /\ FileIsMined

\* A thread builds on the tip of its process.
LEMMA TipIsMined == StorageTypeOK /\ StoreIsMined => Tip \in Tips(runs)
<1> SUFFICES ASSUME StorageTypeOK, StoreIsMined PROVE Tip \in Tips(runs)
  OBVIOUS
<1>1. CASE best.height = 0
  BY <1>1 DEF Tip, Tips, Genesis0
<1>2. CASE best.height # 0
  <2>1. best.height > 0
    BY <1>2, DaemonConstants DEF StorageTypeOK
  <2> QED
    BY <1>2, <2>1 DEF StoreIsMined, Tip, Tips
<1> QED
  BY <1>1, <1>2

\* Genesis is older than any block that is mined, and hashes cover the time.
LEMMA TipsByHash ==
    ASSUME NEW r \in 1..MaxRuns, Grown(r), Unique(r),
           NEW x \in Tips(r), NEW y \in Tips(r), x.hash = y.hash
    PROVE  x = y
<1>1. ASSUME NEW m \in mined[r]
      PROVE  BlockHash(m.block) # BlockHash(Genesis)
  <2>1. PICK tip \in Tips(r), now \in Seconds(r) : m = BlockOn(tip, now)
    BY DEF Grown
  <2>2. m.block.time = now
    BY <2>1 DEF BlockOn, NewBlock
  <2>3. now # Genesis.time
    BY ClockIsPastGenesis
  <2> QED
    BY <2>2, <2>3 DEF BlockHash
<1>2. CASE x = Genesis0 /\ y = Genesis0
  BY <1>2
<1>3. ASSUME NEW a \in mined[r], x = AsTip(a) \/ y = AsTip(a), x = Genesis0 \/ y = Genesis0
      PROVE  x = y
  <2>1. BlockHash(a.block) # BlockHash(Genesis)
    BY <1>1
  <2>2. AsTip(a).hash = BlockHash(a.block) /\ Genesis0.hash = BlockHash(Genesis)
    BY DEF AsTip, Genesis0
  <2> QED
    BY <1>3, <2>1, <2>2
<1>4. ASSUME NEW a \in mined[r], NEW b \in mined[r], x = AsTip(a), y = AsTip(b)
      PROVE  x = y
  BY <1>4 DEF AsTip, Unique
<1> QED
  BY <1>2, <1>3, <1>4 DEF Tips

\* Blocks that were built on tips of one process, and have one hash, are the same.
LEMMA BlocksByHash ==
    ASSUME NEW r \in 1..MaxRuns, Grown(r), Unique(r),
           NEW x \in Tips(r), NEW y \in Tips(r), NEW now, NEW then,
           BlockHash(NewBlock(x, now)) = BlockHash(NewBlock(y, then))
    PROVE  BlockOn(x, now) = BlockOn(y, then)
<1>1. /\ NewBlock(x, now).prev = x.hash /\ NewBlock(x, now).time = now
      /\ NewBlock(y, then).prev = y.hash /\ NewBlock(y, then).time = then
  BY DEF NewBlock
<1>2. x.hash = y.hash /\ now = then
  BY <1>1 DEF BlockHash
<1>3. x = y
  BY <1>2, TipsByHash
<1> QED
  BY <1>2, <1>3

\* A commit adds one block to the history of its process, on one of its tips.
LEMMA CommitGrows ==
    ASSUME HistoryInv, NEW t \in Thread, Commit(t)
    PROVE  \E m :
              /\ \E now \in Seconds(runs) : m = BlockOn(work[t].tip, now)
              /\ m.height \in Nat
              /\ work[t].tip \in Tips(runs)
              /\ runs \in 1..MaxRuns /\ runs' = runs /\ phase # "off"
              /\ StoreBlock(BlockHash(m.block), m.block, m.height, m.height % SaveInterval = 0)
              /\ blocks' = Assign(blocks, BlockHash(m.block), SerializeBlock(m.block))
              /\ best' = AsTip(m)
              /\ mined' = [r \in 1..MaxRuns |-> IF r = runs THEN mined[r] \cup {m} ELSE mined[r]]
<1>1. DaemonTypes /\ work[t].tip \in Tips(runs)
  BY DEF HistoryInv, KeepInv, StoreIsMined, Commit
<1>2. PICK now \in Seconds(runs) :
         LET m    == Committed(t, now)
             hash == BlockHash(m.block)
             due  == m.height % SaveInterval = 0
         IN  /\ StoreBlock(hash, m.block, m.height, due)
             /\ blocks' = Assign(blocks, hash, SerializeBlock(m.block))
             /\ best' = [hash |-> hash, height |-> m.height]
             /\ mined' = [r \in 1..MaxRuns |-> IF r = runs THEN mined[r] \cup {m} ELSE mined[r]]
  BY <1>1, CommitEffect
<1>3. runs \in 1..MaxRuns /\ runs' = runs /\ phase # "off"
  BY <1>1, CommitEffect
<1> DEFINE m == Committed(t, now)
<1>4. m = BlockOn(work[t].tip, now) /\ m.height \in Nat
  <2>1. work[t].tip.height \in 0..(MaxHeight - 1)
    BY <1>1, CommitEffect
  <2> QED
    BY <2>1, DaemonConstants DEF Committed, BlockOn
<1>5. /\ StoreBlock(BlockHash(m.block), m.block, m.height, m.height % SaveInterval = 0)
      /\ blocks' = Assign(blocks, BlockHash(m.block), SerializeBlock(m.block))
      /\ best' = AsTip(m)
      /\ mined' = [r \in 1..MaxRuns |-> IF r = runs THEN mined[r] \cup {m} ELSE mined[r]]
  BY <1>2 DEF AsTip
<1> HIDE DEF m
<1> QED
  BY <1>1, <1>3, <1>4, <1>5

\* The encodings of two blocks of a process differ, as their hashes do.
LEMMA EncodingsDiffer ==
    ASSUME NEW r \in 1..MaxRuns, Grown(r), Unique(r), NEW tip \in Tips(r), NEW now \in Seconds(r),
           NEW m \in mined[r], SerializeBlock(m.block) = SerializeBlock(NewBlock(tip, now))
    PROVE  m = BlockOn(tip, now)
<1>1. PICK parent \in Tips(r), then \in Seconds(r) : m = BlockOn(parent, then)
  BY DEF Grown
<1>2. m.block = NewBlock(parent, then)
  BY <1>1 DEF BlockOn
<1>3. BlockHash(NewBlock(parent, then)) = BlockHash(NewBlock(tip, now))
  BY <1>2, BlockLength, HeaderIsStored
<1> QED
  BY <1>1, <1>3, BlocksByHash

LEMMA CommitChains ==
    ASSUME ChainsGrow, runs \in 1..MaxRuns,
           NEW m, NEW tip \in Tips(runs), NEW now \in Seconds(runs), m = BlockOn(tip, now),
           m.height \in Nat,
           mined' = [r \in 1..MaxRuns |-> IF r = runs THEN mined[r] \cup {m} ELSE mined[r]]
    PROVE  ChainsGrow' /\ \A r \in 1..MaxRuns : Tips(r) \subseteq Tips(r)'
<1>1. ASSUME NEW r \in 1..MaxRuns, r # runs
      PROVE  Grown(r)' /\ Unique(r)' /\ Tips(r) \subseteq Tips(r)'
  <2>1. mined'[r] = mined[r]
    BY <1>1
  <2> QED
    BY <2>1 DEF ChainsGrow, Grown, Unique, Tips
<1>2. Grown(runs) /\ Unique(runs)
  BY DEF ChainsGrow
<1> DEFINE old == mined[runs]
           new == old \cup {m}
           oldTips == Tips(runs)
           newTips == {Genesis0} \cup {AsTip(x) : x \in new}
<1>3. mined'[runs] = new
  OBVIOUS
<1>4. oldTips \subseteq newTips
  BY DEF Tips
<1>5. \A x \in new : /\ x.height \in Nat
                     /\ \E y \in newTips, then \in Seconds(runs) : x = BlockOn(y, then)
  <2> TAKE x \in new
  <2>2. x.height \in Nat
    BY <1>2 DEF Grown
  <2>1. \E y \in oldTips, then \in Seconds(runs) : x = BlockOn(y, then)
    BY <1>2 DEF Grown
  <2> HIDE DEF oldTips, newTips
  <2> QED
    BY <1>4, <2>1, <2>2
<1>6. \A x \in old : BlockHash(x.block) = BlockHash(m.block) => x = m
  <2> TAKE x \in old
  <2>1. PICK y \in Tips(runs), then \in Seconds(runs) : x = BlockOn(y, then)
    BY <1>2 DEF Grown
  <2>2. x.block = NewBlock(y, then) /\ m.block = NewBlock(tip, now)
    BY <2>1 DEF BlockOn
  <2> QED
    BY <1>2, <2>1, <2>2, BlocksByHash
<1>7. \A x, y \in new : BlockHash(x.block) = BlockHash(y.block) => x = y
  BY <1>2, <1>6 DEF Unique
<1>8. ASSUME NEW r \in 1..MaxRuns, r = runs
      PROVE  Grown(r)' /\ Unique(r)' /\ Tips(r) \subseteq Tips(r)'
  <2>1. mined'[r] = new /\ Tips(r)' = newTips
    BY <1>3, <1>8 DEF Tips
  <2> HIDE DEF new, newTips
  <2>2. Grown(r)'
    BY <1>5, <1>8, <2>1 DEF Grown
  <2>3. Unique(r)'
    BY <1>7, <2>1 DEF Unique
  <2> QED
    BY <1>4, <1>8, <2>1, <2>2, <2>3
<1> QED
  BY <1>1, <1>8 DEF ChainsGrow

\* The file stays what it is as long as the history has nothing new of it.
LEMMA FileKept ==
    ASSUME NEW r, FromRun(r), file' = file,
           mined[r] \subseteq mined'[r],
           \A m \in mined'[r] \ mined[r] : SerializeBlock(m.block) \notin FileData
    PROVE  FromRun(r)'
<1>1. FileData' = FileData
  BY DEF FileData
<1>2. Saved(r)' = Saved(r)
  BY <1>1 DEF Saved
<1>3. \A d \in FileData : \E m \in mined'[r] : SerializeBlock(m.block) = d
  BY DEF FromRun
<1> QED
  BY <1>1, <1>2, <1>3 DEF FromRun, SavedAt

LEMMA CommitHistory ==
    ASSUME HistoryInv, NEW t \in Thread, Commit(t)
    PROVE  ChainsGrow' /\ StoreIsMined' /\ FileIsMined'
<1>1. /\ StoreOK /\ DaemonTypes /\ FutureIsEmpty
      /\ ChainsGrow /\ StoreIsMined /\ FileIsMined
  BY DEF HistoryInv, KeepInv
<1>2. PICK m :
         /\ \E now \in Seconds(runs) : m = BlockOn(work[t].tip, now)
         /\ m.height \in Nat
         /\ work[t].tip \in Tips(runs)
         /\ runs \in 1..MaxRuns /\ runs' = runs /\ phase # "off"
         /\ StoreBlock(BlockHash(m.block), m.block, m.height, m.height % SaveInterval = 0)
         /\ blocks' = Assign(blocks, BlockHash(m.block), SerializeBlock(m.block))
         /\ best' = AsTip(m)
         /\ mined' = [r \in 1..MaxRuns |-> IF r = runs THEN mined[r] \cup {m} ELSE mined[r]]
  BY CommitGrows
<1>3. ChainsGrow' /\ \A r \in 1..MaxRuns : Tips(r) \subseteq Tips(r)'
  BY <1>1, <1>2, CommitChains
<1>4. mined'[runs] = mined[runs] \cup {m}
  BY <1>2
<1>5. m \in mined'[runs] /\ \A x \in mined'[runs] : BlockHash(x.block) = BlockHash(m.block) => x = m
  <2>1. Unique(runs)'
    BY <1>2, <1>3 DEF ChainsGrow
  <2> QED
    BY <1>2, <1>4, <2>1 DEF Unique
<1>6. /\ Saving' => file' = << >> /\ m.height % SaveInterval = 0
      /\ ~Saving' => file' = file
  BY <1>1, <1>2, StoreBlockStep
<1>7. StoreIsMined'
  <2>1. /\ DOMAIN blocks = {BlockHash(x.block) : x \in mined[runs]}
        /\ \A x \in mined[runs] : blocks[BlockHash(x.block)] = SerializeBlock(x.block)
    BY <1>1, <1>2 DEF StoreIsMined
  <2>2. DOMAIN blocks' = {BlockHash(x.block) : x \in mined'[runs]}
    BY <1>2, <1>4, <2>1 DEF Assign
  <2>3. \A x \in mined'[runs] : blocks'[BlockHash(x.block)] = SerializeBlock(x.block)
    <3> TAKE x \in mined'[runs]
    <3>1. BlockHash(x.block) \in DOMAIN blocks'
      BY <2>2
    <3>2. CASE BlockHash(x.block) = BlockHash(m.block)
      BY <1>2, <1>5, <3>1, <3>2 DEF Assign
    <3>3. CASE BlockHash(x.block) # BlockHash(m.block)
      <4>1. x \in mined[runs]
        BY <1>4, <3>3
      <4>2. blocks'[BlockHash(x.block)] = blocks[BlockHash(x.block)]
        BY <1>2, <3>1, <3>3 DEF Assign
      <4> QED
        BY <2>1, <4>1, <4>2
    <3> QED
      BY <3>2, <3>3
  <2>4. \E x \in mined'[runs] : best' = AsTip(x)
    BY <1>2, <1>5
  <2>5. \A u \in Thread : work'[u].pc = "admitted" => work'[u].tip \in Tips(runs)'
    <3>1. /\ work'[t].pc # "admitted"
          /\ \A u \in Thread : u # t => work'[u] = work[u]
      BY <1>1, CommitEffect
    <3>2. \A u \in Thread : work[u].pc = "admitted" => work[u].tip \in Tips(runs)
      BY <1>1 DEF StoreIsMined, In
    <3>3. Tips(runs) \subseteq Tips(runs)'
      BY <1>2, <1>3
    <3> QED
      BY <3>1, <3>2, <3>3
  <2>6. Saving' => best'.height > 0 /\ best'.height % SaveInterval = 0
    <3>1. work[t].tip.height \in 0..(MaxHeight - 1)
      BY <1>1, CommitEffect
    <3>2. m.height > 0
      BY <1>2, <3>1, DaemonConstants DEF BlockOn
    <3> QED
      BY <1>2, <1>6, <3>2 DEF AsTip
  <2> QED
    BY <1>2, <2>2, <2>3, <2>4, <2>5, <2>6 DEF StoreIsMined, In
<1>8. FileIsMined'
  <2>1. CASE Saving'
    BY <1>6, <2>1, ReaderOk DEF FileIsMined
  <2>2. CASE ~Saving' /\ ~Reader(file).ok
    BY <1>6, <2>2 DEF FileIsMined
  <2>3. CASE ~Saving' /\ Reader(file).ok
    <3>1. file[3] \in Nat \ {0} /\ file' = file
      BY <1>1, <1>6, <2>3 DEF FileIsMined
    <3>2. PICK r \in 1..runs : FromRun(r)
      BY <1>1, <2>3 DEF FileIsMined
    <3>3. r \in 1..MaxRuns /\ mined[r] \subseteq mined'[r]
      <4>1. r \in 1..MaxRuns
        BY <1>2, DaemonConstants
      <4> QED
        BY <1>2, <4>1
    <3>4. ASSUME NEW x \in mined'[r] \ mined[r], SerializeBlock(x.block) \in FileData
          PROVE  FALSE
      <4>1. r = runs /\ x = m
        BY <1>2, <3>3, <3>4
      <4>2. PICK y \in mined[r] : SerializeBlock(y.block) = SerializeBlock(x.block)
        BY <3>2, <3>4 DEF FromRun
      <4>3. PICK now \in Seconds(runs) : m = BlockOn(work[t].tip, now)
        BY <1>2
      <4>4. m.block = NewBlock(work[t].tip, now)
        BY <4>3 DEF BlockOn
      <4>5. Grown(runs) /\ Unique(runs)
        BY <1>1, <1>2 DEF ChainsGrow
      <4>6. y = m
        BY <1>2, <4>1, <4>2, <4>3, <4>4, <4>5, EncodingsDiffer
      <4> QED
        BY <3>4, <4>1, <4>2, <4>6
    <3>5. FromRun(r)'
      BY <3>1, <3>2, <3>3, <3>4, FileKept
    <3> QED
      BY <1>2, <3>1, <3>5 DEF FileIsMined
  <2> QED
    BY <2>1, <2>2, <2>3
<1> QED
  BY <1>3, <1>7, <1>8

\* What a whole file holds of a process that has stored all it has mined.
LEMMA WholeIsMined ==
    ASSUME IsStore(blocks, best), ChainsGrow, StoreIsMined,
           runs \in 1..MaxRuns, phase # "off", best.height > 0, best.height % SaveInterval = 0,
           best.height \in Nat,
           file' = FileOf(blocks, best), UNCHANGED <<mined, runs>>
    PROVE  FileIsMined'
<1> DEFINE whole == FileOf(blocks, best)
           all == mined[runs]
<1>1. Grown(runs) /\ Unique(runs)
  BY DEF ChainsGrow
<1>2. /\ DOMAIN blocks = {BlockHash(m.block) : m \in all}
      /\ \A m \in all : blocks[BlockHash(m.block)] = SerializeBlock(m.block)
      /\ \E m \in all : best = AsTip(m)
  BY DEF StoreIsMined
<1>3. FileData' = {SerializeBlock(m.block) : m \in all}
  <2> DEFINE read == Reader(whole)
  <2>1. Contents(read.blocks, read.best) = Contents(blocks, best)
    BY WholeIsRead
  <2>2. Contents(read.blocks, read.best).data = Contents(blocks, best).data
    BY <2>1
  <2>3. Contents(read.blocks, 0).data = {blocks[h] : h \in DOMAIN blocks}
    <3> HIDE DEF read
    <3> QED
      BY <2>2 DEF Contents
  <2>4. {blocks[h] : h \in DOMAIN blocks} = {SerializeBlock(m.block) : m \in all}
    BY <1>2
  <2> QED
    BY <2>3, <2>4 DEF FileData
<1>4. Saved(runs)' = all
  BY <1>3 DEF Saved
<1>5. Cardinality(all) = Cardinality(DOMAIN blocks) /\ Cardinality(DOMAIN blocks) \in Nat \ {0}
  <2> DEFINE hash == [m \in all |-> BlockHash(m.block)]
             hashes == DOMAIN blocks
  <2>1. hash \in [all -> hashes] /\ \A h \in hashes : \E m \in all : hash[m] = h
    BY <1>2
  <2>2. \A a, b \in all : hash[a] = hash[b] => a = b
    BY <1>1 DEF Unique
  <2>3. IsFiniteSet(hashes) /\ hashes # {}
    BY <1>2 DEF IsStore
  <2> HIDE DEF hash, hashes, all
  <2>4. hash \in Injection(all, hashes) /\ hash \in Surjection(all, hashes)
    BY <2>1, <2>2 DEF Injection, Surjection, IsInjective
  <2>5. Cardinality(all) = Cardinality(hashes)
    BY <2>3, <2>4, FS_Injection
  <2>6. Cardinality(hashes) \in Nat /\ Cardinality(hashes) # 0
    BY <2>3, FS_CardinalityType, FS_EmptySet
  <2> QED
    BY <2>5, <2>6 DEF hashes
<1>6. /\ whole[3] = Cardinality(DOMAIN blocks)
      /\ whole[4] = best.hash /\ whole[5] = best.height
  BY FileItems
<1>7. FromRun(runs)'
  <2> HIDE DEF whole, all
  <2>1. file' = whole /\ mined'[runs] = all
    BY DEF whole, all
  <2>2. \A d \in FileData' : \E m \in mined'[runs] : SerializeBlock(m.block) = d
    BY <1>3, <2>1
  <2>3. \E m \in Saved(runs)' : BlockHash(m.block) = file'[4] /\ m.height = file'[5]
    <3>1. PICK m \in all : best = AsTip(m)
      BY <1>2
    <3>2. BlockHash(m.block) = best.hash /\ m.height = best.height
      BY <3>1 DEF AsTip
    <3> QED
      BY <1>4, <1>6, <2>1, <3>2
  <2>4. \A m \in Saved(runs)' :
           \/ m.height = 1
           \/ \E p \in Saved(runs)' : BlockHash(p.block) = m.block.prev /\ p.height = m.height - 1
    <3> SUFFICES ASSUME NEW m \in all
                 PROVE  \/ m.height = 1
                        \/ \E p \in all : BlockHash(p.block) = m.block.prev /\ p.height = m.height - 1
      BY <1>4
    <3>1. PICK tip \in Tips(runs), now \in Seconds(runs) : m = BlockOn(tip, now)
      BY <1>1 DEF Grown, all
    <3>2. m.block.prev = tip.hash /\ m.height = tip.height + 1
      BY <3>1 DEF BlockOn, NewBlock
    <3>3. CASE tip = Genesis0
      BY <3>2, <3>3 DEF Genesis0
    <3>4. ASSUME NEW p \in all, tip = AsTip(p)
          PROVE  BlockHash(p.block) = m.block.prev /\ p.height = m.height - 1
      <4>1. p.height \in Nat
        BY <1>1 DEF Grown, all
      <4> QED
        BY <3>2, <3>4, <4>1 DEF AsTip
    <3> QED
      BY <3>3, <3>4 DEF Tips, all
  <2> QED
    BY <1>4, <1>5, <1>6, <2>1, <2>2, <2>3, <2>4 DEF FromRun, SavedAt
<1>8. file'[3] \in Nat \ {0}
  BY <1>5, <1>6
<1> QED
  BY <1>7, <1>8 DEF FileIsMined

\* Steps that mine nothing and do not touch the file.
LEMMA QuietHistory ==
    ASSUME ChainsGrow, FileIsMined, UNCHANGED <<mined, file>>,
           runs \in Nat, runs' \in Nat, runs <= runs'
    PROVE  ChainsGrow' /\ FileIsMined'
<1>1. ChainsGrow'
  BY DEF ChainsGrow, Grown, Unique, Tips
<1>2. ASSUME ~Reader(file).ok
      PROVE  FileIsMined'
  BY <1>2 DEF FileIsMined
<1>3. ASSUME Reader(file).ok
      PROVE  FileIsMined'
  <2>1. file[3] \in Nat \ {0}
    BY <1>3 DEF FileIsMined
  <2>2. PICK r \in 1..runs : FromRun(r)
    BY <1>3 DEF FileIsMined
  <2>3. FromRun(r)'
    BY <2>2, FileKept
  <2>4. r \in 1..runs'
    OBVIOUS
  <2> QED
    BY <2>1, <2>3, <2>4 DEF FileIsMined
<1> QED
  BY <1>1, <1>2, <1>3

LEMMA SaveItemHistory ==
    ASSUME HistoryInv, NEW t \in Thread, SaveItem(t)
    PROVE  ChainsGrow' /\ StoreIsMined' /\ FileIsMined'
<1>1. StoreOK /\ DaemonTypes /\ ChainsGrow /\ StoreIsMined /\ FileIsMined
  BY DEF HistoryInv, KeepInv
<1>2. /\ WriteItem /\ Saving
      /\ UNCHANGED <<phase, runs, mined, blocks, best>>
      /\ work' \in {work, [work EXCEPT ![t].pc = "report"]}
      /\ phase # "off"
  BY DEF SaveItem, WriteItem, Goes
<1>3. /\ phase # "off" /\ best.height > 0 /\ best.height \in Nat
      /\ runs \in 1..MaxRuns
      /\ best.height % SaveInterval = 0
  BY <1>1, <1>2, DaemonConstants DEF DaemonTypes, StorageTypeOK, StoreIsMined
<1>w. \A u \in Thread : work'[u].pc = "admitted" => work'[u] = work[u]
  <2>1. work[t] = [pc |-> work[t].pc, tip |-> work[t].tip]
    BY <1>1 DEF DaemonTypes
  <2>2. CASE work' = [work EXCEPT ![t].pc = "report"]
    <3>1. work'[t] = [work[t] EXCEPT !.pc = "report"] /\ \A u \in Thread : u # t => work'[u] = work[u]
      BY <1>1, <2>2 DEF DaemonTypes
    <3>2. work'[t] = [pc |-> "report", tip |-> work[t].tip]
      BY <2>1, <3>1, Zenon
    <3> QED
      BY <3>1, <3>2
  <2> QED
    BY <1>2, <2>2
<1>4. ChainsGrow'
  BY <1>1, <1>2 DEF ChainsGrow, Grown, Unique, Tips
<1>5. StoreIsMined'
  <2>1. Tips(runs)' = Tips(runs)
    BY <1>2 DEF Tips
  <2>2. \A u \in Thread : work'[u].pc = "admitted" => work'[u].tip \in Tips(runs)
    BY <1>1, <1>w DEF StoreIsMined, In
  <2> QED
    BY <1>1, <1>2, <1>3, <2>1, <2>2 DEF StoreIsMined, In
<1>6. FileIsMined'
  <2>1. CASE ~Reader(file').ok
    BY <2>1 DEF FileIsMined
  <2>2. CASE file' = FileOf(blocks, best)
    BY <1>1, <1>2, <1>3, <2>2, WholeIsMined DEF StoreOK
  <2> QED
    BY <1>1, <1>2, <2>1, <2>2, WriteItemStep
<1> QED
  BY <1>4, <1>5, <1>6

LEMMA InitialHistory == DaemonInit => HistoryInv
<1> SUFFICES ASSUME DaemonInit PROVE HistoryInv
  OBVIOUS
<1>1. KeepInv
  BY InitialKeep
<1>2. ChainsGrow
  BY DEF DaemonInit, ChainsGrow, Grown, Unique
<1>3. StoreIsMined
  BY DEF DaemonInit, StoreInit, StoreIsMined, NoBest, Everyone, Off, In, Saving
<1>4. FileIsMined
  BY ReaderOk DEF DaemonInit, StoreInit, FileIsMined
<1> QED
  BY <1>1, <1>2, <1>3, <1>4 DEF HistoryInv

LEMMA HistoryStep == HistoryInv /\ [DaemonNext]_daemonVars => HistoryInv'
<1> SUFFICES ASSUME HistoryInv, [DaemonNext]_daemonVars
             PROVE  HistoryInv'
  OBVIOUS
<1>1. /\ KeepInv /\ ChainsGrow /\ StoreIsMined /\ FileIsMined
      /\ DaemonTypes /\ FutureIsEmpty
  BY DEF HistoryInv, KeepInv
<1>2. KeepInv'
  BY <1>1, KeepStep
<1>3. runs \in Nat /\ MaxRuns \in Nat
  BY <1>1, DaemonConstants DEF DaemonTypes
<1>4. ChainsGrow' /\ StoreIsMined' /\ FileIsMined'
  <2>1. ASSUME NEW l, Launch(l)
        PROVE  ChainsGrow' /\ StoreIsMined' /\ FileIsMined'
    <3>1. /\ runs < MaxRuns /\ runs' = runs + 1 /\ mined' = mined
          /\ NewStore
      BY <2>1 DEF Launch
    <3>2. /\ blocks' = NoBlocks /\ best' = NoBest /\ file' = file /\ ~Saving'
          /\ best'.height = 0
      BY <3>1 DEF NewStore, NoBest, Saving
    <3>3. \A t \in Thread : work'[t].pc # "admitted"
      <4>1. \A t \in Thread : work[t].pc = "off"
        BY <1>1, <2>1 DEF DaemonTypes, StorageTypeOK, In, Launch
      <4>2. CASE UNCHANGED work
        BY <4>1, <4>2
      <4>3. ASSUME NEW ts, work' = [t \in Thread |-> IF t \in ts THEN [Off EXCEPT !.pc = "loop"] ELSE Off]
            PROVE  \A t \in Thread : work'[t].pc # "admitted"
        BY <4>3 DEF Off
      <4> QED
        BY <2>1, <4>2, <4>3 DEF Launch
    <3>4. mined'[runs'] = {}
      BY <1>1, <1>3, <3>1 DEF FutureIsEmpty
    <3>5. DOMAIN NoBlocks = {}
      BY DEF NoBlocks
    <3>6. StoreIsMined'
      BY <3>2, <3>3, <3>4, <3>5 DEF StoreIsMined, In
    <3> QED
      BY <1>1, <1>3, <3>1, <3>2, <3>6, QuietHistory
  <2>2. ASSUME NEW t \in Thread, Wander(t)
        PROVE  ChainsGrow' /\ StoreIsMined' /\ FileIsMined'
    <3>1. /\ UNCHANGED <<blocks, best, file, unsaved, mined, phase, runs>>
          /\ \/ \E pc \in {"search", "loop"} : work' = [work EXCEPT ![t].pc = pc]
             \/ work' = [work EXCEPT ![t] = Off]
             \/ work' = [work EXCEPT ![t] = [pc |-> "admitted", tip |-> Tip]]
      BY <2>2, WanderIsQuiet DEF storeVars, historyVars
    <3>2. ChainsGrow' /\ FileIsMined'
      BY <1>1, <1>3, <3>1, QuietHistory
    <3>3. /\ \A u \in Thread : u # t => work'[u] = work[u]
          /\ work'[t].pc = "admitted" => work'[t].tip \in Tips(runs)
      <4>1. \A u \in Thread : u # t => work'[u] = work[u]
        BY <1>1, <3>1 DEF DaemonTypes
      <4>2. work[t] = [pc |-> work[t].pc, tip |-> work[t].tip]
        BY <1>1 DEF DaemonTypes
      <4>3. Tip \in Tips(runs)
        BY <1>1, TipIsMined DEF DaemonTypes
      <4>4. ASSUME NEW pc, work' = [work EXCEPT ![t].pc = pc]
            PROVE  work'[t].pc = pc
        <5>1. work'[t] = [work[t] EXCEPT !.pc = pc]
          BY <1>1, <4>4 DEF DaemonTypes
        <5>2. work'[t] = [pc |-> pc, tip |-> work[t].tip]
          BY <4>2, <5>1, Zenon
        <5> QED
          BY <5>2
      <4>5. ASSUME NEW w, work' = [work EXCEPT ![t] = w]
            PROVE  work'[t] = w
        BY <1>1, <4>5 DEF DaemonTypes
      <4> QED
        BY <3>1, <4>1, <4>3, <4>4, <4>5 DEF Off
    <3>4. Tips(runs)' = Tips(runs)
      BY <3>1 DEF Tips
    <3>5. StoreIsMined'
      BY <1>1, <3>1, <3>3, <3>4 DEF StoreIsMined, In, Saving
    <3> QED
      BY <3>2, <3>5
  <2>3. ASSUME NEW t \in Thread, Commit(t) \/ SaveItem(t)
        PROVE  ChainsGrow' /\ StoreIsMined' /\ FileIsMined'
    BY <2>3, CommitHistory, SaveItemHistory
  <2>4. CASE Aside \/ UNCHANGED daemonVars
    <3>1. /\ UNCHANGED <<blocks, best, file, unsaved, mined, work, runs>>
          /\ phase' # "off" => phase # "off"
      BY <2>4, AsideIsQuiet DEF daemonVars, storeVars, historyVars, procVars
    <3>2. StoreIsMined'
      BY <1>1, <3>1 DEF StoreIsMined, Tips, In, Saving
    <3> QED
      BY <1>1, <1>3, <3>1, <3>2, QuietHistory
  <2>5. CASE Crash
    <3>1. /\ UNCHANGED <<mined, file, runs>> /\ phase' = "off"
          /\ best'.height = 0 /\ ~Saving'
          /\ \A t \in Thread : work'[t].pc # "admitted"
      BY <2>5 DEF Crash, historyVars, NewStore, NoBest, Saving, Everyone, Off
    <3>2. StoreIsMined'
      BY <3>1 DEF StoreIsMined, In
    <3> QED
      BY <1>1, <1>3, <3>1, <3>2, QuietHistory
  <2> QED
    BY <2>1, <2>2, <2>3, <2>4, <2>5, Steps
<1> QED
  BY <1>2, <1>4 DEF HistoryInv

LEMMA HistoryInvariant == DaemonSpec => []HistoryInv
BY InitialHistory, HistoryStep, PTL DEF DaemonSpec

\* FileIsOneRun: a whole file holds the blocks of one process, its best block at a
\* height where saves are due, with all its ancestors, whatever other threads have
\* committed and whatever was saved before.
THEOREM FileHoldsOneRun == DaemonSpec => []FileIsOneRun
<1>1. HistoryInv => FileIsOneRun
  <2> SUFFICES ASSUME FileIsMined, Reader(file).ok
               PROVE  \E r \in 1..runs :
                         /\ Cardinality(Saved(r)) = file[3]
                         /\ SavedAt(r, file[4], file[5])
                         /\ file[5] % SaveInterval = 0
                         /\ \A m \in Saved(r) :
                               m.height = 1 \/ SavedAt(r, m.block.prev, m.height - 1)
    BY DEF HistoryInv, FileIsOneRun, Saved, SavedAt, FileData
  <2> QED
    BY DEF FileIsMined, FromRun
<1> QED
  BY <1>1, HistoryInvariant, PTL

-----------------------------------------------------------------------------
(* The settings of a process.                                              *)

\* Line i stands under a heading with a name.
InSection(lines, i) ==
    \E j \in 1..i :
        /\ lines[j][1] = "[" /\ lines[j][2] # ""
        /\ \A k \in (j + 1)..i : lines[k][1] # "["

\* The last line for a key outside of all sections counts, then the arguments.
Effective(l, key) ==
    LET own == {i \in DOMAIN l.conf : l.conf[i][1] = key /\ ~InSection(l.conf, i)}
    IN  IF own = {} THEN Get(LoadFromArgs(l.args), key, "")
        ELSE l.conf[CHOOSE i \in own : \A j \in own : j <= i][2]

\* A line is in a section when it is a named heading, or no heading and the
\* line above it is in a section.
LEMMA SectionGoesOn ==
    ASSUME NEW lines, NEW i \in Nat \ {0}
    PROVE  InSection(lines, i) <=>
               IF lines[i][1] = "[" THEN lines[i][2] # "" ELSE InSection(lines, i - 1)
<1> DEFINE Heading(j) == lines[j][1] = "["
           Named(j) == Heading(j) /\ lines[j][2] # ""
           Under(n) == \E j \in 1..n : Named(j) /\ \A k \in (j + 1)..n : ~Heading(k)
<1>1. \A n \in Nat : InSection(lines, n) <=> Under(n)
  BY DEF InSection
<1>2. Under(i) <=> IF Heading(i) THEN Named(i) ELSE Under(i - 1)
  <2>1. CASE Heading(i)
    <3>1. ASSUME Under(i) PROVE Named(i)
      <4>1. PICK j \in 1..i : Named(j) /\ \A k \in (j + 1)..i : ~Heading(k)
        BY <3>1
      <4>2. j = i
        <5> HIDE DEF Heading, Named
        <5>1. j # i => i \in (j + 1)..i
          OBVIOUS
        <5> QED
          BY <2>1, <4>1, <5>1
      <4> QED
        BY <4>1, <4>2
    <3>2. ASSUME Named(i) PROVE Under(i)
      <4> HIDE DEF Heading, Named
      <4>1. i \in 1..i /\ (i + 1)..i = {}
        OBVIOUS
      <4> QED
        BY <3>2, <4>1
    <3> QED
      BY <2>1, <3>1, <3>2
  <2>2. CASE ~Heading(i)
    <3>1. ~Named(i)
      BY <2>2
    <3> HIDE DEF Heading, Named
    <3>2. ASSUME Under(i) PROVE Under(i - 1)
      <4>1. PICK j \in 1..i : Named(j) /\ \A k \in (j + 1)..i : ~Heading(k)
        BY <3>2
      <4>2. j \in 1..(i - 1) /\ \A k \in (j + 1)..(i - 1) : k \in (j + 1)..i
        BY <3>1, <4>1
      <4> QED
        BY <4>1, <4>2
    <3>3. ASSUME Under(i - 1) PROVE Under(i)
      <4>1. PICK j \in 1..(i - 1) : Named(j) /\ \A k \in (j + 1)..(i - 1) : ~Heading(k)
        BY <3>3
      <4>2. j \in 1..i /\ \A k \in (j + 1)..i : k = i \/ k \in (j + 1)..(i - 1)
        OBVIOUS
      <4> QED
        BY <2>2, <4>1, <4>2
    <3> QED
      BY <2>2, <3>2, <3>3
  <2> QED
    BY <2>1, <2>2
<1>3. i - 1 \in Nat /\ i \in Nat
  OBVIOUS
<1> HIDE DEF Under
<1> QED
  BY <1>1, <1>2, <1>3

\* section, line by line.
SectionAfter(lines, f, i) ==
    IF i = 0 THEN "" ELSE IF lines[i][1] = "[" THEN lines[i][2] ELSE f[i - 1]

IsSections(lines, f, m) == f = [i \in 0..m |-> SectionAfter(lines, f, i)]

LEMMA SectionsExist ==
    ASSUME NEW lines, NEW n \in Nat
    PROVE  \E f : IsSections(lines, f, n)
<1> DEFINE bad == {m \in Nat : ~\E f : IsSections(lines, f, m)}
<1> SUFFICES ASSUME bad # {} PROVE FALSE
  OBVIOUS
<1>1. PICK m \in bad : \A k \in bad : m <= k
  <2>1. bad \in SUBSET Nat
    OBVIOUS
  <2> HIDE DEF bad
  <2> QED
    BY <2>1, FirstPosition
<1>2. m # 0
  <2> DEFINE f == [i \in 0..0 |-> ""]
  <2>1. f = [i \in 0..0 |-> SectionAfter(lines, f, i)]
    BY DEF SectionAfter
  <2> HIDE DEF f
  <2>2. IsSections(lines, f, 0)
    BY <2>1 DEF IsSections
  <2> QED
    BY <2>2
<1>3. PICK g : IsSections(lines, g, m - 1)
  <2>1. m - 1 \in Nat /\ ~(m <= m - 1)
    BY <1>2
  <2> QED
    BY <1>1, <2>1
<1> DEFINE h == [i \in 0..m |-> IF i < m THEN g[i] ELSE SectionAfter(lines, g, m)]
<1>4. \A i \in 0..m : h[i] = SectionAfter(lines, h, i)
  <2> TAKE i \in 0..m
  <2>1. i # 0 => h[i - 1] = g[i - 1]
    OBVIOUS
  <2>2. SectionAfter(lines, h, i) = SectionAfter(lines, g, i)
    BY <2>1 DEF SectionAfter
  <2>3. i < m => g[i] = SectionAfter(lines, g, i)
    <3>1. i < m => i \in 0..(m - 1)
      OBVIOUS
    <3> QED
      BY <1>3, <3>1 DEF IsSections
  <2>4. h[i] = IF i < m THEN g[i] ELSE SectionAfter(lines, g, m)
    OBVIOUS
  <2>5. ~(i < m) => i = m
    OBVIOUS
  <2> HIDE DEF h
  <2> QED
    BY <2>2, <2>3, <2>4, <2>5
<1>5. h = [i \in 0..m |-> h[i]]
  OBVIOUS
<1> HIDE DEF h
<1>6. IsSections(lines, h, m)
  BY <1>4, <1>5 DEF IsSections
<1> QED
  BY <1>1, <1>6

\* values, line by line.
ValuesAfter(lines, sections, given, f, i) ==
    IF i = 0 THEN given
    ELSE IF lines[i][1] = "[" THEN f[i - 1]
    ELSE SetValue(f[i - 1], Key(sections[i], lines[i][1]), lines[i][2])

IsValues(lines, sections, given, f, m) ==
    f = [i \in 0..m |-> ValuesAfter(lines, sections, given, f, i)]

LEMMA ValuesExist ==
    ASSUME NEW lines, NEW sections, NEW given, NEW n \in Nat
    PROVE  \E f : IsValues(lines, sections, given, f, n)
<1> DEFINE bad == {m \in Nat : ~\E f : IsValues(lines, sections, given, f, m)}
           Following(f, i) == ValuesAfter(lines, sections, given, f, i)
<1> SUFFICES ASSUME bad # {} PROVE FALSE
  OBVIOUS
<1>1. PICK m \in bad : \A k \in bad : m <= k
  <2>1. bad \in SUBSET Nat
    OBVIOUS
  <2> HIDE DEF bad
  <2> QED
    BY <2>1, FirstPosition
<1>2. m # 0
  <2> DEFINE f == [i \in 0..0 |-> given]
  <2>1. f = [i \in 0..0 |-> Following(f, i)]
    BY DEF ValuesAfter
  <2> HIDE DEF f
  <2>2. IsValues(lines, sections, given, f, 0)
    BY <2>1 DEF IsValues
  <2> QED
    BY <2>2
<1>3. PICK g : IsValues(lines, sections, given, g, m - 1)
  <2>1. m - 1 \in Nat /\ ~(m <= m - 1)
    BY <1>2
  <2> QED
    BY <1>1, <2>1
<1> DEFINE h == [i \in 0..m |-> IF i < m THEN g[i] ELSE Following(g, m)]
<1>4. \A i \in 0..m : h[i] = Following(h, i)
  <2> TAKE i \in 0..m
  <2>1. i # 0 => h[i - 1] = g[i - 1]
    OBVIOUS
  <2>2. Following(h, i) = Following(g, i)
    <3> HIDE DEF h
    <3> QED
      BY <2>1 DEF ValuesAfter
  <2>3. i < m => g[i] = Following(g, i)
    <3>1. i < m => i \in 0..(m - 1)
      OBVIOUS
    <3> QED
      BY <1>3, <3>1 DEF IsValues
  <2>4. h[i] = IF i < m THEN g[i] ELSE Following(g, m)
    OBVIOUS
  <2>5. ~(i < m) => i = m
    OBVIOUS
  <2> HIDE DEF h, Following
  <2> QED
    BY <2>2, <2>3, <2>4, <2>5
<1>5. h = [i \in 0..m |-> h[i]]
  OBVIOUS
<1> HIDE DEF h
<1>6. IsValues(lines, sections, given, h, m)
  BY <1>4, <1>5 DEF IsValues
<1> QED
  BY <1>1, <1>6

\* Load unrolled: what section and values are after each line.
LEMMA LoadUnrolled ==
    ASSUME NEW lines, Len(lines) \in Nat, NEW given
    PROVE  \E sections, values :
              /\ Load(lines, given) = values[Len(lines)]
              /\ \A i \in 0..Len(lines) :
                    /\ sections[i] = SectionAfter(lines, sections, i)
                    /\ values[i] = ValuesAfter(lines, sections, given, values, i)
<1> DEFINE n == Len(lines)
           sections == CHOOSE f : IsSections(lines, f, n)
           values == CHOOSE f : IsValues(lines, sections, given, f, n)
<1>1. Load(lines, given) = values[n]
  BY Zenon DEF Load, IsSections, SectionAfter, IsValues, ValuesAfter
<1>2. IsSections(lines, sections, n)
  BY SectionsExist
<1> HIDE DEF sections
<1>3. IsValues(lines, sections, given, values, n)
  BY ValuesExist
<1> HIDE DEF values
<1>4. \A i \in 0..n : sections[i] = SectionAfter(lines, sections, i)
  BY <1>2 DEF IsSections
<1>5. \A i \in 0..n : values[i] = ValuesAfter(lines, sections, given, values, i)
  BY <1>3 DEF IsValues
<1> QED
  BY <1>1, <1>4, <1>5

\* section is empty where a line is in no section.
LEMMA SectionIsEmpty ==
    ASSUME NEW lines, NEW n \in Nat, NEW sections,
           \A i \in 0..n : sections[i] = SectionAfter(lines, sections, i)
    PROVE  \A i \in 0..n : sections[i] # "" <=> InSection(lines, i)
<1> DEFINE Right(i) == sections[i] # "" <=> InSection(lines, i)
           bad == {i \in 0..n : ~Right(i)}
<1>1. ASSUME NEW i \in 0..n, i # 0, Right(i - 1) PROVE Right(i)
  <2>1. i \in Nat \ {0}
    <3> HIDE DEF Right
    <3> QED
      BY <1>1
  <2>2. sections[i] = IF lines[i][1] = "[" THEN lines[i][2] ELSE sections[i - 1]
    BY <1>1 DEF SectionAfter
  <2>3. InSection(lines, i) <=>
            IF lines[i][1] = "[" THEN lines[i][2] # "" ELSE InSection(lines, i - 1)
    BY <2>1, SectionGoesOn
  <2> QED
    BY <1>1, <2>2, <2>3, Zenon
<1>2. Right(0)
  <2>1. 1..0 = {}
    OBVIOUS
  <2>2. ~InSection(lines, 0)
    BY <2>1, Zenon DEF InSection
  <2>3. 0 \in 0..n
    OBVIOUS
  <2>4. sections[0] = ""
    BY <2>3 DEF SectionAfter
  <2> QED
    BY <2>2, <2>4, Zenon
<1> HIDE DEF Right
<1>3. ASSUME bad # {} PROVE FALSE
  <2>1. PICK i \in bad : \A j \in bad : i <= j
    <3>1. bad \in SUBSET Nat
      OBVIOUS
    <3> HIDE DEF bad
    <3> QED
      BY <1>3, <3>1, FirstPosition
  <2>2. i \in 0..n /\ ~Right(i) /\ i # 0
    BY <1>2, <2>1
  <2>3. i - 1 \in 0..n /\ ~(i <= i - 1)
    BY <2>2
  <2> QED
    BY <1>1, <2>1, <2>2, <2>3
<1>4. \A i \in 0..n : Right(i)
  BY <1>3
<1> QED
  BY <1>4 DEF Right

\* The lines up to n that set a key, and which of them counts.
Setters(lines, key, n) == {i \in 1..n : lines[i][1] = key /\ ~InSection(lines, i)}

SetBy(lines, key, n, given, values) ==
    IF Setters(lines, key, n) = {}
    THEN /\ <<key>> \in DOMAIN values <=> <<key>> \in DOMAIN given
         /\ <<key>> \in DOMAIN given => values[<<key>>] = given[<<key>>]
    ELSE \E i \in Setters(lines, key, n) :
            /\ \A j \in Setters(lines, key, n) : j <= i
            /\ <<key>> \in DOMAIN values
            /\ values[<<key>>] = lines[i][2]

LEMMA LastSetterCounts ==
    ASSUME NEW lines, Len(lines) \in Nat, NEW given, NEW key, key # "["
    PROVE  SetBy(lines, key, Len(lines), given, Load(lines, given))
<1> DEFINE n == Len(lines)
<1>1. PICK sections, values :
         /\ Load(lines, given) = values[n]
         /\ \A i \in 0..n :
               /\ sections[i] = SectionAfter(lines, sections, i)
               /\ values[i] = ValuesAfter(lines, sections, given, values, i)
  BY LoadUnrolled
<1>2. \A i \in 0..n : sections[i] # "" <=> InSection(lines, i)
  BY <1>1, SectionIsEmpty
<1> DEFINE Good(i) == SetBy(lines, key, i, given, values[i])
           bad == {i \in 0..n : ~Good(i)}
<1>3. ASSUME bad # {} PROVE FALSE
  <2>1. PICK i \in bad : \A j \in bad : i <= j
    <3>1. bad \in SUBSET Nat
      OBVIOUS
    <3> HIDE DEF bad
    <3> QED
      BY <1>3, <3>1, FirstPosition
  <2>2. i # 0
    <3>1. values[0] = given
      BY <1>1 DEF ValuesAfter
    <3>2. Setters(lines, key, 0) = {}
      BY DEF Setters
    <3>3. Good(0)
      BY <3>1, <3>2 DEF SetBy
    <3> QED
      BY <2>1, <3>3
  <2>3. i \in 1..n /\ i - 1 \in 0..n
    BY <2>2
  <2>4. Good(i - 1)
    <3>1. ~(i <= i - 1)
      BY <2>3
    <3> HIDE DEF Good
    <3> QED
      BY <2>1, <2>3, <3>1
  <2> DEFINE mine == lines[i][1] = key /\ ~InSection(lines, i)
  <2>5. Setters(lines, key, i) = Setters(lines, key, i - 1) \cup (IF mine THEN {i} ELSE {})
    <3>1. 1..i = 1..(i - 1) \cup {i}
      BY <2>3
    <3> QED
      BY <3>1 DEF Setters
  <2>6. values[i] = IF lines[i][1] = "[" THEN values[i - 1]
                    ELSE SetValue(values[i - 1], Key(sections[i], lines[i][1]), lines[i][2])
    BY <1>1, <2>3 DEF ValuesAfter
  <2>7. CASE mine
    <3>1. lines[i][1] # "[" /\ sections[i] = ""
      BY <1>2, <2>3, <2>7
    <3>2. values[i] = SetValue(values[i - 1], <<key>>, lines[i][2])
      BY <2>6, <2>7, <3>1 DEF Key
    <3>3. <<key>> \in DOMAIN values[i] /\ values[i][<<key>>] = lines[i][2]
      BY <3>2 DEF SetValue
    <3>4. i \in Setters(lines, key, i) /\ \A j \in Setters(lines, key, i) : j <= i
      BY <2>3, <2>5, <2>7 DEF Setters
    <3>5. Good(i)
      BY <3>3, <3>4 DEF SetBy
    <3> QED
      BY <2>1, <3>5
  <2>8. CASE ~mine
    <3>1. Setters(lines, key, i) = Setters(lines, key, i - 1)
      BY <2>5, <2>8
    <3>2. /\ <<key>> \in DOMAIN values[i] <=> <<key>> \in DOMAIN values[i - 1]
          /\ <<key>> \in DOMAIN values[i - 1] => values[i][<<key>>] = values[i - 1][<<key>>]
      <4>1. CASE lines[i][1] = "["
        BY <2>6, <4>1
      <4>2. CASE lines[i][1] # "["
        <5>1. Key(sections[i], lines[i][1]) # <<key>>
          <6>1. CASE sections[i] = ""
            <7>1. lines[i][1] # key
              BY <1>2, <2>3, <2>8, <6>1
            <7> QED
              BY <6>1, <7>1 DEF Key
          <6>2. CASE sections[i] # ""
            <7>1. Len(<<sections[i], lines[i][1]>>) = 2 /\ Len(<<key>>) = 1
              OBVIOUS
            <7> QED
              BY <6>2, <7>1 DEF Key
          <6> QED
            BY <6>1, <6>2
        <5>2. values[i] = SetValue(values[i - 1], Key(sections[i], lines[i][1]), lines[i][2])
          BY <2>6, <4>2
        <5> QED
          BY <5>1, <5>2 DEF SetValue
      <4> QED
        BY <4>1, <4>2
    <3>3. Good(i)
      BY <2>4, <3>1, <3>2 DEF SetBy
    <3> QED
      BY <2>1, <3>3
  <2> QED
    BY <2>7, <2>8
<1>4. Good(n)
  <2>1. n \in 0..n
    OBVIOUS
  <2> HIDE DEF Good
  <2> QED
    BY <1>3, <2>1
<1> QED
  BY <1>1, <1>4

\* A setting of the whole file is the one that the lines outside of all sections
\* make, where no value and the empty one are the same.
LEMMA SettingIsEffective ==
    ASSUME NEW n \in 1..MaxRuns, NEW l \in LaunchSet(n), NEW key, key # "["
    PROVE  Get(Settings(l), key, "") = Effective(l, key)
<1> DEFINE m == Len(l.conf)
           args == LoadFromArgs(l.args)
           all == Load(l.conf, args)
           own == Setters(l.conf, key, m)
<1>1. m \in Nat /\ DOMAIN l.conf = 1..m
  BY FilesAreLines
<1>2. own = {i \in DOMAIN l.conf : l.conf[i][1] = key /\ ~InSection(l.conf, i)}
  BY <1>1 DEF Setters
<1>3. SetBy(l.conf, key, m, args, all)
  BY <1>1, LastSetterCounts
<1>4. own \in SUBSET (1..m)
  BY DEF Setters
<1> HIDE DEF m, args, all, own
<1>5. Get(all, key, "") = Effective(l, key)
  <2>1. CASE own = {}
    <3>1. /\ <<key>> \in DOMAIN all <=> <<key>> \in DOMAIN args
          /\ <<key>> \in DOMAIN args => all[<<key>>] = args[<<key>>]
      BY <1>3, <2>1 DEF SetBy, own
    <3>2. Effective(l, key) = Get(args, key, "")
      BY <1>2, <2>1, Zenon DEF Effective, args
    <3> QED
      BY <3>1, <3>2 DEF Get
  <2>2. CASE own # {}
    <3>1. PICK i \in own : /\ \A j \in own : j <= i
                           /\ <<key>> \in DOMAIN all /\ all[<<key>>] = l.conf[i][2]
      BY <1>3, <2>2, Zenon DEF SetBy, own
    <3> DEFINE last == CHOOSE x \in own : \A j \in own : j <= x
    <3>2. last \in own /\ \A j \in own : j <= last
      BY <3>1, Zenon
    <3>3. Effective(l, key) = l.conf[last][2]
      BY <1>2, <2>2, Zenon DEF Effective
    <3> HIDE DEF last
    <3>4. last = i
      <4>1. last <= i /\ i <= last /\ last \in 1..m /\ i \in 1..m
        BY <1>4, <3>1, <3>2
      <4> QED
        BY <1>1, <4>1
    <3> QED
      BY <3>1, <3>3, <3>4 DEF Get
  <2> QED
    BY <2>1, <2>2
<1> QED
  BY <1>5 DEF Settings, all, args

\* Whether a file and arguments ask for mining.
Asked(l) ==
    \/ Effective(l, "gen") # "" /\ ToInt(Effective(l, "gen")) # 0
    \/ Effective(l, "mine") = "1"

LEMMA MiningIsAsked ==
    ASSUME NEW n \in 1..MaxRuns, NEW l \in LaunchSet(n)
    PROVE  DoMine(Settings(l)) <=> Asked(l)
<1>1. /\ Get(Settings(l), "gen", "") = Effective(l, "gen")
      /\ Get(Settings(l), "mine", "") = Effective(l, "mine")
  BY SettingIsEffective
<1>2. GetInt(Settings(l), "gen", 0) # 0 <=>
          Effective(l, "gen") # "" /\ ToInt(Effective(l, "gen")) # 0
  BY <1>1 DEF GetInt
<1> QED
  BY <1>1, <1>2, Zenon DEF DoMine, Asked

\* Threads are started if and only if mining is asked for: at least one then.
LEMMA LaunchAsked ==
    ASSUME DaemonTypes, NEW l \in LaunchSet(runs + 1), Launch(l), phase' = "starting"
    PROVE  launch' = l /\ (Asked(l) <=> \E t \in Thread : work'[t].pc # "off")
<1> DEFINE values == Settings(l)
           limit == Cardinality(Thread)
<1>1. runs + 1 \in 1..MaxRuns /\ launch' = l
  BY DaemonConstants DEF Launch, DaemonTypes
<1>2. DoMine(values) <=> Asked(l)
  BY <1>1, MiningIsAsked
<1>3. ~Fatal(values)
  BY DEF Launch
<1>4. ThreadCount(values) \in Nat /\ ThreadCount(values) >= 1
  <2>1. Get(values, "genproclimit", "") \in Number \cup {""}
    BY <1>3 DEF Fatal, Throws
  <2>2. GetInt(values, "genproclimit", 2) \in Int
    <3> DEFINE v == Get(values, "genproclimit", "")
    <3>1. v = "" \/ ToInt(v) \in Int
      BY <2>1, ConfigConstants
    <3>2. v = "" => GetInt(values, "genproclimit", 2) = 2
      BY Zenon DEF GetInt
    <3>3. v # "" => GetInt(values, "genproclimit", 2) = ToInt(v)
      BY Zenon DEF GetInt
    <3>4. 2 \in Int
      OBVIOUS
    <3> QED
      BY <3>1, <3>2, <3>3, <3>4, Zenon
  <2>3. PICK i \in Int : i = GetInt(values, "genproclimit", 2)
    BY <2>2
  <2>4. i % WORD \in Nat
    BY DifficultyConstants
  <2>5. ThreadCount(values) = IF i % WORD = 0 THEN 1 ELSE i % WORD
    BY <2>3, Zenon DEF ThreadCount
  <2> QED
    BY <2>4, <2>5
<1>5. PICK ts \in SUBSET Thread :
         /\ Cardinality(ts) = AtMost(Threads(values), limit)
         /\ work' = [t \in Thread |-> IF t \in ts THEN [Off EXCEPT !.pc = "loop"] ELSE Off]
  BY <1>3 DEF Launch
<1> HIDE DEF values
<1>6. IsFiniteSet(ts)
  BY DaemonConstants, FS_Subset
<1>7. limit \in Nat /\ limit # 0
  BY DaemonConstants, FS_CardinalityType, FS_EmptySet
<1> HIDE DEF limit
<1>8. Cardinality(ts) # 0 <=> DoMine(values)
  BY <1>4, <1>5, <1>7 DEF Threads, AtMost
<1>9. ts # {} <=> DoMine(values)
  BY <1>6, <1>8, FS_EmptySet
<1>10. \A t \in Thread : work'[t].pc # "off" <=> t \in ts
  BY <1>5 DEF Off
<1> QED
  BY <1>1, <1>2, <1>9, <1>10

\* A process that was asked to mine has threads from its start until main stops
\* them, and any other has none.
MinesAsAsked ==
    phase \in {"starting", "up"} => (Asked(launch) <=> \E t \in Thread : work[t].pc # "off")

AskedInv == DaemonTypes /\ MinesAsAsked

LEMMA AskedStep == AskedInv /\ [DaemonNext]_daemonVars => AskedInv'
<1> SUFFICES ASSUME AskedInv, [DaemonNext]_daemonVars PROVE AskedInv'
  OBVIOUS
<1>1. DaemonTypes /\ DaemonTypes' /\ MinesAsAsked
  BY TypesStep DEF AskedInv
<1>2. ASSUME phase' \in {"starting", "up"}
      PROVE  Asked(launch') <=> \E t \in Thread : work'[t].pc # "off"
  <2>1. CASE \E l \in LaunchSet(runs + 1) : Launch(l)
    <3>1. phase' = "starting"
      BY <1>2, <2>1 DEF Launch
    <3> QED
      BY <1>1, <2>1, <3>1, LaunchAsked
  <2>2. ASSUME NEW t \in Thread, Wander(t) \/ Commit(t) \/ SaveItem(t)
        PROVE  Asked(launch') <=> \E u \in Thread : work'[u].pc # "off"
    <3>1. launch' = launch /\ phase' = phase
      BY <2>2, WanderIsQuiet DEF Commit, SaveItem
    <3>2. work = [u \in Thread |-> [pc |-> work[u].pc, tip |-> work[u].tip]]
      BY <1>1 DEF DaemonTypes
    <3>3. work[t].pc # "off" /\ work'[t].pc # "off"
      <4>1. ASSUME NEW pc, work' = [work EXCEPT ![t].pc = pc]
            PROVE  work'[t].pc = pc
        <5>1. work'[t] = [work[t] EXCEPT !.pc = pc]
          BY <3>2, <4>1
        <5>2. work[t] = [pc |-> work[t].pc, tip |-> work[t].tip]
          BY <3>2
        <5>3. work'[t] = [pc |-> pc, tip |-> work[t].tip]
          BY <5>1, <5>2, Zenon
        <5> QED
          BY <5>3
      <4>2. CASE Wander(t)
        <5>1. /\ work[t].pc \in {"loop", "search", "report"}
              /\ \/ \E pc \in {"search", "loop"} : work' = [work EXCEPT ![t].pc = pc]
                 \/ work' = [work EXCEPT ![t] = [pc |-> "admitted", tip |-> Tip]]
          <6>1. Mining
            BY <1>2, <3>1 DEF Mining
          <6> QED
            BY <4>2, <6>1, WanderIsQuiet
        <5>2. ASSUME work' = [work EXCEPT ![t] = [pc |-> "admitted", tip |-> Tip]]
              PROVE  work'[t].pc = "admitted"
          BY <3>2, <5>2
        <5> QED
          BY <4>1, <5>1, <5>2
      <4>3. CASE Commit(t)
        BY <1>1, <4>3, CommitEffect
      <4>4. CASE SaveItem(t)
        <5>1. work[t].pc = "saving" /\ work' \in {work, [work EXCEPT ![t].pc = "report"]}
          BY <4>4 DEF SaveItem, In
        <5> QED
          BY <4>1, <5>1
      <4> QED
        BY <2>2, <4>2, <4>3, <4>4
    <3>4. \E u \in Thread : work[u].pc # "off"
      BY <3>3
    <3> QED
      BY <1>1, <1>2, <3>1, <3>3, <3>4 DEF MinesAsAsked
  <2>3. CASE Aside
    <3>1. UNCHANGED <<launch, work>> /\ phase' # "off"
      BY <1>2, <2>3, AsideIsQuiet
    <3>2. phase \in {"starting", "up"}
      <4>1. CASE MainLogged
        <5>1. phase' = NextPhase[phase] /\ holder = "main"
          BY <4>1 DEF MainLogged
        <5>2. phase \in DOMAIN NextPhase
          BY <1>1, <5>1 DEF DaemonTypes, HasToLog
        <5>3. phase = "starting"
          BY <1>2, <5>1, <5>2 DEF NextPhase
        <5> QED
          BY <5>3
      <4>2. CASE SpawnFails \/ Unwind \/ Poll \/ Summarize
        BY <1>2, <4>2 DEF SpawnFails, Unwind, Poll, Summarize
      <4>3. CASE Handle \/ \E u \in Actor : TakeLogger(u) \/ Signal(u)
        BY <1>2, <4>3 DEF TakeLogger, Signal, Handle
      <4> QED
        BY <2>3, <4>1, <4>2, <4>3 DEF Aside, MainStep
    <3> QED
      BY <1>1, <3>1, <3>2 DEF MinesAsAsked
  <2>4. CASE UNCHANGED daemonVars
    <3>1. UNCHANGED <<phase, launch, work>>
      BY <2>4 DEF daemonVars, procVars
    <3> QED
      BY <1>1, <1>2, <3>1 DEF MinesAsAsked
  <2>5. CASE Crash
    BY <1>2, <2>5 DEF Crash
  <2> QED
    BY <2>1, <2>2, <2>3, <2>4, <2>5, Steps
<1>3. MinesAsAsked'
  BY <1>2 DEF MinesAsAsked
<1> QED
  BY <1>1, <1>3 DEF AskedInv

\* MinesAsAsked: until main stops them, threads mine exactly when the arguments or
\* the lines of shawncoin.conf outside of all sections ask for it.
THEOREM SettingsDecide == DaemonSpec => []MinesAsAsked
<1>1. DaemonInit => AskedInv
  BY InitialTypes DEF DaemonInit, AskedInv, MinesAsAsked
<1>2. AskedInv => MinesAsAsked
  BY DEF AskedInv
<1> QED
  BY <1>1, <1>2, AskedStep, PTL DEF DaemonSpec

-----------------------------------------------------------------------------
(* What getBlock makes of what putBlock stored.                            *)

\* The two ways to say that no script of a block is too long.
LEMMA LimitIsFit == ASSUME NEW block, IsBlock(block) PROVE WithinLimit(block) <=> BlockFits(block)
<1>1. ASSUME NEW list, IsList(list) PROVE DOMAIN list = 1..Len(list)
  BY <1>1 DEF IsList
<1>2. /\ DOMAIN block.txs = 1..Len(block.txs)
      /\ \A i \in DOMAIN block.txs :
            /\ DOMAIN block.txs[i].inputs = 1..Len(block.txs[i].inputs)
            /\ DOMAIN block.txs[i].outputs = 1..Len(block.txs[i].outputs)
  BY <1>1 DEF IsBlock, IsTransaction
<1> QED
  BY <1>2, Zenon DEF WithinLimit, BlockFits, TransactionFits, InputFits, OutputFits

\* A step that stores a block.
LEMMA StepReads ==
    ASSUME DaemonTypes, [DaemonNext]_daemonVars,
           NEW hash \in DOMAIN blocks' \ DOMAIN blocks
    PROVE  \E m \in mined'[runs] :
              LET data == blocks'[hash]
                  got  == DeserializeBlock(data)
              IN  /\ BlockHash(m.block) = hash
                  /\ got.ok <=> WithinLimit(m.block)
                  /\ got.ok => got.val = m.block
                  /\ \A n \in {HEADER_CELLS, Len(data) \div 2, Len(data) - 1} :
                        ~DeserializeBlock(SubSeq(data, 1, n)).ok
<1>1. PICK t \in Thread : Commit(t)
  <2>1. DOMAIN NoBlocks = {}
    BY DEF NoBlocks
  <2>2. blocks' # blocks /\ blocks' # NoBlocks
    BY <2>1
  <2> QED
    BY <2>2, Steps, AsideIsQuiet, WanderIsQuiet
       DEF daemonVars, storeVars, Launch, NewStore, SaveItem, WriteItem, Crash
<1>2. PICK now \in Seconds(runs) :
         /\ runs \in 1..MaxRuns
         /\ blocks' = Assign(blocks, BlockHash(Committed(t, now).block),
                             SerializeBlock(Committed(t, now).block))
         /\ mined' = [r \in 1..MaxRuns |->
                         IF r = runs THEN mined[r] \cup {Committed(t, now)} ELSE mined[r]]
  BY <1>1, CommitEffect, Zenon
<1>3. PICK m : m = Committed(t, now)
  OBVIOUS
<1>4. m \in mined'[runs]
  BY <1>2, <1>3
<1>5. PICK block : block = m.block
  OBVIOUS
<1>6. IsBlock(block)
  <2>1. block = NewBlock(work[t].tip, now)
    BY <1>3, <1>5 DEF Committed
  <2> QED
    BY <1>2, <2>1, CommitsBlock
<1>7. hash = BlockHash(block) /\ blocks'[hash] = SerializeBlock(block)
  BY <1>2, <1>3, <1>5 DEF Assign
<1>8. PICK data : data = SerializeBlock(block)
  OBVIOUS
<1>9. /\ Len(data) \in Nat /\ Len(data) > HEADER_CELLS
      /\ DeserializeBlock(data).ok <=> BlockFits(block)
      /\ DeserializeBlock(data).ok => DeserializeBlock(data).val = block
      /\ \A n \in 0..(Len(data) - 1) : ~DeserializeBlock(SubSeq(data, 1, n)).ok
  BY <1>6, <1>8, BlocksAreRead
<1>10. \A n \in {HEADER_CELLS, Len(data) \div 2, Len(data) - 1} : n \in 0..(Len(data) - 1)
  BY <1>9 DEF HEADER_CELLS
<1>11. WithinLimit(block) <=> BlockFits(block)
  BY <1>6, LimitIsFit
<1> QED
  BY <1>4, <1>5, <1>7, <1>8, <1>9, <1>10, <1>11, Zenon

\* ReadBack: whatever a process mines, what its chain state holds of a block is
\* read as the block exactly when no script in it is too long for a reader, and
\* no part of it is read.
THEOREM StoredIsReadBack == DaemonSpec => ReadBack
<1>1. DaemonTypes /\ [DaemonNext]_daemonVars =>
         [\A hash \in DOMAIN blocks' \ DOMAIN blocks : \E m \in mined'[runs] :
             LET data == blocks'[hash]
                 got  == DeserializeBlock(data)
             IN  /\ BlockHash(m.block) = hash
                 /\ got.ok <=> WithinLimit(m.block)
                 /\ got.ok => got.val = m.block
                 /\ \A n \in {HEADER_CELLS, Len(data) \div 2, Len(data) - 1} :
                       ~DeserializeBlock(SubSeq(data, 1, n)).ok]_daemonVars
  BY StepReads, Zenon
<1> QED
  BY <1>1, TypesInvariant, PTL DEF DaemonSpec, ReadBack
=============================================================================
