------------------------------ MODULE ChainStore ------------------------------
(***************************************************************************)
(* storage/chainstate.cpp: encoded blocks under their hashes, the best     *)
(* block, and blockchain.dat.  The file is a sequence of items, one for    *)
(* each fwrite:                                                            *)
(*                                                                         *)
(*   "SHWN", version, count, best hash, best height, {size, data}          *)
(*                                                                         *)
(* saveToDisk truncates the file and then writes item by item, so that a   *)
(* process that dies leaves a prefix.  No result of fwrite is looked at:   *)
(* an item may be lost and later ones be written at the wrong place.  The  *)
(* model takes such a file to end at the lost item.  A missing file and an *)
(* empty one are the same to a reader: << >>.  Nothing calls loadFromDisk; *)
(* what it would make of a file is an operator.                            *)
(***************************************************************************)
EXTENDS Codec, FiniteSets

VARIABLES
    blocks,                     \* blocks_: hash -> encoded block
    best,                       \* bestHash_ and bestHeight_
    file,                       \* blockchain.dat, up to the first lost item
    gap,                        \* whether the last save has lost an item
    unsaved                     \* items that a save under way has yet to write

storeVars == <<blocks, best, file, gap, unsaved>>

NoBlocks == [h \in {} |-> << >>]
NoBest == [hash |-> NullHash, height |-> 0]

\* A new process; the file is what the last one left.
NewStore ==
    /\ blocks' = NoBlocks
    /\ best' = NoBest
    /\ unsaved' = << >>
    /\ gap' = FALSE
    /\ UNCHANGED file

StoreInit ==
    /\ blocks = NoBlocks
    /\ best = NoBest
    /\ file = << >>
    /\ gap = FALSE
    /\ unsaved = << >>

-----------------------------------------------------------------------------
(* Every operation holds mutex_, a save from its first item to its last.   *)

Saving == unsaved # << >>

\* The header counts the blocks; they follow in the order of their hashes, a
\* fixed but arbitrary one.
FileOf(stored, tip) ==
    LET hashes == Seqs!SetToSeq(DOMAIN stored)
        item(i) == IF i % 2 = 1 THEN Len(stored[hashes[(i + 1) \div 2]])
                   ELSE stored[hashes[i \div 2]]
    IN  <<"SHWN", 1, Len(hashes), tip.hash, tip.height>>
            \o [i \in 1..(2 * Len(hashes)) |-> item(i)]

\* fopen truncates, or fails and leaves the file alone.
BeginSave(stored, tip) ==
    \/ file' = << >> /\ gap' = FALSE /\ unsaved' = FileOf(stored, tip)
    \/ UNCHANGED <<file, gap>> /\ unsaved' = << >>

\* One fwrite, which may fail; the next one may succeed again.
WriteItem ==
    /\ Saving
    /\ unsaved' = Tail(unsaved)
    /\ \/ gap' = TRUE /\ UNCHANGED file
       \/ /\ file' = IF gap THEN file ELSE Append(file, Head(unsaved))
          /\ UNCHANGED gap
    /\ UNCHANGED <<blocks, best>>

\* MUTANT of StoreBlock: the save comes before setBestBlock.
StoreBlockSavesFirst(hash, block, height, due) ==
    LET tip == [hash |-> hash, height |-> height]
    IN  /\ ~Saving
        /\ blocks' = Assign(blocks, hash, SerializeBlock(block))
        /\ best' = tip
        /\ IF due THEN BeginSave(blocks', best) ELSE UNCHANGED <<file, gap, unsaved>>

\* putBlock, setBestBlock and, when it is due, the start of saveToDisk
StoreBlock(hash, block, height, due) ==
    LET tip == [hash |-> hash, height |-> height]
    IN  /\ ~Saving
        /\ blocks' = Assign(blocks, hash, SerializeBlock(block))
        /\ best' = tip
        /\ IF due THEN BeginSave(blocks', tip) ELSE UNCHANGED <<file, gap, unsaved>>

GetBlock(hash) ==
    IF hash \in DOMAIN blocks THEN DeserializeBlock(blocks[hash]) ELSE Failed

-----------------------------------------------------------------------------
(* loadFromDisk                                                            *)

\* How many blocks come with both their size and their data.
CompleteBlocks(f) == AtMost(f[3], (Len(f) - 5) \div 2)

\* The hash of the i-th block is never computed: it is stored under keys[i],
\* whatever the stack held.  A refusal leaves behind what was read until then.
LoadFromDisk(f, stored, tip, keys) ==
    IF Len(f) < 3 \/ f[1] # "SHWN" \/ f[2] # 1
    THEN [ok |-> FALSE, blocks |-> stored, best |-> tip]
    ELSE IF Len(f) < 5
    THEN [ok |-> FALSE, blocks |-> stored,
          best |-> [hash |-> IF Len(f) = 4 THEN f[4] ELSE tip.hash, height |-> tip.height]]
    ELSE LET n == CompleteBlocks(f)
             LastUnder(key) == CHOOSE i \in 1..n :
                 keys[i] = key /\ \A j \in (i + 1)..n : keys[j] # key
         IN  [ok     |-> n = f[3],
              blocks |-> [key \in {keys[i] : i \in 1..n} |-> f[5 + 2 * LastUnder(key)]],
              best   |-> [hash |-> f[4], height |-> f[5]]]

\* With a key of its own for every block, all the data come back.
Reader(f) == LoadFromDisk(f, NoBlocks, NoBest, [i \in 1..Len(f) |-> i])

Contents(stored, tip) == [data |-> {stored[k] : k \in DOMAIN stored}, best |-> tip]

=============================================================================
