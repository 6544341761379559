------------------------------ MODULE CoreTypes ------------------------------
(***************************************************************************)
(* Transactions, blocks and the checks on them that need no chain:         *)
(* core/types.{hpp,cpp}, mining/merkle.cpp and the two stateless           *)
(* validators of core/consensus.cpp.                                       *)
(*                                                                         *)
(* SHA-256d is taken to be free of collisions: the hash of a message is    *)
(* the message itself, so two hashes are equal exactly when everything     *)
(* that was fed to the hash function is equal.  What is NOT fed to it      *)
(* (signatures in a txid, transactions in a block hash) is lost, exactly   *)
(* as in the code.  version and lock_time never vary in the program and    *)
(* are left out; so are the uint8_t counts of getTxid (more than 255       *)
(* inputs, outputs or script bytes).                                       *)
(*                                                                         *)
(*   transaction  [inputs  : sequence of [prev : outpoint, sig : any],     *)
(*                 outputs : sequence of [amount : Nat, script : any]]     *)
(*   block        [prev, root : hash, time, bits, nonce : Nat,             *)
(*                 txs : sequence of transactions]                         *)
(***************************************************************************)
EXTENDS Difficulty

CONSTANTS
    NullHash,                   \* the all-zero uint256
    MAX_MONEY,
    MAX_FUTURE,                 \* 2 * 60 * 60 seconds in consensus.cpp
    SUBSIDY_HALVING_INTERVAL,
    INITIAL_BLOCK_SUBSIDY,
    HashBytes(_)                \* the 32 bytes of a block's hash, last most significant

ASSUME ConsensusConstants ==
    /\ MAX_MONEY \in Nat
    /\ MAX_FUTURE \in Nat
    /\ SUBSIDY_HALVING_INTERVAL \in Nat \ {0}
    /\ INITIAL_BLOCK_SUBSIDY \in Nat

-----------------------------------------------------------------------------
(* std::map, as a function whose domain is the set of its keys.            *)

\* map_[key] = value
Assign(map, key, value) ==
    [k \in DOMAIN map \cup {key} |-> IF k = key THEN value ELSE map[k]]

\* map_.erase(key)
Erase(map, key) == [k \in DOMAIN map \ {key} |-> map[k]]

-----------------------------------------------------------------------------
(* Transactions.                                                           *)

OutPoint(hash, index) == [hash |-> hash, index |-> index]

\* prev_tx_hash = 0, output_index = 0xffffffff
CoinbaseOutPoint == OutPoint(NullHash, -1)

IsCoinbase(tx) ==
    /\ Len(tx.inputs) = 1
    /\ tx.inputs[1].prev = CoinbaseOutPoint

\* The signatures (and in a coinbase, the height script) are not hashed.
TxId(tx) ==
    [spends  |-> [i \in DOMAIN tx.inputs |-> tx.inputs[i].prev],
     outputs |-> tx.outputs]

OutputSum(tx) ==
    LET sum[j \in 0..Len(tx.outputs)] ==
            IF j = 0 THEN 0 ELSE sum[j - 1] + tx.outputs[j].amount
    IN  sum[Len(tx.outputs)]

ValidateTransactionStructure(tx) ==
    /\ tx.outputs # << >>
    /\ \A j \in DOMAIN tx.outputs : tx.outputs[j].amount <= MAX_MONEY
    /\ OutputSum(tx) <= MAX_MONEY
    /\ IsCoinbase(tx) \/ tx.inputs # << >>

GetBlockSubsidy(height) ==
    LET halvings == height \div SUBSIDY_HALVING_INTERVAL
    IN  IF halvings >= 32 THEN 0
        ELSE INITIAL_BLOCK_SUBSIDY \div (2 ^ halvings)

-----------------------------------------------------------------------------
(* Blocks.                                                                 *)

\* One level of the Merkle tree: hash neighbours, an odd last one with itself.
MerkleLevel(row) ==
    [i \in 1..((Len(row) + 1) \div 2) |->
        <<row[2 * i - 1], row[IF 2 * i <= Len(row) THEN 2 * i ELSE 2 * i - 1]>>]

ComputeMerkleRoot(txs) ==
    LET level[n \in 0..Len(txs)] ==
            IF n = 0 THEN [i \in DOMAIN txs |-> <<TxId(txs[i])>>]
            ELSE IF Len(level[n - 1]) > 1 THEN MerkleLevel(level[n - 1])
            ELSE level[n - 1]
    IN  IF txs = << >> THEN NullHash ELSE level[Len(txs)][1]

\* Only the header is hashed: the transactions count through the root alone.
BlockHash(block) ==
    <<block.prev, block.root, block.time, block.bits, block.nonce>>

CheckProofOfWork(block) == TargetLeq(HashBytes(block), DecodeTarget(block.bits))

\* now is what std::time returned.
ValidateBlockStructure(block, now) ==
    /\ block.txs # << >>
    /\ IsCoinbase(block.txs[1])
    /\ block.root = ComputeMerkleRoot(block.txs)
    /\ block.time <= now + MAX_FUTURE
    /\ Mantissa(block.bits) # 0
    /\ CheckProofOfWork(block)

-----------------------------------------------------------------------------
(* The loops of connectBlock and connectBlockUTXO over a block: positions  *)
(* <<transaction, input or output>>, visited in lexicographic order.  The  *)
(* first transaction's inputs are skipped, its outputs are not.            *)

InputPositions(block) ==
    UNION {{<<i, j>> : j \in DOMAIN block.txs[i].inputs} : i \in 2..Len(block.txs)}

OutputPositions(block) ==
    UNION {{<<i, j>> : j \in DOMAIN block.txs[i].outputs} : i \in DOMAIN block.txs}

IsFirst(p, positions) ==
    \A q \in positions : p[1] < q[1] \/ (p[1] = q[1] /\ p[2] <= q[2])

SpentAt(block, p) == block.txs[p[1]].inputs[p[2]].prev

CreatedAt(block, p) == OutPoint(TxId(block.txs[p[1]]), p[2] - 1)

OutputAt(block, p) == block.txs[p[1]].outputs[p[2]]

=============================================================================
