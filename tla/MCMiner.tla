------------------------------- MODULE MCMiner -------------------------------
(***************************************************************************)
(* A node with up to two mining threads for TLC.                           *)
(***************************************************************************)
EXTENDS Miner, TLC

MCGenesis ==
    LET txs == <<Coinbase(GetBlockSubsidy(0))>>
    IN  [prev |-> NullHash, root |-> ComputeMerkleRoot(txs), time |-> 0,
         bits |-> 7 * MANTISSA_UNIT + 15, nonce |-> 0, txs |-> txs]

MCEasy == 4 * MANTISSA_UNIT + 15

\* Transactions that spend the coin of genesis; the last creates too much.
MCPay(amount, script) ==
    [inputs  |-> <<[prev |-> OutPoint(TxId(MCGenesis.txs[1]), 0), sig |-> NullHash]>>,
     outputs |-> <<[amount |-> amount, script |-> script]>>]

MCTxs == {MCPay(8, "x"), MCPay(8, "y"), MCPay(21, "z")}
MCOneTx == {MCPay(8, "x")}

\* The second nonce is good for an empty template.  A template with a
\* transaction has the first, except for "y" right upon genesis: none.
MCHashBytes(block) ==
    LET early == block.prev = BlockHash(MCGenesis)
        good  == IF Len(block.txs) = 1 THEN 1
                 ELSE IF early /\ block.txs[2].outputs[1].script = "y" THEN 9 ELSE 0
    IN  [i \in 0..7 |-> IF block.nonce = good THEN 0 ELSE 3]

MCThreads == Permutations(Thread)
=============================================================================
