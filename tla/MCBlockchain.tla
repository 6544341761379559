---------------------------- MODULE MCBlockchain ----------------------------
(***************************************************************************)
(* Small instances of Blockchain for TLC.  Bytes have four values and      *)
(* hashes eight bytes; a retarget comes every second block, a save too.    *)
(*                                                                         *)
(*   genesis -- A1 -- A2 -- A3        A2 and X2 spend genesis' coin        *)
(*          \     \-- X2              A3 spends the output of A2           *)
(*           \     \- D2, E2          D2, E2 spend genesis' coin twice     *)
(*            \-- B1 -- B2            B2 spends genesis' coin              *)
(***************************************************************************)
EXTENDS Blockchain, TLC

\* The nonce stands for the hash: 0 is below every target, 3 above each one.
MCHashBytes(block) == [i \in 0..7 |-> block.nonce]

MCTx(ops, outs) ==
    [inputs  |-> [i \in DOMAIN ops |-> [prev |-> ops[i], sig |-> "sig"]],
     outputs |-> outs]

MCPay(amount, script) == [amount |-> amount, script |-> script]

\* The height goes into the signature of a coinbase, which is not hashed.
MCCoinbase(h, amount, payout) ==
    [inputs  |-> <<[prev |-> CoinbaseOutPoint, sig |-> h]>>,
     outputs |-> <<MCPay(amount, payout)>>]

MCMake(prev, time, bits, txs) ==
    [prev |-> prev, root |-> ComputeMerkleRoot(txs), time |-> time, bits |-> bits,
     nonce |-> 0, txs |-> txs]

InitialBits == 7 * MANTISSA_UNIT + 15       \* 0x1d00ffff
EasyBits == 4 * MANTISSA_UNIT + 15          \* 0x0400ffff

G  == MCMake(NullHash, 0, InitialBits, <<MCCoinbase(0, 4, "zero")>>)
G0 == OutPoint(TxId(G.txs[1]), 0)

\* Two transactions that spend the same coin, and one that spends the first.
PayX == MCTx(<<G0>>, <<MCPay(3, "x"), MCPay(1, "z")>>)
PayY == MCTx(<<G0>>, <<MCPay(4, "y")>>)
PayXOn == MCTx(<<OutPoint(TxId(PayX), 0), OutPoint(TxId(PayX), 1)>>, <<MCPay(4, "w")>>)

\* What checkDifficulty expects at height 2 on top of a block at time 8.
NextBits == GetAdaptiveNextDifficulty(EasyBits, 8, 0, 2, 2)

A1 == MCMake(BlockHash(G), 8, EasyBits, <<MCCoinbase(1, 4, "a")>>)
B1 == MCMake(BlockHash(G), 8, EasyBits, <<MCCoinbase(1, 4, "b")>>)
A2 == MCMake(BlockHash(A1), 16, NextBits, <<MCCoinbase(2, 4, "a"), PayX>>)
X2 == MCMake(BlockHash(A1), 16, NextBits, <<MCCoinbase(2, 4, "a"), PayY>>)
B2 == MCMake(BlockHash(B1), 16, NextBits, <<MCCoinbase(2, 4, "b"), PayY>>)
A3 == MCMake(BlockHash(A2), 24, NextBits, <<MCCoinbase(3, 4, "a"), PayXOn>>)
D2 == MCMake(BlockHash(A1), 16, NextBits, <<MCCoinbase(2, 4, "a"), PayX, PayY>>)

E2 == MCMake(BlockHash(A1), 16, NextBits,
          <<MCCoinbase(2, 4, "a"), MCTx(<<G0, G0>>, <<MCPay(8, "x")>>)>>)

\* Blocks that are refused, each for a reason of its own.
BadRoot     == [A1 EXCEPT !.root = NullHash]
NoTxs       == MCMake(BlockHash(G), 8, EasyBits, << >>)
NotCoinbase == MCMake(BlockHash(G), 8, EasyBits, <<PayX>>)
TooFar      == MCMake(BlockHash(G), 30, EasyBits, <<MCCoinbase(1, 4, "a")>>)
ZeroTarget  == MCMake(BlockHash(G), 8, 4 * MANTISSA_UNIT, <<MCCoinbase(1, 4, "a")>>)
NoWork      == [A1 EXCEPT !.nonce = 3]
BadBits2    == MCMake(BlockHash(A1), 16, EasyBits, <<MCCoinbase(2, 4, "a")>>)
BadBits3    == MCMake(BlockHash(A2), 24, EasyBits, <<MCCoinbase(3, 4, "a")>>)
TooMuch     == MCMake(BlockHash(A1), 16, NextBits,
                   <<MCCoinbase(2, 4, "a"), MCTx(<<G0>>, <<MCPay(9, "x")>>)>>)
Unfunded    == MCMake(BlockHash(A1), 16, NextBits, <<MCCoinbase(2, 4, "a"), PayXOn>>)

Refused == {BadRoot, NoTxs, NotCoinbase, TooFar, ZeroTarget, NoWork, BadBits2,
            BadBits3, TooMuch, Unfunded}

RaceBlocks == {A1, A2, A3, B1, B2, Unfunded}
SerialBlocks == {A1, A2, A3, B1, B2, X2, D2, E2} \cup Refused

MCThreads == Permutations(Thread)
=============================================================================
