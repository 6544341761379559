------------------------------- MODULE Ledger -------------------------------
(***************************************************************************)
(* What the chain promises, with no threads, caches or partial steps: a    *)
(* sequence of blocks that grows at its end by one valid block at a time,  *)
(* and the coins that the sequence leaves unspent.                         *)
(***************************************************************************)
EXTENDS Integers, Sequences

CONSTANTS
    Block,
    Genesis,
    BlockHash(_),
    SpentBy(_),                 \* outpoints a block spends
    ApplyBlock(_, _),           \* the coins after a block
    NoCoins

VARIABLES chain, coins

Init ==
    /\ chain = <<Genesis>>
    /\ coins = ApplyBlock(Genesis, NoCoins)

\* A block extends the last one and spends only coins that are there.
Extend(block) ==
    /\ block.prev = BlockHash(chain[Len(chain)])
    /\ \A i \in DOMAIN chain : BlockHash(chain[i]) # BlockHash(block)
    /\ SpentBy(block) \subseteq DOMAIN coins
    /\ chain' = Append(chain, block)
    /\ coins' = ApplyBlock(block, coins)

Next == \E block \in Block : Extend(block)

Spec == Init /\ [][Next]_<<chain, coins>>
=============================================================================
