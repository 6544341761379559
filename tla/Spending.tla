------------------------------ MODULE Spending ------------------------------
(***************************************************************************)
(* How often a coin may be spent.  Nothing takes a confirmed transaction   *)
(* out of the pool, so that every later template offers it again; what     *)
(* spend answers is ignored; and coinbases of one reward and payout have   *)
(* one txid, so that each of them restores the coin of the one before.     *)
(* Beside the miner runs a count of the puts of every coin.                *)
(***************************************************************************)
EXTENDS Miner

VARIABLE puts                   \* history: outpoint -> number of puts

spendingVars == <<nodeVars, puts>>

\* The coins that the step puts into the UTXO set.
PutNow ==
    UNION {{CreatedAt(frame[t].block, p) : p \in frame[t].todo \ frame'[t].todo} :
              t \in {u \in Thread : At(u, "put")}}

Minted(op) == IF op \in DOMAIN puts THEN puts[op] ELSE 0

CountPuts ==
    puts' = [op \in DOMAIN puts \cup PutNow |->
                Minted(op) + IF op \in PutNow THEN 1 ELSE 0]

SpendingInit == MinerInit /\ puts = [op \in CreatedBy(Genesis) |-> 1]

SpendingNext == MinerNext /\ CountPuts

SpendingSpec == SpendingInit /\ [][SpendingNext]_spendingVars

-----------------------------------------------------------------------------
\* What belongs to a branch with every one of its blocks.
Closed(hashes) ==
    \A h \in hashes : blockCache[h].prev \in DOMAIN blockCache => blockCache[h].prev \in hashes

\* The block with this hash and all that it is built on.
Branch(hash) ==
    {h \in DOMAIN blockCache :
        \A hashes \in SUBSET DOMAIN blockCache :
            hash \in hashes /\ Closed(hashes) => h \in hashes}

Spenders(hash, op) == {h \in Branch(hash) : op \in SpentBy(blockCache[h])}

\* However the threads' calls of addBlock overlap, no branch spends a coin in
\* more blocks than there were puts of it.  (Blocks on different branches may:
\* between the check of the inputs and spend another thread takes the coin.)
SpendsAreBacked ==
    \A a \in accepted : \A op \in SpentBy(blockCache[a[1]]) :
        Cardinality(Spenders(a[1], op)) <= Minted(op)
=============================================================================
