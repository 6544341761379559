----------------------------- MODULE MCSpending -----------------------------
(***************************************************************************)
(* Mining threads and a transaction that spends the coin of genesis, which *)
(* every coinbase of the same reward restores.                             *)
(***************************************************************************)
EXTENDS MCMiner, Spending
=============================================================================
