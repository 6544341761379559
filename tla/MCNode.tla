-------------------------------- MODULE MCNode --------------------------------
(***************************************************************************)
(* Two systems that share nothing, in one run: the program of Node with    *)
(* its clients, and the owner of a server.  Whichever moves first is the   *)
(* one that is explored.  The numbers of Base58 are so small that one      *)
(* address in 64 would be read backwards by accident; the checksum is one  *)
(* for which none of these addresses is (in the program it is one in 2^40).*)
(***************************************************************************)
EXTENDS Node, Servers

\* Words 6 and 7 are missing: two phrases are cut to one, and one to nothing.
MCDraws == {<<0, 1>>, <<0, 6>>, <<0, 7>>, <<7, 0>>}

MCPhrases == <<<<0, 1>>, <<0>>, << >>, <<8>>, <<9>>>>
MCSeedNumber(seed) ==
    (CHOOSE i \in DOMAIN MCPhrases : MCPhrases[i] = seed[1]) - 1 + (IF seed[2] = "" THEN 0 ELSE 5)
MCHash160(seed, index) == <<MCSeedNumber(seed), index>>
MCChecksum(bytes) == <<(2 * bytes[1] + 3 * bytes[2] + 4 * bytes[3] + 2) % 8>>

\* Somebody paid the first addresses of two wallets, a script and the zero hash.
MCCoins == <<[amount |-> 2, hash |-> <<0, 0>>], [amount |-> 3, hash |-> <<1, 1>>],
             [amount |-> 1, hash |-> << >>], [amount |-> 1, hash |-> <<0, 1>>]>>
MCAddress == PubKeyHashToAddress(<<4, 2>>)
MCAcceptsBlock(hex) == hex = "block"

MCInit == NodeInit /\ ServersInit

MCNext ==
    \/ kind = "rpc" /\ owner = "free" /\ starts = 0 /\ NodeNext /\ UNCHANGED serversVars
    \/ runs = 0 /\ steps = 0 /\ ServersNext /\ UNCHANGED nodeVars

MCSpec == MCInit /\ [][MCNext]_<<nodeVars, serversVars>> /\ ServersFairness
=============================================================================
