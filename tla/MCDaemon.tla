------------------------------- MODULE MCDaemon -------------------------------
(***************************************************************************)
(* Two processes of the daemon for TLC.  Bytes have four values, so that   *)
(* lengths from 1 on take three bytes and from 16 on five; scripts are     *)
(* bounded by 10.  The first process sees two seconds, at one of which the *)
(* mempool holds a transaction with a script that is too long for a        *)
(* reader; in the second process it holds one with many outputs.           *)
(***************************************************************************)
EXTENDS Daemon, TLC

\* The threads of a process are alike.
MCSymmetry == Permutations(Thread)

MCHashBytes(block) == << >>

MCGenesis == MakeGenesisBlock(<<1, 2, 3>>, <<0>>, 0, 1)

MCPayout == <<7>>

MCOneSecond(run) == {10}
MCSeconds(run) == IF run = 1 THEN {10, 11} ELSE {20}

MCPays(outputs) ==
    [inputs  |-> <<[prev |-> OutPoint(NullHash, 0), sig |-> <<4>>, pubkey |-> <<2, 2>>]>>,
     outputs |-> outputs]

MCBytes(n) == [i \in 1..n |-> 1]
MCTooLong == MCPays(<<[amount |-> 1, script |-> MCBytes(11)]>>)
MCManyOutputs == MCPays([i \in 1..16 |-> [amount |-> 1, script |-> MCBytes(10 * (i \div 16))]])

MCPooled(now) ==
    CASE now = 11 -> <<MCTooLong>>
      [] now = 20 -> <<MCManyOutputs>>
      [] OTHER -> << >>

MCNumber == {"-1", "0", "1"}
MCToInt(v) == CASE v = "-1" -> -1 [] v = "0" -> 0 [] v = "1" -> 1

MCStart(args, conf) == [args |-> args, conf |-> conf]

\* A signal comes to main of the first process, or to anyone.
MCHitMain(run) == IF run = 1 THEN {"main"} ELSE {}
MCHitAnyone(run) == Actor

MCMine == MCStart(<<<<"--mine">>>>, << >>)

\* The first process mines with the two threads of the default, or asks for
\* more than the system gives.  The second one mines with a single thread, or
\* with none (the key is that of a section), or stops at a number that is none.
MCTwoProcesses(run) ==
    IF run = 1 THEN {MCMine, MCStart(<<<<"--mine">>>>, <<<<"genproclimit", "-1">>>>)}
    ELSE {MCStart(<<<<"--datadir", "">>, <<"--", "gen", "1">>>>, <<<<"genproclimit", "0">>>>),
          MCStart(<< >>, <<<<"[", "mining">>, <<"gen", "1">>, <<"[", "">>, <<"mine", "0">>>>),
          MCStart(<<<<"--", "gen", "">>>>, <<<<"genproclimit", "few">>>>)}

MCOnce(run) == {MCMine}
=============================================================================
