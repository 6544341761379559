--------------------------------- MODULE Cli ---------------------------------
(***************************************************************************)
(* cli/shawncoin-cli.cpp: the request that each command sends and what it  *)
(* tells the user about the reply.  A reply is << >> when there was none   *)
(* (rpcPost returns ""), or <<names of its fields>>.  A second branch for  *)
(* "backupwallet", with a path, is never reached.  Clients other than the  *)
(* command line send whatever method docs/API.md or the code names.        *)
(***************************************************************************)
EXTENDS Rpc

CONSTANTS
    Address, Secret             \* arguments that the user gives

Ask(method, judge) == [method |-> method, params |-> EmptyObject, judge |-> judge]
AskWith(method, params, judge) == [method |-> method, params |-> params, judge |-> judge]

Field(key, value) == Object([k \in {key} |-> value])

\* judge: how the command tells success from failure.
Command ==
    [getnewaddress     |-> Ask("wallet.getnewaddress", "result"),
     getbalance        |-> Ask("wallet.getbalance", "number"),
     sendtoaddress     |-> AskWith("wallet.sendtoaddress", Array(<<Address, 1, 0>>), "result"),
     listtransactions  |-> Ask("wallet.listtransactions", "any"),
     backupwallet      |-> Ask("wallet.backup", "any"),
     getmininginfo     |-> Ask("mining.getinfo", "any"),
     getblockcount     |-> Ask("blockchain.info", "any"),
     startmining       |-> AskWith("mining.start", Field("threads", 2), "result"),
     stopmining        |-> Ask("mining.stop", "result"),
     createwallet      |-> AskWith("wallet.create", Field("passphrase", Secret), "result"),
     getblockchaininfo |-> Ask("blockchain.getinfo", "any"),
     getnetworkinfo    |-> Ask("network.getinfo", "any")]

\* Requests of other clients, which make of the reply what they will.
OtherRequest ==
    [template |-> Ask("mining.getblocktemplate", "none"),
     submit   |-> AskWith("mining.submit", Field("blockhex", "block"), "none"),
     backup   |-> AskWith("wallet.backup", Field("path", "copy"), "none"),
     restore  |-> AskWith("wallet.restore", Field("mnemonic", << >>), "none"),
     unspent  |-> Ask("wallet.listunspent", "none"),
     status   |-> Ask("mining.getstatus", "none"),
     invalid  |-> Ask("", "none")]

\* What the user is told.  std::stoull throws on any JSON, and nobody catches it.
Report(judge, reply) ==
    CASE judge = "none" -> "none"
      [] reply = << >> -> "failed"
      [] judge = "any" -> "ok"
      [] judge = "number" -> "aborted"
      [] OTHER -> IF "result" \in reply[1] THEN "ok" ELSE "failed"

ValidateAddress(address) == AddressToPubKeyHash(address) # << >>

=============================================================================
