--------------------------------- MODULE Rpc ---------------------------------
(***************************************************************************)
(* rpc/api.cpp and the request handler of rpc/server.cpp, as operators on  *)
(* what an RpcContext points to:                                           *)
(*                                                                         *)
(*   wallet, mining (threads, 0 when idle), pool (transactions of the      *)
(*   mempool), blocks (blocks added by requests), written (paths)          *)
(*                                                                         *)
(* A request is [method, params], where params is an object or an array;   *)
(* the method "" stands for a text that names none.  Of a reply only the   *)
(* names of its fields are kept.  listunspent, getbalance, getstatus and   *)
(* info change nothing and differ in their results alone, which nobody     *)
(* gets to see.                                                            *)
(***************************************************************************)
EXTENDS Wallet

CONSTANTS
    LONG,                       \* values of a uint64_t
    MAX_MONEY, MAX_MEMPOOL_SIZE,
    Coins,                      \* the unspent outputs
    BlockHex,                   \* texts that are a block in hexadecimal digits
    AcceptsBlock(_)             \* those of them whose block addBlock accepts

ASSUME CoinsAreListed == Len(Coins) \in Nat

NewContext(w) ==
    [wallet |-> w, mining |-> 0, pool |-> {}, blocks |-> << >>, written |-> {}]

Object(fields) == [array |-> FALSE, at |-> fields]
Array(items) == [array |-> TRUE, at |-> items]
EmptyObject == Object([k \in {} |-> ""])

Has(params, key) == ~params.array /\ key \in DOMAIN params.at

StringAt(params, key) == IF Has(params, key) THEN params.at[key] ELSE ""

\* The parser looks for the method and for nothing else.
Parse(request) == [method |-> request.method, params |-> EmptyObject]

\* operator[] returns a copy: what is assigned to it is lost.
SetField(json, key) == json

Respond(context, key) ==
    [context |-> context, reply |-> SetField(SetField(SetField({}, "jsonrpc"), key), "id")]

Fail(context) == Respond(context, "error")
Succeed(context) == Respond(context, "result")

-----------------------------------------------------------------------------
WalletCreate(context, params, draw) ==
    LET created == Create(context.wallet, draw, StringAt(params, "passphrase"))
        after   == [context EXCEPT !.wallet = created.wallet]
    IN  IF created.ok THEN Succeed(after) ELSE Fail(after)

WalletGetNewAddress(context) ==
    Succeed([context EXCEPT !.wallet = GenerateNewAddress(@).wallet])

\* The coins that wallet.listunspent puts in its list.
Unspent(w) == Paying(Coins, KnownHashes(w))

\* The coins that wallet.sendtoaddress may spend, whatever the mempool spends.
Spendable(w) == Paying(Coins, DerivedHashes(w))

\* Greedily, in order, until they are worth the target; all if they never are.
SelectCoins(coins, target) ==
    LET enough == {n \in 1..Len(coins) : Amount(SubSeq(coins, 1, n)) >= target}
    IN  IF enough = {} THEN coins
        ELSE SubSeq(coins, 1, CHOOSE n \in enough : \A m \in enough : n <= m)

ZeroHash == [i \in 1..HASH_LEN |-> 0]

Pay(address, amount) ==
    LET hash == AddressToPubKeyHash(address)
    IN  [amount |-> amount, hash |-> IF hash = << >> THEN ZeroHash ELSE hash]

\* Mempool::add, with validateTransactionStructure.
Pools(pool, tx) ==
    /\ tx.spends # << >> /\ Amount(tx.outputs) <= MAX_MONEY
    /\ tx \in pool \/ Cardinality(pool) < MAX_MEMPOOL_SIZE

\* An address for the change stays taken when signing or the mempool fails.  An
\* amount and a fee whose sum wraps ask for less than they are worth.
WalletSendToAddress(context, params) ==
    LET amount   == params.at[2]
        fee      == IF Len(params.at) >= 3 THEN params.at[3] ELSE 0
        target   == (amount + fee) % LONG
        selected == SelectCoins(Spendable(context.wallet), target)
        change   == (Amount(selected) - amount - fee) % LONG
        fresh    == GenerateNewAddress(context.wallet)
        after    == IF change > 0 THEN [context EXCEPT !.wallet = fresh.wallet] ELSE context
        tx       == [spends  |-> selected,
                     outputs |-> <<Pay(params.at[1], amount)>> \o
                                 (IF change > 0 THEN <<Pay(fresh.address, change)>> ELSE << >>)]
    IN  IF ~params.array \/ Len(params.at) < 2 \/ Amount(selected) < target
        THEN Fail(context)
        ELSE IF ~SignTransaction(after.wallet, selected) \/ ~Pools(context.pool, tx)
        THEN Fail(after)
        ELSE Succeed([after EXCEPT !.pool = @ \cup {tx}])

WalletBackup(context, params) ==
    IF Has(params, "path")
    THEN Succeed([context EXCEPT !.written = @ \cup {params.at["path"]}])
    ELSE Fail(context)

WalletRestore(context, params) ==
    IF Has(params, "mnemonic")
    THEN Succeed([context EXCEPT !.wallet =
                    Restore(@, params.at["mnemonic"], StringAt(params, "passphrase"))])
    ELSE Fail(context)

\* start(0) starts one thread.
MiningStart(context, params) ==
    LET asked   == IF Has(params, "threads") THEN params.at["threads"] ELSE 1
        threads == IF asked = 0 THEN 1 ELSE asked
    IN  Succeed([context EXCEPT !.mining = IF @ = 0 THEN threads ELSE @])

MiningStop(context) == Succeed([context EXCEPT !.mining = 0])

\* Asking for a template takes an address.
MiningGetBlockTemplate(context) ==
    Succeed([context EXCEPT !.wallet = GenerateNewAddress(@).wallet])

\* What is no block is an error, a block that is rejected a result.
MiningSubmit(context, params) ==
    IF ~Has(params, "blockhex") THEN Fail(context)
    ELSE IF params.at["blockhex"] \notin BlockHex THEN Fail(context)
    ELSE IF AcceptsBlock(params.at["blockhex"])
    THEN Succeed([context EXCEPT !.blocks = Append(@, params.at["blockhex"])])
    ELSE Succeed(context)

-----------------------------------------------------------------------------
HandleRpcRequest(context, request, draw) ==
    LET method == Parse(request).method
        params == Parse(request).params
    IN  CASE method = "wallet.create" -> WalletCreate(context, params, draw)
          [] method = "wallet.getnewaddress" -> WalletGetNewAddress(context)
          [] method = "wallet.sendtoaddress" -> WalletSendToAddress(context, params)
          [] method = "wallet.backup" -> WalletBackup(context, params)
          [] method = "wallet.restore" -> WalletRestore(context, params)
          [] method = "mining.start" -> MiningStart(context, params)
          [] method = "mining.stop" -> MiningStop(context)
          [] method = "mining.getblocktemplate" -> MiningGetBlockTemplate(context)
          [] method = "mining.submit" -> MiningSubmit(context, params)
          [] method \in {"wallet.listunspent", "wallet.getbalance",
                         "mining.getstatus", "blockchain.info"} -> Succeed(context)
          [] OTHER -> Fail(context)

\* known says whether the credentials are the ones of the context, or none are set.
\* "Unauthorized" and "Forbidden" are replies like any other for who reads the body.
RequestHandler(context, known, request, draw) ==
    IF known THEN HandleRpcRequest(context, request, draw)
    ELSE [context |-> context, reply |-> {}]

=============================================================================
