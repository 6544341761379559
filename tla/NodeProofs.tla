------------------------------ MODULE NodeProofs ------------------------------
(***************************************************************************)
(* Theorems about Node: what a program that serves the RPC methods can and *)
(* cannot do for its clients, for any draws, passes and number of steps.   *)
(***************************************************************************)
EXTENDS Node, FiniteSetTheorems, TLAPS

IsWallet(w) == w = [mnemonic |-> w.mnemonic, seed |-> w.seed, keys |-> w.keys]

IsContext(c) ==
    /\ c = [wallet |-> c.wallet, mining |-> c.mining, pool |-> c.pool,
            blocks |-> c.blocks, written |-> c.written]
    /\ IsWallet(c.wallet)

LEMMA Created ==
    ASSUME NEW w, IsWallet(w), NEW draw, NEW pass
    PROVE  LET phrase == GenerateMnemonic12(draw) IN
           /\ Create(w, draw, pass).ok = (phrase # << >>)
           /\ Create(w, draw, pass).wallet
               = [mnemonic |-> phrase, seed |-> IF phrase = << >> THEN w.seed ELSE <<phrase, pass>>,
                  keys |-> w.keys]
<1> DEFINE phrase == GenerateMnemonic12(draw)
<1> HIDE DEF phrase
<1>1. [w EXCEPT !.mnemonic = phrase] = [mnemonic |-> phrase, seed |-> w.seed, keys |-> w.keys]
  BY DEF IsWallet
<1> QED
  BY <1>1 DEF Create, Restore, MnemonicToSeed, phrase, IsWallet

LEMMA CreateKeepsKeys ==
    ASSUME NEW w, IsWallet(w), NEW draw, NEW pass
    PROVE  Create(w, draw, pass).wallet.keys = w.keys
<1>1. \A phrase : [w EXCEPT !.mnemonic = phrase].keys = w.keys
  <2>1. \A phrase : [w EXCEPT !.mnemonic = phrase]
                        = [mnemonic |-> phrase, seed |-> w.seed, keys |-> w.keys]
    BY DEF IsWallet
  <2> QED
    BY <2>1
<1>2. \A phrase : Restore(w, phrase, pass).keys = w.keys
  BY DEF Restore
<1> QED
  BY <1>1, <1>2 DEF Create

LEMMA Generated ==
    ASSUME NEW w, IsWallet(w)
    PROVE  LET address == DeriveAddress(w.seed, NextIndex(w)) IN
           /\ GenerateNewAddress(w).address = address
           /\ GenerateNewAddress(w).wallet
               = [mnemonic |-> w.mnemonic, seed |-> w.seed,
                  keys |-> IF address = << >> THEN w.keys ELSE StoreKey(w.keys, address)]
<1> DEFINE address == DeriveAddress(w.seed, NextIndex(w))
<1> HIDE DEF address
<1>1. [w EXCEPT !.keys = StoreKey(@, address)]
          = [mnemonic |-> w.mnemonic, seed |-> w.seed, keys |-> StoreKey(w.keys, address)]
  BY DEF IsWallet
<1> QED
  BY <1>1 DEF GenerateNewAddress, address, IsWallet

-----------------------------------------------------------------------------
(* What a request may do, whoever sends it.                                *)

Addressing == {"wallet.getnewaddress", "mining.getblocktemplate"}
LEMMA NoField == ASSUME NEW c, NEW key PROVE Respond(c, key) = [context |-> c, reply |-> {}]
BY DEF Respond, SetField

\* The same context with another wallet and another number of mining threads.
With(c, w, mining) ==
    [wallet |-> w, mining |-> mining, pool |-> c.pool, blocks |-> c.blocks,
     written |-> c.written]

\* All that a request changes: it has no parameters.
Effect(c, method, draw) ==
    IF method = "wallet.create" THEN With(c, Create(c.wallet, draw, "").wallet, c.mining)
    ELSE IF method \in Addressing THEN With(c, GenerateNewAddress(c.wallet).wallet, c.mining)
    ELSE IF method = "mining.start"
    THEN With(c, c.wallet, IF c.mining = 0 THEN 1 ELSE c.mining)
    ELSE IF method = "mining.stop" THEN With(c, c.wallet, 0)
    ELSE c

LEMMA HandlerEffects ==
    ASSUME NEW c, IsContext(c), NEW request, NEW draw
    PROVE  HandleRpcRequest(c, request, draw)
               = [context |-> Effect(c, request.method, draw), reply |-> {}]
<1>1. Parse(request).method = request.method /\ Parse(request).params = EmptyObject
  BY DEF Parse
<1>2. EmptyObject.array = FALSE /\ \A key : ~Has(EmptyObject, key)
  BY DEF EmptyObject, Object, Has
<1>3. StringAt(EmptyObject, "passphrase") = ""
  BY <1>2 DEF StringAt
<1>4. \A w : [c EXCEPT !.wallet = w] = With(c, w, c.mining)
  BY DEF IsContext, With
<1>5. \A m : [c EXCEPT !.mining = m] = With(c, c.wallet, m)
  BY DEF IsContext, With
<1>6. WalletCreate(c, EmptyObject, draw)
          = [context |-> With(c, Create(c.wallet, draw, "").wallet, c.mining), reply |-> {}]
  BY <1>3, <1>4, NoField DEF WalletCreate, Succeed, Fail
<1>7. /\ WalletGetNewAddress(c)
             = [context |-> With(c, GenerateNewAddress(c.wallet).wallet, c.mining), reply |-> {}]
      /\ MiningGetBlockTemplate(c)
             = [context |-> With(c, GenerateNewAddress(c.wallet).wallet, c.mining), reply |-> {}]
  BY <1>4, NoField DEF WalletGetNewAddress, MiningGetBlockTemplate, Succeed
<1>8. WalletSendToAddress(c, EmptyObject) = [context |-> c, reply |-> {}]
  BY <1>2, NoField DEF WalletSendToAddress, Fail
<1>9. WalletBackup(c, EmptyObject) = [context |-> c, reply |-> {}]
  BY <1>2, NoField DEF WalletBackup, Fail
<1>10. WalletRestore(c, EmptyObject) = [context |-> c, reply |-> {}]
  BY <1>2, NoField DEF WalletRestore, Fail
<1>11. MiningSubmit(c, EmptyObject) = [context |-> c, reply |-> {}]
  BY <1>2, NoField DEF MiningSubmit, Fail
<1>12. MiningStart(c, EmptyObject)
           = [context |-> With(c, c.wallet, IF c.mining = 0 THEN 1 ELSE c.mining), reply |-> {}]
  BY <1>2, <1>5, NoField DEF MiningStart, Succeed
<1>13. MiningStop(c) = [context |-> With(c, c.wallet, 0), reply |-> {}]
  BY <1>5, NoField DEF MiningStop, Succeed
<1>14. Succeed(c) = [context |-> c, reply |-> {}] /\ Fail(c) = [context |-> c, reply |-> {}]
  BY NoField DEF Succeed, Fail
<1> DEFINE result == HandleRpcRequest(c, request, draw)
           method == request.method
<1>15. result =
         CASE method = "wallet.create" -> WalletCreate(c, EmptyObject, draw)
           [] method = "wallet.getnewaddress" -> WalletGetNewAddress(c)
           [] method = "wallet.sendtoaddress" -> WalletSendToAddress(c, EmptyObject)
           [] method = "wallet.backup" -> WalletBackup(c, EmptyObject)
           [] method = "wallet.restore" -> WalletRestore(c, EmptyObject)
           [] method = "mining.start" -> MiningStart(c, EmptyObject)
           [] method = "mining.stop" -> MiningStop(c)
           [] method = "mining.getblocktemplate" -> MiningGetBlockTemplate(c)
           [] method = "mining.submit" -> MiningSubmit(c, EmptyObject)
           [] method \in {"wallet.listunspent", "wallet.getbalance",
                          "mining.getstatus", "blockchain.info"} -> Succeed(c)
           [] OTHER -> Fail(c)
  BY <1>1 DEF HandleRpcRequest
<1> HIDE DEF result, method
<1>16. method = "wallet.create" => result = WalletCreate(c, EmptyObject, draw)
  BY <1>15, Zenon
<1>17. method = "wallet.getnewaddress" => result = WalletGetNewAddress(c)
  BY <1>15, Zenon
<1>18. method = "mining.getblocktemplate" => result = MiningGetBlockTemplate(c)
  BY <1>15, Zenon
<1>19. method = "mining.start" => result = MiningStart(c, EmptyObject)
  BY <1>15, Zenon
<1>20. method = "mining.stop" => result = MiningStop(c)
  BY <1>15, Zenon
<1>21. method = "wallet.sendtoaddress" => result = WalletSendToAddress(c, EmptyObject)
  BY <1>15, Zenon
<1>22. method = "wallet.backup" => result = WalletBackup(c, EmptyObject)
  BY <1>15, Zenon
<1>23. method = "wallet.restore" => result = WalletRestore(c, EmptyObject)
  BY <1>15, Zenon
<1>24. method = "mining.submit" => result = MiningSubmit(c, EmptyObject)
  BY <1>15, Zenon
<1>25. ASSUME method # "wallet.create", method # "wallet.getnewaddress",
              method # "wallet.sendtoaddress", method # "wallet.backup",
              method # "wallet.restore", method # "mining.start", method # "mining.stop",
              method # "mining.getblocktemplate", method # "mining.submit"
       PROVE  result = Succeed(c) \/ result = Fail(c)
  <2> DEFINE asked == method \in {"wallet.listunspent", "wallet.getbalance",
                                  "mining.getstatus", "blockchain.info"}
  <2>1. CASE asked
    BY <1>15, <1>25, <2>1, Zenon
  <2>2. CASE ~asked
    BY <1>15, <1>25, <2>2, Zenon
  <2> QED
    BY <2>1, <2>2
<1>26. result =
         IF method = "wallet.create"
         THEN [context |-> With(c, Create(c.wallet, draw, "").wallet, c.mining), reply |-> {}]
         ELSE IF method \in Addressing
         THEN [context |-> With(c, GenerateNewAddress(c.wallet).wallet, c.mining), reply |-> {}]
         ELSE IF method = "mining.start"
         THEN [context |-> With(c, c.wallet, IF c.mining = 0 THEN 1 ELSE c.mining), reply |-> {}]
         ELSE IF method = "mining.stop" THEN [context |-> With(c, c.wallet, 0), reply |-> {}]
         ELSE [context |-> c, reply |-> {}]
  BY <1>6, <1>7, <1>8, <1>9, <1>10, <1>11, <1>12, <1>13, <1>14,
     <1>16, <1>17, <1>18, <1>19, <1>20, <1>21, <1>22, <1>23,
     <1>24, <1>25 DEF Addressing
<1> QED
  BY <1>26 DEF Effect, result, method

-----------------------------------------------------------------------------
(* The wallet and the files of the program hold phrases that were drawn or *)
(* garbled, and never a passphrase; nothing but the wallet and the miner   *)
(* changes.                                                                *)

Phrases == Drawn \cup Garbage \cup {<< >>}
Plain == {<< >>} \cup (Phrases \X {""})

WalletOK(w) == IsWallet(w) /\ w.mnemonic \in Phrases /\ w.seed \in Plain

ContextOK(c) ==
    /\ IsContext(c)
    /\ WalletOK(c.wallet)
    /\ c.mining \in 0..1
    /\ c.pool = {} /\ c.blocks = << >> /\ c.written = {}

DatFiles == [phrase : Phrases, pass : Passes, seed : Plain, whole : BOOLEAN]
Backups == [phrase : Drawn \ {<< >>}, seed : Drawn \X Passes]

FilesOK == dat \in DatFiles \cup {Absent} /\ backup \in Backups \cup {Absent}

LEMMA MakeWallet ==
    ASSUME NEW phrase \in Phrases, NEW seed \in Plain, NEW keys
    PROVE  WalletOK([mnemonic |-> phrase, seed |-> seed, keys |-> keys])
BY DEF WalletOK, IsWallet

LEMMA MakeContext ==
    ASSUME NEW w, WalletOK(w), NEW m \in 0..1
    PROVE  ContextOK([wallet |-> w, mining |-> m, pool |-> {}, blocks |-> << >>, written |-> {}])
BY DEF WalletOK, ContextOK, IsContext

LEMMA NewOK == WalletOK(NewWallet) /\ \A w : WalletOK(w) => ContextOK(NewContext(w))
<1>1. << >> \in Phrases /\ << >> \in Plain
  BY DEF Phrases, Plain
<1>2. WalletOK(NewWallet)
  BY <1>1, MakeWallet DEF NewWallet
<1>3. ASSUME NEW w, WalletOK(w) PROVE ContextOK(NewContext(w))
  <2>1. 0 \in 0..1
    OBVIOUS
  <2> QED
    BY <1>3, <2>1, MakeContext DEF NewContext
<1> QED
  BY <1>2, <1>3

LEMMA RestoreOK ==
    ASSUME NEW w, IsWallet(w), NEW phrase \in Phrases
    PROVE  WalletOK(Restore(w, phrase, ""))
<1>1. <<phrase, "">> \in Plain
  BY DEF Plain
<1> QED
  BY <1>1, MakeWallet DEF Restore, MnemonicToSeed

LEMMA CreateOK ==
    ASSUME NEW w, WalletOK(w), NEW draw \in Draws
    PROVE  WalletOK(Create(w, draw, "").wallet)
<1> DEFINE phrase == GenerateMnemonic12(draw)
<1>1. phrase \in Phrases
  BY DEF Phrases, Drawn
<1> HIDE DEF phrase
<1>2. Create(w, draw, "").wallet
          = [mnemonic |-> phrase, seed |-> IF phrase = << >> THEN w.seed ELSE <<phrase, "">>,
             keys |-> w.keys]
  BY Created DEF phrase, WalletOK
<1> QED
  <2>1. (IF phrase = << >> THEN w.seed ELSE <<phrase, "">>) \in Plain
    BY <1>1 DEF WalletOK, Plain
  <2> QED
    BY <1>1, <1>2, <2>1, MakeWallet

LEMMA GenerateOK ==
    ASSUME NEW w, WalletOK(w)
    PROVE  WalletOK(GenerateNewAddress(w).wallet)
<1>1. w.mnemonic \in Phrases /\ w.seed \in Plain /\ IsWallet(w)
  BY DEF WalletOK
<1> QED
  BY <1>1, Generated, MakeWallet

LEMMA EffectOK ==
    ASSUME NEW c, ContextOK(c), NEW method, NEW draw \in Draws
    PROVE  ContextOK(Effect(c, method, draw))
<1>1. /\ WalletOK(c.wallet)
      /\ WalletOK(Create(c.wallet, draw, "").wallet)
      /\ WalletOK(GenerateNewAddress(c.wallet).wallet)
  BY CreateOK, GenerateOK DEF ContextOK
<1>2. ASSUME NEW w, WalletOK(w), NEW m \in 0..1 PROVE ContextOK(With(c, w, m))
  BY <1>2, MakeContext DEF ContextOK, With
<1>3. c.mining \in 0..1 /\ 0 \in 0..1 /\ 1 \in 0..1
  BY DEF ContextOK
<1> QED
  BY <1>1, <1>2, <1>3 DEF Effect

LEMMA LoadOK ==
    ASSUME FilesOK, NEW pass \in Passes, NEW w \in LoadWallet(pass)
    PROVE  WalletOK(w)
<1>1. IsWallet(NewWallet) /\ WalletOK(NewWallet)
  BY NewOK DEF WalletOK
<1>2. CASE dat # Absent
  <2>1. dat \in DatFiles
    BY <1>2 DEF FilesOK
  <2>2. dat.phrase \in Phrases /\ Garbage \subseteq Phrases
    BY <2>1 DEF DatFiles, Phrases
  <2>3. DecryptWithPass(dat, pass) \subseteq Phrases
    BY <2>2 DEF DecryptWithPass
  <2>4. w = NewWallet \/ \E plain \in DecryptWithPass(dat, pass) : w = Restore(NewWallet, plain, "")
    BY <1>2 DEF LoadWallet, LoadFromFile
  <2> QED
    BY <1>1, <2>3, <2>4, RestoreOK
<1>3. CASE dat = Absent /\ backup # Absent
  <2>1. backup.phrase \in Phrases
    BY <1>3 DEF FilesOK, Backups, Phrases
  <2>2. w = NewWallet \/ w = Restore(NewWallet, backup.phrase, "")
    BY <1>3 DEF LoadWallet, LoadBackup
  <2> QED
    BY <1>1, <2>1, <2>2, RestoreOK
<1>4. CASE dat = Absent /\ backup = Absent
  BY <1>1, <1>4 DEF LoadWallet
<1> QED
  BY <1>2, <1>3, <1>4

-----------------------------------------------------------------------------
(* Every reply is empty.                                                   *)

\* The requests of a user who is told "ok" whatever the reply.
LEMMA QuietAsks ==
    \A ask \in Asks : ask.judge = "any" =>
        ask.method \notin Addressing \cup {"wallet.create", "mining.start", "mining.stop"}
<1> DEFINE Good(ask) == ask.judge = "any" =>
               ask.method \notin Addressing \cup {"wallet.create", "mining.start", "mining.stop"}
<1>1. DOMAIN Command = {"getnewaddress", "getbalance", "sendtoaddress", "listtransactions",
                        "backupwallet", "getmininginfo", "getblockcount", "startmining",
                        "stopmining", "createwallet", "getblockchaininfo", "getnetworkinfo"}
  BY DEF Command
<1>2. DOMAIN OtherRequest = {"template", "submit", "backup", "restore", "unspent", "status",
                             "invalid"}
  BY DEF OtherRequest
<1>3. \A n \in DOMAIN Command : Good(Command[n])
  BY <1>1 DEF Command, Ask, AskWith, Addressing
<1>4. \A n \in DOMAIN OtherRequest : OtherRequest[n].judge = "none"
  <2>1. \A method, params : /\ Ask(method, "none").judge = "none"
                            /\ AskWith(method, params, "none").judge = "none"
    BY DEF Ask, AskWith
  <2>2. \A a, b, c, d, e, f, g :
          LET r == [template |-> a, submit |-> b, backup |-> c, restore |-> d, unspent |-> e,
                    status |-> f, invalid |-> g]
          IN  /\ r["template"] = a /\ r["submit"] = b /\ r["backup"] = c /\ r["restore"] = d
              /\ r["unspent"] = e /\ r["status"] = f /\ r["invalid"] = g
    OBVIOUS
  <2>3. /\ OtherRequest["template"].judge = "none" /\ OtherRequest["submit"].judge = "none"
        /\ OtherRequest["backup"].judge = "none" /\ OtherRequest["restore"].judge = "none"
        /\ OtherRequest["unspent"].judge = "none" /\ OtherRequest["status"].judge = "none"
        /\ OtherRequest["invalid"].judge = "none"
    BY <2>1, <2>2 DEF OtherRequest
  <2> QED
    BY <1>2, <2>3
<1> QED
  BY <1>3, <1>4 DEF Asks

Answered(r) ==
    \/ r.reply = << >> /\ r.changed = FALSE
    \/ r.reply = <<{}>> /\ (r.ask.judge = "any" => r.changed = FALSE)

ClientOK(r) ==
    /\ r.at \in {"idle", "sent", "answered"}
    /\ r.at # "idle" => r.ask \in Asks
    /\ r.at = "sent" => r.known \in BOOLEAN
    /\ r.at = "answered" => Answered(r)

ClientsOK ==
    /\ client = [c \in Client |-> client[c]]
    /\ \A c \in Client : ClientOK(client[c])

LEMMA HandleReplies ==
    ASSUME ContextOK(context), NEW c \in Client, NEW draw \in Draws,
           ClientsOK, Handle(c, draw)
    PROVE  LET ask == client[c].ask
               method == ask.method
           IN  /\ context' = IF client[c].known THEN Effect(context, method, draw) ELSE context
               /\ client' = [client EXCEPT ![c] =
                    [at |-> "answered", ask |-> ask, reply |-> <<{}>>,
                     changed |-> context' # context]]
               /\ given' = [given EXCEPT ![runs] = @ \o
                      GivenBy(IF client[c].known THEN method ELSE "",
                              context.wallet, context'.wallet)]
               /\ origin' = IF context'.wallet.seed = context.wallet.seed
                            THEN origin ELSE Unread
<1> DEFINE ask == client[c].ask
           request == [method |-> ask.method, params |-> ask.params]
           handled == RequestHandler(context, client[c].known, request, draw)
<1>1. request.method = ask.method
  OBVIOUS
<1>2. IsContext(context)
  BY DEF ContextOK
<1>3. handled = [context |-> IF client[c].known THEN Effect(context, ask.method, draw)
                             ELSE context, reply |-> {}]
  <2>1. CASE client[c].known
    BY <1>1, <1>2, <2>1, HandlerEffects DEF RequestHandler
  <2>2. CASE ~client[c].known
    BY <2>2 DEF RequestHandler
  <2> QED
    BY <2>1, <2>2
<1>4. /\ context' = handled.context
      /\ client' = [client EXCEPT ![c] =
                [at |-> "answered", ask |-> ask, reply |-> <<handled.reply>>,
                 changed |-> handled.context # context]]
      /\ given' = [given EXCEPT ![runs] = @ \o
             GivenBy(IF client[c].known THEN ask.method ELSE "",
                     context.wallet, handled.context.wallet)]
      /\ origin' = IF handled.context.wallet.seed = context.wallet.seed
                   THEN origin ELSE Unread
  BY DEF Handle
<1> HIDE DEF handled, request
<1>5. handled.reply = {}
  BY <1>3
<1>6. handled.context = IF client[c].known THEN Effect(context, ask.method, draw) ELSE context
  BY <1>3
<1> QED
  BY <1>4, <1>5, <1>6

LEMMA Reply ==
    ASSUME ClientsOK, NEW c \in Client, NEW r, ClientOK(r),
           client' = [client EXCEPT ![c] = r]
    PROVE  ClientsOK'
<1>1. client' = [x \in Client |-> IF x = c THEN r ELSE client[x]]
  BY DEF ClientsOK
<1>2. ASSUME NEW x \in Client PROVE ClientOK(client'[x])
  <2>1. client'[x] = r \/ client'[x] = client[x]
    BY <1>1
  <2> QED
    BY <2>1 DEF ClientsOK
<1>3. client' = [x \in Client |-> client'[x]]
  BY <1>1
<1> QED
  BY <1>2, <1>3 DEF ClientsOK

NodeInv == ContextOK(context) /\ FilesOK /\ ClientsOK

LEMMA NodeInitOK == NodeInit => NodeInv
BY NewOK DEF NodeInit, NodeInv, FilesOK, ClientsOK, ClientOK, Idle

LEMMA StepTool ==
    ASSUME NodeInv, NEW draw \in Draws, NEW pass \in Passes,
           ToolCreate(draw, pass) \/ ToolRestore(GenerateMnemonic12(draw), pass)
    PROVE  backup' \in Backups /\ UNCHANGED <<context, dat, client, origin, given>>
<1> DEFINE phrase == GenerateMnemonic12(draw)
<1>1. phrase \in Drawn
  BY DEF Drawn
<1>2. IsWallet(NewWallet)
  BY NewOK DEF WalletOK
<1>3. CASE ToolCreate(draw, pass)
  <2>1. /\ phrase # << >>
        /\ Create(NewWallet, draw, pass).wallet
              = [mnemonic |-> phrase, seed |-> <<phrase, pass>>, keys |-> NewWallet.keys]
    BY <1>2, <1>3, Created DEF ToolCreate
  <2>2. backup' = [phrase |-> phrase, seed |-> <<phrase, pass>>]
    BY <1>3, <2>1 DEF ToolCreate, WriteBackup, Backup
  <2> QED
    BY <1>1, <1>3, <2>1, <2>2 DEF Backups, ToolCreate, WriteBackup
<1>4. CASE ToolRestore(phrase, pass)
  <2>1. backup' = [phrase |-> phrase, seed |-> <<phrase, pass>>]
    BY <1>4 DEF ToolRestore, WriteBackup, Backup, Restore, MnemonicToSeed
  <2> QED
    BY <1>1, <1>4, <2>1 DEF Backups, ToolRestore, WriteBackup
<1> QED
  BY <1>3, <1>4

LEMMA StepHandle ==
    ASSUME NodeInv, NEW c \in Client, NEW draw \in Draws, Handle(c, draw)
    PROVE  NodeInv'
<1> DEFINE ask == client[c].ask
           changed == context' # context
           answer == [at |-> "answered", ask |-> ask, reply |-> <<{}>>, changed |-> changed]
<1>1. /\ context' = IF client[c].known THEN Effect(context, ask.method, draw) ELSE context
      /\ client' = [client EXCEPT ![c] = answer]
  BY HandleReplies DEF NodeInv
<1>2. ContextOK(context)'
  BY <1>1, EffectOK DEF NodeInv
<1>3. ask \in Asks
  BY DEF Handle, NodeInv, ClientsOK, ClientOK
<1>4. ask.judge = "any" => context' = context
  BY <1>1, <1>3, QuietAsks DEF Effect
<1>5. answer.changed = (context' # context) /\ answer.ask = ask /\ answer.reply = <<{}>>
      /\ answer.at = "answered"
  OBVIOUS
<1> HIDE DEF answer
<1>6. Answered(answer)
  BY <1>4, <1>5 DEF Answered
<1>7. ClientOK(answer)
  BY <1>3, <1>5, <1>6 DEF ClientOK
<1>8. ClientsOK'
  BY <1>1, <1>7, Reply DEF NodeInv
<1>9. FilesOK'
  BY DEF Handle, NodeInv, FilesOK
<1> QED
  BY <1>2, <1>8, <1>9 DEF NodeInv

LEMMA SavedOK ==
    ASSUME NEW w, WalletOK(w), NEW pass \in Passes
    PROVE  SaveToFile(w, pass) \in DatFiles /\ CutShort(w) \in DatFiles
<1>1. w.mnemonic \in Phrases /\ w.seed \in Plain /\ "" \in Passes
  BY NodeConstants DEF WalletOK
<1>2. \A p \in Passes, whole \in BOOLEAN :
          [phrase |-> w.mnemonic, pass |-> p, seed |-> w.seed, whole |-> whole] \in DatFiles
  BY <1>1 DEF DatFiles
<1> QED
  BY <1>1, <1>2 DEF SaveToFile, CutShort

LEMMA StepEnds ==
    ASSUME NodeInv, Ends
    PROVE  ContextOK(context)' /\ ClientsOK'
<1>1. ContextOK(context)'
  BY NewOK DEF Ends
<1>2. client' = [c \in Client |->
                    IF client[c].at = "sent"
                    THEN [at |-> "answered", ask |-> client[c].ask, reply |-> << >>,
                          changed |-> FALSE]
                    ELSE client[c]]
  BY DEF Ends
<1>3. ASSUME NEW ask \in Asks
      PROVE  ClientOK([at |-> "answered", ask |-> ask, reply |-> << >>, changed |-> FALSE])
  BY DEF ClientOK, Answered
<1>4. ASSUME NEW c \in Client PROVE ClientOK(client'[c])
  <2>1. ClientOK(client[c])
    BY DEF NodeInv, ClientsOK
  <2>2. CASE client[c].at = "sent"
    BY <1>2, <1>3, <2>1, <2>2 DEF ClientOK
  <2>3. CASE client[c].at # "sent"
    BY <1>2, <2>1, <2>3
  <2> QED
    BY <2>2, <2>3
<1>5. client' = [c \in Client |-> client'[c]]
  BY <1>2
<1> QED
  BY <1>1, <1>4, <1>5 DEF ClientsOK

LEMMA StepNode ==
    ASSUME NodeInv, [NodeNext]_nodeVars
    PROVE  NodeInv'
<1> USE DEF NodeInv
<1>1. CASE UNCHANGED nodeVars
  BY <1>1 DEF nodeVars, FilesOK, ClientsOK
<1>2. ASSUME NEW draw \in Draws, NEW pass \in Passes,
             ToolCreate(draw, pass) \/ ToolRestore(GenerateMnemonic12(draw), pass)
      PROVE  NodeInv'
  <2>1. backup' \in Backups /\ UNCHANGED <<context, dat, client>>
    BY <1>2, StepTool
  <2> QED
    BY <2>1 DEF FilesOK, ClientsOK
<1>3. ASSUME NEW pass \in Passes, Start(pass) PROVE NodeInv'
  <2>1. PICK w \in LoadWallet(pass) : context' = NewContext(w)
    BY <1>3 DEF Start
  <2>2. ContextOK(context)'
    BY <2>1, LoadOK, NewOK
  <2> QED
    BY <1>3, <2>2 DEF Start, FilesOK, ClientsOK
<1>4. ASSUME NEW pass \in Passes, Save(pass) PROVE NodeInv'
  <2>1. dat' \in DatFiles
    BY <1>4, SavedOK DEF Save, ContextOK
  <2> QED
    BY <1>4, <2>1 DEF Save, FilesOK, ClientsOK
<1>5. CASE End
  BY <1>5, StepEnds DEF End, Ends, FilesOK
<1>6. CASE EndInSave
  <2>1. "" \in Passes
    BY NodeConstants
  <2>2. dat' \in DatFiles
    BY <1>6, <2>1, SavedOK DEF EndInSave, ContextOK
  <2> QED
    BY <1>6, <2>2, StepEnds DEF EndInSave, Ends, FilesOK
<1>7. ASSUME NEW c \in Client, NEW ask \in Asks, NEW known \in BOOLEAN, Send(c, ask, known)
      PROVE  NodeInv'
  <2>1. ClientOK([at |-> "sent", ask |-> ask, known |-> known])
    BY DEF ClientOK
  <2>2. ClientOK([at |-> "answered", ask |-> ask, reply |-> << >>, changed |-> FALSE])
    BY DEF ClientOK, Answered
  <2>3. ClientsOK'
    BY <1>7, <2>1, <2>2, Reply DEF Send
  <2> QED
    BY <1>7, <2>3 DEF Send, FilesOK
<1>8. ASSUME NEW c \in Client, NEW draw \in Draws, Handle(c, draw) PROVE NodeInv'
  BY <1>8, StepHandle
<1>9. ASSUME NEW c \in Client, Finish(c) PROVE NodeInv'
  <2>1. ClientOK(Idle)
    BY DEF ClientOK, Idle
  <2>2. ClientsOK'
    BY <1>9, <2>1, Reply DEF Finish
  <2> QED
    BY <1>9, <2>2 DEF Finish, FilesOK
<1> QED
  BY <1>1, <1>2, <1>3, <1>4, <1>5, <1>6, <1>7, <1>8, <1>9 DEF NodeNext

\* No sequence of requests sends a transaction, adds a block or writes a backup, and
\* the passphrase of createwallet protects nothing: parameters are not read.
ParametersAreLost ==
    /\ context.pool = {} /\ context.blocks = << >> /\ context.written = {}
    /\ context.mining <= 1
    /\ context.wallet.seed # << >> => context.wallet.seed[2] = ""

\* ParametersAreLost: whatever is sent, however often the program is restarted
\* and whichever files it finds, no request reaches the pool, the chain or the
\* disk, mining takes one thread, and the wallet has no passphrase.
THEOREM ParametersNeverArrive == NodeSpec => []ParametersAreLost
<1>1. NodeInv => ParametersAreLost
  <2> SUFFICES ASSUME ContextOK(context) PROVE ParametersAreLost
    BY DEF NodeInv
  <2>1. /\ context.pool = {} /\ context.blocks = << >> /\ context.written = {}
        /\ context.mining \in 0..1 /\ context.wallet.seed \in Plain
    BY DEF ContextOK, WalletOK
  <2>2. context.wallet.seed # << >> => context.wallet.seed[2] = ""
    BY <2>1 DEF Plain
  <2>3. context.mining <= 1
    BY <2>1
  <2> QED
    BY <2>1, <2>2, <2>3 DEF ParametersAreLost
<1>2. NodeInv /\ [NodeNext]_nodeVars => NodeInv'
  BY StepNode
<1> QED
  BY <1>1, <1>2, NodeInitOK, PTL DEF NodeSpec

\* A reply has no fields: what is reported as done did nothing.
ReportedOkDidNothing ==
    \A c \in Client :
        /\ client[c].at = "answered"
        /\ Report(client[c].ask.judge, client[c].reply) = "ok"
        => ~client[c].changed

\* ReportedOkDidNothing: no request that changed anything is reported to the
\* user as done.
THEOREM OkMeansNothing == NodeSpec => []ReportedOkDidNothing
<1>1. NodeInv => ReportedOkDidNothing
  <2> SUFFICES ASSUME NodeInv, NEW c \in Client, client[c].at = "answered",
                      Report(client[c].ask.judge, client[c].reply) = "ok"
               PROVE  ~client[c].changed
    BY DEF ReportedOkDidNothing
  <2> DEFINE judge == client[c].ask.judge
  <2>1. Answered(client[c])
    BY DEF NodeInv, ClientsOK, ClientOK
  <2>2. CASE client[c].reply = << >>
    BY <2>1, <2>2 DEF Answered, Report
  <2>3. CASE client[c].reply = <<{}>>
    <3>1. Report(judge, <<{}>>) = "ok" => judge = "any"
      BY DEF Report
    <3> QED
      BY <2>1, <2>3, <3>1 DEF Answered
  <2> QED
    BY <2>1, <2>2, <2>3 DEF Answered
<1>2. NodeInv /\ [NodeNext]_nodeVars => NodeInv'
  BY StepNode
<1> QED
  BY <1>1, <1>2, NodeInitOK, PTL DEF NodeSpec

-----------------------------------------------------------------------------
(* What a start brings back.                                               *)

LEMMA StartRestores ==
    ASSUME NodeInv, NEW pass \in Passes, Start(pass)
    PROVE  FileRestores'
<1>1. PICK w \in LoadWallet(pass) : context' = NewContext(w)
  BY DEF Start
<1>2. context'.wallet = w
  BY <1>1 DEF NewContext
<1>3. origin' = OriginOf(pass)
  BY DEF Start
<1>4. NewWallet.seed = << >> /\ \A phrase : Restore(NewWallet, phrase, "").seed = <<phrase, "">>
  BY DEF NewWallet, Restore, MnemonicToSeed
<1>5. CASE dat # Absent
  <2>1. origin' = [from |-> "dat", file |-> dat, opened |-> Opens(dat, pass)]
    BY <1>3, <1>5, Zenon DEF OriginOf
  <2>2. origin'.file = dat /\ (origin'.opened <=> Opens(dat, pass))
    BY <2>1
  <2>3. dat.seed \in Plain
    BY <1>5 DEF NodeInv, FilesOK, DatFiles
  <2>4. ASSUME dat.seed # << >>
        PROVE  dat.seed = <<dat.seed[1], "">> /\ dat.seed[2] = ""
    <3> DEFINE None == {""}
    <3>1. dat.seed \in Phrases \X None
      BY <2>3, <2>4, Zenon DEF Plain
    <3> HIDE DEF None
    <3>2. dat.seed = <<dat.seed[1], dat.seed[2]>> /\ dat.seed[2] \in None
      BY <3>1
    <3> QED
      BY <3>2 DEF None
  <2>0. \A a, b : <<b, "">> # << >> /\ (<<a, "">> = <<b, "">> <=> a = b)
    OBVIOUS
  <2>5. CASE Opens(dat, pass)
    <3>1. w = Restore(NewWallet, dat.phrase, "")
      BY <1>5, <2>5 DEF LoadWallet, LoadFromFile, DecryptWithPass, Opens
    <3>2. w.seed = <<dat.phrase, "">>
      BY <1>4, <3>1
    <3>3. dat.seed # << >> => (w.seed = dat.seed <=> dat.seed[1] = dat.phrase)
      BY <2>0, <2>4, <3>2, Zenon
    <3> QED
      BY <1>2, <2>2, <2>4, <2>5, <3>3 DEF FileRestores
  <2>6. CASE ~Opens(dat, pass)
    <3>1. w = NewWallet \/ \E plain \in Garbage \ {dat.phrase} : w = Restore(NewWallet, plain, "")
      BY <1>5, <2>6 DEF LoadWallet, LoadFromFile, DecryptWithPass, Opens
    <3>2. w.seed = << >> \/ \E plain \in Garbage \ {dat.phrase} : w.seed = <<plain, "">>
      BY <1>4, <3>1
    <3>3. ASSUME dat.seed # << >>, dat.seed[1] = dat.phrase \/ dat.seed[1] \notin Garbage
          PROVE  w.seed # dat.seed
      <4>1. dat.seed[1] \notin Garbage \ {dat.phrase}
        BY <3>3
      <4>2. ASSUME NEW plain \in Garbage \ {dat.phrase}, dat.seed = <<plain, "">>
            PROVE  FALSE
        <5>1. <<plain, "">>[1] = plain
          OBVIOUS
        <5>2. dat.seed[1] = plain
          BY <4>2, <5>1, Zenon
        <5> QED
          BY <4>1, <4>2, <5>2, Zenon
      <4> QED
        BY <3>2, <3>3, <4>2
    <3> QED
      BY <1>2, <2>2, <2>6, <3>3 DEF FileRestores
  <2> QED
    BY <2>5, <2>6
<1>6. CASE dat = Absent /\ backup # Absent
  <2>1. origin' = [from |-> "backup", file |-> backup, opened |-> TRUE]
    BY <1>3, <1>6, Zenon DEF OriginOf
  <2>2. origin'.file = backup /\ origin'.opened = TRUE
    BY <2>1
  <2>3. backup.phrase # << >> /\ backup.seed \in Drawn \X Passes
    BY <1>6 DEF NodeInv, FilesOK, Backups
  <2>4. w = Restore(NewWallet, backup.phrase, "")
    BY <1>6, <2>3 DEF LoadWallet, LoadBackup
  <2>5. w.seed = <<backup.phrase, "">>
    BY <1>4, <2>4
  <2>6. backup.seed = <<backup.seed[1], backup.seed[2]>>
    BY <2>3
  <2>7. \A a, b, d : <<a, "">> = <<b, d>> <=> b = a /\ d = ""
    OBVIOUS
  <2>8. w.seed = backup.seed <=> backup.seed[1] = backup.phrase /\ backup.seed[2] = ""
    <3>1. <<backup.phrase, "">> = <<backup.seed[1], backup.seed[2]>>
              <=> backup.seed[1] = backup.phrase /\ backup.seed[2] = ""
      BY <2>7
    <3> QED
      BY <2>5, <2>6, <3>1
  <2> QED
    BY <1>2, <2>2, <2>8 DEF FileRestores
<1>7. CASE dat = Absent /\ backup = Absent
  <2>1. origin' = Unread
    BY <1>3, <1>7, Zenon DEF OriginOf
  <2> QED
    BY <2>1 DEF FileRestores, Unread
<1> QED
  BY <1>5, <1>6, <1>7

\* FileRestores: a start restores the wallet that wrote the file exactly when
\* the file is whole and was opened with its password, and the wallet had no passphrase
\* and had not lost its phrase to a failed create, and requests keep it so as long as they keep the seed.
THEOREM RestartRestores == NodeSpec => []FileRestores
<1>1. NodeInit => FileRestores
  <2> SUFFICES ASSUME NodeInit PROVE FileRestores
    OBVIOUS
  <2>1. origin = Unread
    BY DEF NodeInit
  <2>2. origin.from = "none"
    BY <2>1 DEF Unread
  <2> QED
    BY <2>2 DEF FileRestores
<1>2. ASSUME NodeInv, FileRestores, [NodeNext]_nodeVars PROVE FileRestores'
  <2>1. ASSUME UNCHANGED <<context, origin>> PROVE FileRestores'
    BY <1>2, <2>1 DEF FileRestores
  <2>2. ASSUME origin' = Unread PROVE FileRestores'
    BY <2>2 DEF FileRestores, Unread
  <2>3. ASSUME NEW c \in Client, NEW draw \in Draws, Handle(c, draw) PROVE FileRestores'
    <3>1. origin' = IF context'.wallet.seed = context.wallet.seed THEN origin ELSE Unread
      BY <1>2, <2>3, HandleReplies DEF NodeInv
    <3>2. ASSUME origin' = origin, context'.wallet.seed = context.wallet.seed
          PROVE  FileRestores'
      BY <1>2, <3>2 DEF FileRestores
    <3> QED
      BY <2>2, <3>1, <3>2
  <2>4. ASSUME NEW pass \in Passes, Start(pass) PROVE FileRestores'
    BY <1>2, <2>4, StartRestores
  <2>5. ASSUME NEW draw \in Draws, NEW pass \in Passes,
               ToolCreate(draw, pass) \/ ToolRestore(GenerateMnemonic12(draw), pass)
        PROVE  FileRestores'
    BY <1>2, <2>1, <2>5, StepTool
  <2>6. ASSUME NEW pass \in Passes, Save(pass) PROVE FileRestores'
    BY <2>1, <2>6 DEF Save
  <2>7. ASSUME End \/ EndInSave PROVE FileRestores'
    BY <2>2, <2>7 DEF End, EndInSave, Ends
  <2>8. ASSUME NEW c \in Client, NEW ask \in Asks, NEW known \in BOOLEAN, Send(c, ask, known)
        PROVE  FileRestores'
    BY <2>1, <2>8 DEF Send
  <2>9. ASSUME NEW c \in Client, Finish(c) PROVE FileRestores'
    BY <2>1, <2>9 DEF Finish
  <2> QED
    BY <1>2, <2>1, <2>3, <2>4, <2>5, <2>6, <2>7, <2>8, <2>9 DEF NodeNext, nodeVars
<1>3. NodeInv /\ [NodeNext]_nodeVars => NodeInv'
  BY StepNode
<1> QED
  BY <1>1, <1>2, <1>3, NodeInitOK, PTL DEF NodeSpec

-----------------------------------------------------------------------------
(* Recursive functions over numbers.  A statement about all of them is     *)
(* proved from a least counterexample.                                     *)

\* A set of numbers has a least element.
LEMMA LeastNumber ==
    ASSUME NEW I \in SUBSET Nat, I # {}
    PROVE  \E i \in I : \A j \in I : i <= j
<1>1. IsWellFoundedOn(OpToRel(<, Nat), Nat)
  BY NatLessThanWellFounded
<1>2. PICK i \in I : \A j \in I : ~(<<j, i>> \in OpToRel(<, Nat))
  BY <1>1, WFMin
<1>3. \A j \in I : ~(j < i)
  BY <1>2 DEF OpToRel
<1> QED
  BY <1>3

\* f[i] is G[i] of the value at a smaller number.
Recursive(f, n, a, G, prev) ==
    f = [i \in 0..n |-> IF i = 0 THEN a ELSE G[i][f[prev[i]]]]

\* There is such a function.
LEMMA RecursionExists ==
    ASSUME NEW n \in Nat, NEW a, NEW G, NEW prev, \A i \in 1..n : prev[i] \in 0..(i - 1)
    PROVE  \E f : Recursive(f, n, a, G, prev)
<1> DEFINE Value(f, i) == IF i = 0 THEN a ELSE G[i][f[prev[i]]]
           Good(m) == \E f : Recursive(f, m, a, G, prev)
           bad == {m \in 0..n : ~Good(m)}
<1>1. Good(0)
  <2> DEFINE f == [i \in 0..0 |-> a]
  <2>1. f = [i \in 0..0 |-> IF i = 0 THEN a ELSE G[i][f[prev[i]]]]
    OBVIOUS
  <2> HIDE DEF f
  <2> QED
    BY <2>1 DEF Recursive
<1>2. ASSUME NEW m \in 1..n, Good(m - 1) PROVE Good(m)
  <2>1. PICK g : Recursive(g, m - 1, a, G, prev)
    BY <1>2
  <2> DEFINE h == [i \in 0..m |-> IF i < m THEN g[i] ELSE Value(g, m)]
  <2>2. \A i \in 0..m : h[i] = Value(h, i)
    <3> TAKE i \in 0..m
    <3>1. i # 0 => prev[i] \in 0..m /\ prev[i] < m
      BY SMT
    <3>2. i # 0 => h[prev[i]] = g[prev[i]]
      <4> HIDE DEF Value
      <4> QED
        BY <3>1
    <3>3. Value(h, i) = Value(g, i)
      <4> HIDE DEF h
      <4> QED
        BY <3>2
    <3>4. i < m => g[i] = Value(g, i)
      <4>1. i < m => i \in 0..(m - 1)
        OBVIOUS
      <4> QED
        BY <2>1, <4>1 DEF Recursive
    <3>5. h[i] = IF i < m THEN g[i] ELSE Value(g, m)
      OBVIOUS
    <3>6. ~(i < m) => i = m
      OBVIOUS
    <3> HIDE DEF h, Value
    <3> QED
      BY <3>3, <3>4, <3>5, <3>6
  <2>3. h = [i \in 0..m |-> h[i]]
    OBVIOUS
  <2> HIDE DEF h
  <2>4. h = [i \in 0..m |-> IF i = 0 THEN a ELSE G[i][h[prev[i]]]]
    BY <2>2, <2>3
  <2> QED
    BY <2>4 DEF Recursive
<1> HIDE DEF Good
<1>3. ASSUME bad # {} PROVE FALSE
  <2>1. PICK m \in bad : \A k \in bad : m <= k
    <3>1. bad \in SUBSET Nat
      OBVIOUS
    <3> HIDE DEF bad
    <3> QED
      BY <1>3, <3>1, LeastNumber
  <2>2. m \in 1..n /\ ~Good(m)
    BY <1>1, <2>1
  <2>3. m - 1 \in 0..n /\ ~(m <= m - 1)
    BY <2>2
  <2> QED
    BY <1>2, <2>1, <2>2, <2>3
<1> QED
  BY <1>3 DEF Good

\* What holds of a value when it holds of all before it holds of all.
LEMMA RecursionStays ==
    ASSUME NEW n \in Nat, NEW f, NEW D,
           \A i \in 0..n : (\A j \in 0..(i - 1) : f[j] \in D) => f[i] \in D
    PROVE  \A i \in 0..n : f[i] \in D
<1> DEFINE bad == {i \in 0..n : f[i] \notin D}
<1> SUFFICES ASSUME bad # {} PROVE FALSE
  OBVIOUS
<1>1. PICK i \in bad : \A k \in bad : i <= k
  <2>1. bad \in SUBSET Nat
    OBVIOUS
  <2> HIDE DEF bad
  <2> QED
    BY <2>1, LeastNumber
<1>2. \A j \in 0..(i - 1) : j \in 0..n /\ ~(i <= j)
  BY <1>1
<1> QED
  BY <1>1, <1>2

-----------------------------------------------------------------------------
(* Digits.                                                                 *)

Digits(base) == 0..(base - 1)

LEMMA QuotientIsSmaller ==
    ASSUME NEW m \in Nat \ {0}, NEW base \in Nat, base > 1
    PROVE  m \div base \in 0..(m - 1) /\ m % base \in Digits(base)
<1> DEFINE q == m \div base
           r == m % base
<1>1. q \in Int /\ r \in 0..(base - 1) /\ m = base * q + r
  OBVIOUS
<1> HIDE DEF q, r
<1>2. q >= 0
  <2> SUFFICES ASSUME q <= -1 PROVE FALSE
    BY <1>1
  <2>1. base * q <= base * (-1)
    BY <1>1
  <2> QED
    BY <1>1, <2>1
<1>3. q < m
  <2> SUFFICES ASSUME q >= m PROVE FALSE
    BY <1>1
  <2>1. base * q >= 2 * q
    BY <1>1, <1>2
  <2> QED
    BY <1>1, <1>2, <2>1
<1> QED
  BY <1>1, <1>2, <1>3 DEF q, r, Digits

LEMMA DividesBack ==
    ASSUME NEW m \in Int, NEW base \in Nat, base > 1
    PROVE  m = (m % base) + base * (m \div base)
OBVIOUS

\* The loop of DigitsOf, step by step.
LEMMA DigitsSteps ==
    ASSUME NEW n \in Nat, NEW base \in Nat, base > 1
    PROVE  \E f : /\ f[n] = DigitsOf(n, base) /\ f[0] = << >>
                  /\ \A m \in 0..n : f[m] \in Seq(Digits(base))
                  /\ \A m \in 1..n : f[m] = <<m % base>> \o f[m \div base]
<1> DEFINE D == Seq(Digits(base))
           q(m) == m \div base
           r(m) == m % base
           Is(f) == f = [m \in 0..n |-> IF m = 0 THEN << >> ELSE <<r(m)>> \o f[q(m)]]
           digits == CHOOSE f : Is(f)
           G == [m \in 1..n |-> [d \in D |-> <<r(m)>> \o d]]
           prev == [m \in 1..n |-> q(m)]
<1>1. DigitsOf(n, base) = digits[n]
  BY Zenon DEF DigitsOf
<1>2. \A m \in 1..n : q(m) \in 0..(m - 1) /\ r(m) \in Digits(base)
  <2> TAKE m \in 1..n
  <2>1. m \in Nat \ {0}
    OBVIOUS
  <2> QED
    BY <2>1, QuotientIsSmaller, Zenon
<1> HIDE DEF q, r
<1>3. ASSUME NEW f, Is(f) PROVE \A i \in 0..n : f[i] \in D
  <2>1. ASSUME NEW i \in 0..n, \A j \in 0..(i - 1) : f[j] \in D PROVE f[i] \in D
    <3>1. CASE i = 0
      BY <1>3, <3>1
    <3>2. CASE i # 0
      <4>1. f[i] = <<r(i)>> \o f[q(i)]
        BY <1>3, <3>2
      <4>2. i \in 1..n
        BY <3>2
      <4>3. r(i) \in Digits(base) /\ q(i) \in 0..(i - 1)
        BY <1>2, <4>2
      <4>4. f[q(i)] \in D
        BY <2>1, <4>3, Zenon
      <4> QED
        BY <4>1, <4>3, <4>4
    <3> QED
      BY <3>1, <3>2
  <2> HIDE DEF D, Is
  <2> QED
    BY <2>1, RecursionStays
<1>4. \E f : Is(f)
  <2>1. PICK f : Recursive(f, n, << >>, G, prev)
    <3>1. \A m \in 1..n : prev[m] \in 0..(m - 1)
      BY <1>2
    <3> HIDE DEF G, prev
    <3> QED
      BY <3>1, RecursionExists
  <2>2. \A m \in 1..n : prev[m] = q(m) /\ G[m] = [d \in D |-> <<r(m)>> \o d]
    OBVIOUS
  <2>3. f = [i \in 0..n |-> IF i = 0 THEN << >> ELSE G[i][f[prev[i]]]]
    BY <2>1 DEF Recursive
  <2> HIDE DEF G, prev
  <2>4. ASSUME NEW i \in 1..n, f[q(i)] \in D
        PROVE  G[i][f[prev[i]]] = <<r(i)>> \o f[q(i)]
    <3>1. prev[i] = q(i) /\ G[i] = [d \in D |-> <<r(i)>> \o d]
      BY <2>2, <2>4, Zenon
    <3> QED
      BY <2>4, <3>1, Zenon
  <2>5. \A i \in 0..n : f[i] \in D
    <3>1. ASSUME NEW i \in 0..n, \A j \in 0..(i - 1) : f[j] \in D PROVE f[i] \in D
      <4>1. CASE i = 0
        BY <2>3, <4>1
      <4>2. CASE i # 0
        <5>1. i \in 1..n
          BY <4>2
        <5>2. r(i) \in Digits(base) /\ q(i) \in 0..(i - 1)
          BY <1>2, <5>1
        <5>3. f[q(i)] \in D
          BY <3>1, <5>2, Zenon
        <5>4. f[i] = G[i][f[prev[i]]]
          BY <2>3, <4>2
        <5>5. f[i] = <<r(i)>> \o f[q(i)]
          BY <2>4, <5>1, <5>3, <5>4, Zenon
        <5> QED
          BY <5>2, <5>3, <5>5
      <4> QED
        BY <4>1, <4>2
    <3> HIDE DEF D
    <3> QED
      BY <3>1, RecursionStays
  <2>6. \A i \in 1..n : f[q(i)] \in D
    <3>1. \A i \in 1..n : q(i) \in 0..n
      BY <1>2
    <3> HIDE DEF D
    <3> QED
      BY <2>5, <3>1
  <2>7. \A i \in 1..n : G[i][f[prev[i]]] = <<r(i)>> \o f[q(i)]
    BY <2>4, <2>6, Zenon
  <2>8. Is(f)
    <3> DEFINE new(i) == G[i][f[prev[i]]]
               old(i) == <<r(i)>> \o f[q(i)]
    <3>1. \A i \in 0..n : i # 0 => new(i) = old(i)
      <4>1. \A i \in 0..n : i # 0 => i \in 1..n
        OBVIOUS
      <4> QED
        BY <2>7, <4>1, Zenon
    <3>2. f = [i \in 0..n |-> IF i = 0 THEN << >> ELSE new(i)]
      BY <2>3, Zenon
    <3> HIDE DEF new, old
    <3>3. f = [i \in 0..n |-> IF i = 0 THEN << >> ELSE old(i)]
      BY <3>1, <3>2
    <3> QED
      BY <3>3, Zenon DEF old
  <2> HIDE DEF Is
  <2> QED
    BY <2>8
<1>5. Is(digits)
  <2> HIDE DEF Is
  <2> QED
    BY <1>4
<1> HIDE DEF digits
<1>6. \A i \in 0..n : digits[i] \in D
  <2> HIDE DEF Is, D
  <2> QED
    BY <1>3, <1>5
<1>7. digits[0] = << >> /\ \A m \in 1..n : digits[m] = <<r(m)>> \o digits[q(m)]
  <2>1. digits = [m \in 0..n |-> IF m = 0 THEN << >> ELSE <<r(m)>> \o digits[q(m)]]
    BY <1>5, Zenon
  <2>2. 0 \in 0..n /\ \A m \in 1..n : m \in 0..n /\ m # 0
    OBVIOUS
  <2> QED
    BY <2>1, <2>2
<1> QED
  BY <1>1, <1>6, <1>7, Zenon DEF q, r

LEMMA DigitsAreDigits ==
    ASSUME NEW n \in Nat, NEW base \in Nat, base > 1
    PROVE  DigitsOf(n, base) \in Seq(Digits(base))
<1>1. n \in 0..n
  OBVIOUS
<1> QED
  BY <1>1, DigitsSteps

\* The same for functions whose value depends on the one before.
Stepwise(f, n, a, G) == f = [i \in 0..n |-> IF i = 0 THEN a ELSE G[i][f[i - 1]]]

LEMMA StepsExist ==
    ASSUME NEW n \in Nat, NEW D, NEW a \in D, NEW G \in [1..n -> [D -> D]]
    PROVE  \E f : Stepwise(f, n, a, G) /\ \A i \in 0..n : f[i] \in D
<1> DEFINE prev == [i \in 1..n |-> i - 1]
<1>1. \A i \in 1..n : prev[i] = i - 1 /\ prev[i] \in 0..(i - 1)
  OBVIOUS
<1> HIDE DEF prev
<1>2. PICK f : Recursive(f, n, a, G, prev)
  BY <1>1, RecursionExists
<1>3. f = [i \in 0..n |-> IF i = 0 THEN a ELSE G[i][f[prev[i]]]]
  BY <1>2 DEF Recursive
<1>4. f = [i \in 0..n |-> IF i = 0 THEN a ELSE G[i][f[i - 1]]]
  BY <1>1, <1>3
<1>5. ASSUME NEW i \in 0..n, \A j \in 0..(i - 1) : f[j] \in D PROVE f[i] \in D
  <2>1. CASE i = 0
    BY <1>4, <2>1
  <2>2. CASE i # 0
    <3>1. i \in 1..n /\ i - 1 \in 0..(i - 1)
      BY <2>2
    <3>2. f[i] = G[i][f[i - 1]]
      BY <1>4, <2>2
    <3>3. f[i - 1] \in D
      BY <1>5, <3>1, Zenon
    <3>4. G[i] \in [D -> D]
      BY <3>1
    <3> QED
      BY <3>2, <3>3, <3>4
  <2> QED
    BY <2>1, <2>2
<1> QED
  BY <1>4, <1>5, RecursionStays DEF Stepwise

\* The loop of Push: what is carried, and the digits that are left behind.
Pushes(carry, low, digits, factor, base, n) ==
    /\ Push(digits, factor, base, n) = low \o DigitsOf(carry[Len(digits)], base)
    /\ low \in Seq(Digits(base)) /\ Len(low) = Len(digits)
    /\ carry[0] = n /\ \A j \in 0..Len(digits) : carry[j] \in Nat
    /\ \A j \in 1..Len(digits) : carry[j - 1] + digits[j] * factor = low[j] + base * carry[j]

LEMMA PushSteps ==
    ASSUME NEW base \in Nat, base > 1, NEW factor \in Nat, NEW n \in Nat,
           NEW digits \in Seq(Digits(base))
    PROVE  \E carry, low : Pushes(carry, low, digits, factor, base, n)
<1> DEFINE len == Len(digits)
           sum(j, c) == c + digits[j] * factor
           q(j, c) == sum(j, c) \div base
           r(j, c) == sum(j, c) % base
           Is(f) == f = [j \in 0..len |-> IF j = 0 THEN n ELSE q(j, f[j - 1])]
           carry == CHOOSE f : Is(f)
           G == [j \in 1..len |-> [c \in Nat |-> q(j, c)]]
           low == [j \in DOMAIN digits |-> r(j, carry[j - 1])]
<1>1. Push(digits, factor, base, n) = low \o DigitsOf(carry[len], base)
  BY Zenon DEF Push
<1>2. len \in Nat /\ DOMAIN digits = 1..len
  OBVIOUS
<1>3. \A j \in 1..len, c \in Nat : q(j, c) \in Nat /\ r(j, c) \in Digits(base)
  <2> TAKE j \in 1..len, c \in Nat
  <2>1. digits[j] \in Nat
    BY DEF Digits
  <2>2. sum(j, c) \in Nat
    BY <2>1
  <2>3. CASE sum(j, c) = 0
    BY <2>3 DEF Digits
  <2>4. CASE sum(j, c) # 0
    <3> HIDE DEF sum
    <3>1. sum(j, c) \in Nat \ {0}
      BY <2>2, <2>4
    <3>2. q(j, c) \in 0..(sum(j, c) - 1) /\ r(j, c) \in Digits(base)
      BY <3>1, QuotientIsSmaller, Zenon
    <3> HIDE DEF q, r
    <3> QED
      BY <3>1, <3>2
  <2> QED
    BY <2>3, <2>4
<1> HIDE DEF len, q, r
<1>4. \A f : Is(f) => \A j \in 0..len : f[j] \in Nat
  <2> SUFFICES ASSUME NEW f, Is(f) PROVE \A j \in 0..len : f[j] \in Nat
    OBVIOUS
  <2>1. ASSUME NEW i \in 0..len, \A j \in 0..(i - 1) : f[j] \in Nat PROVE f[i] \in Nat
    <3>1. CASE i = 0
      BY <1>2, <3>1
    <3>2. CASE i # 0
      <4>1. i \in 1..len /\ i - 1 \in 0..(i - 1)
        BY <1>2, <3>2
      <4>2. f[i] = q(i, f[i - 1])
        BY <3>2
      <4>3. f[i - 1] \in Nat
        BY <2>1, <4>1, Zenon
      <4> QED
        BY <1>3, <4>1, <4>2, <4>3, Zenon
    <3> QED
      BY <3>1, <3>2
  <2> HIDE DEF Is
  <2> QED
    BY <1>2, <2>1, RecursionStays
<1>5. \E f : Is(f)
  <2>1. G \in [1..len -> [Nat -> Nat]]
    BY <1>3
  <2>2. \A j \in 1..len, c \in Nat : G[j][c] = q(j, c)
    OBVIOUS
  <2> HIDE DEF G
  <2>3. PICK f : Stepwise(f, len, n, G) /\ \A i \in 0..len : f[i] \in Nat
    <3>1. len \in Nat
      BY <1>2
    <3> QED
      BY <2>1, <3>1, StepsExist
  <2>4. \A j \in 0..len : j # 0 => G[j][f[j - 1]] = q(j, f[j - 1])
    <3> TAKE j \in 0..len
    <3>1. j # 0 => j \in 1..len /\ f[j - 1] \in Nat
      BY <1>2, <2>3
    <3> QED
      BY <2>2, <3>1, Zenon
  <2>5. Is(f)
    BY <2>3, <2>4 DEF Stepwise
  <2> HIDE DEF Is
  <2> QED
    BY <2>5
<1>6. Is(carry)
  <2> HIDE DEF Is
  <2> QED
    BY <1>5
<1> HIDE DEF carry
<1>7. \A j \in 0..len : carry[j] \in Nat
  <2> HIDE DEF Is
  <2> QED
    BY <1>4, <1>6
<1>8. low \in Seq(Digits(base)) /\ Len(low) = len
  <2>1. \A j \in 1..len : r(j, carry[j - 1]) \in Digits(base)
    <3> TAKE j \in 1..len
    <3>1. carry[j - 1] \in Nat
      BY <1>2, <1>7
    <3> QED
      BY <1>3, <3>1, Zenon
  <2> QED
    BY <1>2, <2>1
<1>9. ASSUME NEW j \in 1..len
      PROVE  carry[j - 1] + digits[j] * factor = low[j] + base * carry[j]
  <2>1. /\ carry[j] = sum(j, carry[j - 1]) \div base
        /\ low[j] = sum(j, carry[j - 1]) % base
    BY <1>2, <1>6 DEF q, r
  <2>2. sum(j, carry[j - 1]) \in Int
    <3>1. carry[j - 1] \in Nat /\ digits[j] \in Nat
      BY <1>2, <1>7 DEF Digits
    <3> QED
      BY <3>1
  <2> QED
    BY <2>1, <2>2, DividesBack
<1>10. carry[0] = n
  BY <1>2, <1>6
<1> QED
  BY <1>1, <1>7, <1>8, <1>9, <1>10 DEF len, Pushes

\* A number more in front of digits: there are digits.
LEMMA PushGivesDigits ==
    ASSUME NEW base \in Nat, base > 1, NEW factor \in Nat, NEW n \in Nat,
           NEW digits \in Seq(Digits(base))
    PROVE  Push(digits, factor, base, n) \in Seq(Digits(base))
<1>1. PICK carry, low : Pushes(carry, low, digits, factor, base, n)
  BY PushSteps
<1>2. /\ Push(digits, factor, base, n) = low \o DigitsOf(carry[Len(digits)], base)
      /\ low \in Seq(Digits(base)) /\ carry[Len(digits)] \in Nat
  BY <1>1 DEF Pushes
<1>3. DigitsOf(carry[Len(digits)], base) \in Seq(Digits(base))
  BY <1>2, DigitsAreDigits
<1> QED
  BY <1>2, <1>3

\* The loop of Convert: one push for each number, the first one first.
LEMMA ConvertSteps ==
    ASSUME NEW base \in Nat, base > 1, NEW factor \in Nat, NEW text \in Seq(Nat)
    PROVE  \E f : /\ f[Len(text)] = Convert(text, factor, base) /\ f[0] = << >>
                  /\ \A i \in 0..Len(text) : f[i] \in Seq(Digits(base))
                  /\ \A i \in 1..Len(text) : f[i] = Push(f[i - 1], factor, base, text[i])
<1> DEFINE len == Len(text)
           D == Seq(Digits(base))
           next(i, d) == Push(d, factor, base, text[i])
           Is(f) == f = [i \in 0..len |-> IF i = 0 THEN << >> ELSE next(i, f[i - 1])]
           digits == CHOOSE f : Is(f)
           G == [i \in 1..len |-> [d \in D |-> next(i, d)]]
<1>1. Convert(text, factor, base) = digits[len]
  BY Zenon DEF Convert
<1>2. len \in Nat /\ \A i \in 1..len : text[i] \in Nat
  OBVIOUS
<1>3. << >> \in D
  OBVIOUS
<1>4. \A i \in 1..len, d \in D : next(i, d) \in D
  BY <1>2, PushGivesDigits, Zenon
<1> HIDE DEF len, D, next
<1>5. \A f : Is(f) => \A i \in 0..len : f[i] \in D
  <2> SUFFICES ASSUME NEW f, Is(f) PROVE \A i \in 0..len : f[i] \in D
    OBVIOUS
  <2>1. ASSUME NEW i \in 0..len, \A j \in 0..(i - 1) : f[j] \in D PROVE f[i] \in D
    <3>1. CASE i = 0
      BY <1>2, <1>3, <3>1
    <3>2. CASE i # 0
      <4>1. i \in 1..len /\ i - 1 \in 0..(i - 1)
        BY <1>2, <3>2
      <4>2. f[i] = next(i, f[i - 1])
        BY <3>2
      <4>3. f[i - 1] \in D
        BY <2>1, <4>1, Zenon
      <4> QED
        BY <1>4, <4>1, <4>2, <4>3, Zenon
    <3> QED
      BY <3>1, <3>2
  <2> HIDE DEF Is
  <2> QED
    BY <1>2, <2>1, RecursionStays
<1>6. \E f : Is(f)
  <2>1. G \in [1..len -> [D -> D]]
    BY <1>4
  <2>2. \A i \in 1..len, d \in D : G[i][d] = next(i, d)
    OBVIOUS
  <2> HIDE DEF G
  <2>3. PICK f : Stepwise(f, len, << >>, G) /\ \A i \in 0..len : f[i] \in D
    <3>1. len \in Nat
      BY <1>2
    <3> QED
      BY <1>3, <2>1, <3>1, StepsExist
  <2>4. \A i \in 0..len : i # 0 => G[i][f[i - 1]] = next(i, f[i - 1])
    <3> TAKE i \in 0..len
    <3>1. i # 0 => i \in 1..len /\ f[i - 1] \in D
      BY <1>2, <2>3
    <3> QED
      BY <2>2, <3>1, Zenon
  <2>5. Is(f)
    BY <2>3, <2>4 DEF Stepwise
  <2> HIDE DEF Is
  <2> QED
    BY <2>5
<1>7. Is(digits)
  <2> HIDE DEF Is
  <2> QED
    BY <1>6
<1> HIDE DEF digits
<1>8. \A i \in 0..len : digits[i] \in D
  <2> HIDE DEF Is
  <2> QED
    BY <1>5, <1>7
<1>9. digits[0] = << >> /\ \A i \in 1..len : digits[i] = next(i, digits[i - 1])
  BY <1>2, <1>7
<1> QED
  BY <1>1, <1>8, <1>9, Zenon DEF D, len, next

-----------------------------------------------------------------------------
(* Numerals.  places[i] is what the digits above the i-th, the lowest, are *)
(* worth.  No digit is missing and none is in excess.                      *)

Places(places, s, n, base) ==
    /\ places[0] = n /\ places[Len(s)] = 0
    /\ \A i \in 0..Len(s) : places[i] \in Nat
    /\ \A i \in 1..Len(s) : places[i - 1] = s[i] + base * places[i] /\ places[i - 1] # 0

Numeral(s, n, base) == s \in Seq(Digits(base)) /\ \E places : Places(places, s, n, base)

\* A number is divided in one way.
LEMMA OneQuotient ==
    ASSUME NEW base \in Nat, base > 1, NEW a \in Digits(base), NEW b \in Digits(base),
           NEW q \in Nat, NEW r \in Nat, a + base * q = b + base * r
    PROVE  a = b /\ q = r
<1>1. ASSUME NEW x \in Digits(base), NEW y \in Digits(base), NEW m \in Nat, NEW n \in Nat,
             x + base * m = y + base * n, m < n
      PROVE  FALSE
  <2>1. base * (m + 1) = base * m + base
    OBVIOUS
  <2>2. base * (n - (m + 1)) >= 0
    <3>1. n - (m + 1) \in Nat
      BY <1>1
    <3> QED
      BY <3>1
  <2>3. base * (n - (m + 1)) = base * n - base * (m + 1)
    OBVIOUS
  <2>4. base * m \in Int /\ base * n \in Int
    OBVIOUS
  <2>5. x < base /\ y >= 0 /\ x \in Int /\ y \in Int
    BY DEF Digits
  <2> QED
    BY <1>1, <2>1, <2>2, <2>3, <2>4, <2>5
<1>2. ~(q < r) /\ ~(r < q)
  BY <1>1
<1>3. q = r
  BY <1>2
<1> QED
  BY <1>3 DEF Digits

\* Two numerals of a number are the same.
LEMMA OneNumeral ==
    ASSUME NEW base \in Nat, base > 1, NEW n, NEW s, NEW t,
           Numeral(s, n, base), Numeral(t, n, base)
    PROVE  s = t
<1>1. PICK v : Places(v, s, n, base)
  BY DEF Numeral
<1>2. PICK w : Places(w, t, n, base)
  BY DEF Numeral
<1>3. s \in Seq(Digits(base)) /\ t \in Seq(Digits(base))
  BY DEF Numeral
<1> DEFINE same == [i \in 0..Len(s) |->
               i <= Len(t) /\ v[i] = w[i] /\ (i # 0 => s[i] = t[i])]
<1>4. \A i \in 0..Len(s) : same[i] = (i <= Len(t) /\ v[i] = w[i] /\ (i # 0 => s[i] = t[i]))
  OBVIOUS
<1> HIDE DEF same
<1>5. ASSUME NEW i \in 0..Len(s), \A j \in 0..(i - 1) : same[j] \in {TRUE}
      PROVE  same[i] \in {TRUE}
  <2>1. CASE i = 0
    <3>1. 0 <= Len(t) /\ v[0] = w[0]
      BY <1>1, <1>2, <1>3 DEF Places
    <3>2. same[i] = TRUE
      BY <1>4, <2>1, <3>1
    <3> QED
      BY <3>2
  <2>2. CASE i # 0
    <3>1. i \in 1..Len(s) /\ i - 1 \in 0..(i - 1) /\ i - 1 \in 0..Len(s)
      BY <1>3, <2>2
    <3>2. same[i - 1] = TRUE
      BY <1>5, <3>1
    <3>3. i - 1 <= Len(t) /\ v[i - 1] = w[i - 1]
      BY <1>4, <3>1, <3>2
    <3>4. v[i - 1] = s[i] + base * v[i] /\ v[i - 1] # 0 /\ v[i] \in Nat
      BY <1>1, <3>1 DEF Places
    <3>5. i - 1 # Len(t)
      BY <1>2, <3>3, <3>4 DEF Places
    <3>6. i \in 1..Len(t)
      BY <1>3, <3>1, <3>3, <3>5
    <3>7. w[i - 1] = t[i] + base * w[i] /\ w[i] \in Nat
      BY <1>2, <3>6 DEF Places
    <3>8. s[i] \in Digits(base) /\ t[i] \in Digits(base)
      BY <1>3, <3>1, <3>6
    <3>9. s[i] + base * v[i] = t[i] + base * w[i]
      BY <3>3, <3>4, <3>7
    <3>10. s[i] = t[i] /\ v[i] = w[i]
      <4> DEFINE a == s[i]
                 b == t[i]
                 q == v[i]
                 r == w[i]
      <4>1. a \in Digits(base) /\ b \in Digits(base) /\ q \in Nat /\ r \in Nat
        BY <3>4, <3>7, <3>8
      <4>2. a + base * q = b + base * r
        BY <3>9
      <4> HIDE DEF a, b, q, r
      <4>3. a = b /\ q = r
        BY <4>1, <4>2, OneQuotient
      <4> QED
        BY <4>3 DEF a, b, q, r
    <3>11. same[i] = TRUE
      <4>1. i <= Len(t)
        BY <3>6
      <4> QED
        BY <1>4, <3>10, <4>1, Zenon
    <3> QED
      BY <3>11
  <2> QED
    BY <2>1, <2>2
<1>6. Len(s) \in Nat /\ Len(t) \in Nat
  BY <1>3
<1>7. \A i \in 0..Len(s) : same[i] \in {TRUE}
  BY <1>5, <1>6, RecursionStays
<1>8. Len(s) \in 0..Len(s) /\ 1..Len(s) \subseteq 0..Len(s) /\ \A i \in 1..Len(s) : i # 0
  BY <1>6
<1>9. Len(s) <= Len(t) /\ v[Len(s)] = w[Len(s)] /\ \A i \in 1..Len(s) : s[i] = t[i]
  BY <1>4, <1>7, <1>8
<1>10. w[Len(s)] = 0
  BY <1>1, <1>9 DEF Places
<1>11. Len(s) = Len(t)
  <2> SUFFICES ASSUME Len(s) < Len(t) PROVE FALSE
    BY <1>6, <1>9
  <2>1. Len(s) + 1 \in 1..Len(t) /\ (Len(s) + 1) - 1 = Len(s)
    BY <1>6
  <2> QED
    BY <1>2, <1>10, <2>1 DEF Places
<1> QED
  BY <1>3, <1>9, <1>11

\* DigitsOf writes a number.
LEMMA DigitsWrite ==
    ASSUME NEW n \in Nat, NEW base \in Nat, base > 1
    PROVE  Numeral(DigitsOf(n, base), n, base)
<1>1. PICK f : /\ f[n] = DigitsOf(n, base) /\ f[0] = << >>
               /\ \A m \in 0..n : f[m] \in Seq(Digits(base))
               /\ \A m \in 1..n : f[m] = <<m % base>> \o f[m \div base]
  BY DigitsSteps
<1> DEFINE good == [m \in 0..n |-> \E v : Places(v, f[m], m, base)]
<1>2. \A m \in 0..n : good[m] = \E v : Places(v, f[m], m, base)
  OBVIOUS
<1> HIDE DEF good
<1>3. ASSUME NEW m \in 0..n, \A j \in 0..(m - 1) : good[j] \in {TRUE}
      PROVE  good[m] \in {TRUE}
  <2>1. CASE m = 0
    <3> DEFINE v == [i \in 0..0 |-> 0]
    <3>1. Places(v, << >>, 0, base)
      BY DEF Places
    <3> HIDE DEF v
    <3> QED
      BY <1>1, <1>2, <2>1, <3>1
  <2>2. CASE m # 0
    <3> DEFINE q == m \div base
               d == m % base
    <3>1. m \in Nat \ {0} /\ m \in 1..n
      BY <2>2
    <3>2. q \in 0..(m - 1) /\ d \in Digits(base)
      BY <3>1, QuotientIsSmaller
    <3>3. m = d + base * q
      BY <3>1, DividesBack
    <3>4. f[m] = <<d>> \o f[q]
      BY <1>1, <3>1
    <3> HIDE DEF q, d
    <3>5. q \in 0..n
      BY <3>1, <3>2
    <3>6. good[q] = TRUE
      BY <1>3, <3>2
    <3>7. PICK u : Places(u, f[q], q, base)
      BY <1>2, <3>5, <3>6
    <3>8. f[q] \in Seq(Digits(base))
      BY <1>1, <3>5
    <3> DEFINE t == f[q]
               s == <<d>> \o t
               v == [i \in 0..Len(s) |-> IF i = 0 THEN m ELSE u[i - 1]]
    <3>9. Len(t) \in Nat /\ Len(s) = Len(t) + 1 /\ s[1] = d
          /\ \A i \in 2..Len(s) : s[i] = t[i - 1]
      BY <3>2, <3>8
    <3>10. Places(u, t, q, base)
      BY <3>7
    <3>11. v[0] = m /\ \A i \in 1..Len(s) : v[i] = u[i - 1]
      BY <3>9
    <3> HIDE DEF s, t, v
    <3>12. v[Len(s)] = 0
      BY <3>9, <3>10, <3>11 DEF Places
    <3>13. \A i \in 0..Len(s) : v[i] \in Nat
      BY <3>1, <3>9, <3>10, <3>11 DEF Places
    <3>14. ASSUME NEW i \in 1..Len(s) PROVE v[i - 1] = s[i] + base * v[i] /\ v[i - 1] # 0
      <4>1. CASE i = 1
        BY <3>1, <3>3, <3>9, <3>10, <3>11, <4>1 DEF Places
      <4>2. CASE i # 1
        <5>1. i \in 2..Len(s) /\ i - 1 \in 1..Len(s) /\ i - 1 \in 1..Len(t)
          BY <3>9, <4>2
        <5>2. u[(i - 1) - 1] = t[i - 1] + base * u[i - 1] /\ u[(i - 1) - 1] # 0
          BY <3>10, <5>1 DEF Places
        <5> QED
          BY <3>9, <3>11, <5>1, <5>2
      <4> QED
        BY <4>1, <4>2
    <3>15. Places(v, s, m, base)
      BY <3>11, <3>12, <3>13, <3>14 DEF Places
    <3> QED
      BY <1>2, <3>4, <3>15 DEF s, t
  <2> QED
    BY <2>1, <2>2
<1>4. \A m \in 0..n : good[m] \in {TRUE}
  BY <1>3, RecursionStays
<1>5. n \in 0..n
  OBVIOUS
<1> QED
  BY <1>1, <1>2, <1>4, <1>5 DEF Numeral

\* Push multiplies by the factor and adds.
LEMMA PushWrites ==
    ASSUME NEW base \in Nat, base > 1, NEW factor \in Nat \ {0}, NEW n \in Nat,
           NEW x \in Nat, NEW digits, Numeral(digits, x, base)
    PROVE  Numeral(Push(digits, factor, base, n), x * factor + n, base)
<1>1. PICK v : Places(v, digits, x, base)
  BY DEF Numeral
<1>2. digits \in Seq(Digits(base))
  BY DEF Numeral
<1> DEFINE len == Len(digits)
<1>0. PICK carry, low : Pushes(carry, low, digits, factor, base, n)
  <2>1. factor \in Nat
    OBVIOUS
  <2> QED
    BY <1>2, <2>1, PushSteps
<1>3. /\ Push(digits, factor, base, n) = low \o DigitsOf(carry[len], base)
      /\ low \in Seq(Digits(base)) /\ Len(low) = len
      /\ carry[0] = n /\ \A j \in 0..len : carry[j] \in Nat
      /\ \A j \in 1..len : carry[j - 1] + digits[j] * factor = low[j] + base * carry[j]
  BY <1>0 DEF Pushes
<1> DEFINE high == DigitsOf(carry[len], base)
           s == low \o high
<1>4. len \in Nat /\ carry[len] \in Nat
  BY <1>2, <1>3
<1>5. Numeral(high, carry[len], base)
  BY <1>4, DigitsWrite
<1> HIDE DEF high
<1>6. PICK u : Places(u, high, carry[len], base)
  BY <1>5 DEF Numeral
<1>7. high \in Seq(Digits(base))
  BY <1>5 DEF Numeral
<1> DEFINE w == [i \in 0..Len(s) |-> IF i <= len THEN v[i] * factor + carry[i] ELSE u[i - len]]
<1>8. /\ s \in Seq(Digits(base)) /\ Len(s) = len + Len(high) /\ Len(high) \in Nat
      /\ \A i \in 1..len : s[i] = low[i]
      /\ \A i \in (len + 1)..Len(s) : s[i] = high[i - len]
  <2> DEFINE D == Digits(base)
  <2>1. low \in Seq(D) /\ high \in Seq(D)
    BY <1>3, <1>7
  <2>2. Len(low) = len
    BY <1>3
  <2> HIDE DEF D, len
  <2> QED
    BY <1>4, <2>1, <2>2 DEF D
<1>9. /\ \A i \in 0..len : w[i] = v[i] * factor + carry[i]
      /\ \A i \in 0..Len(s) : i > len => w[i] = u[i - len]
  <2>1. \A i \in 0..len : i \in 0..Len(s) /\ i <= len
    BY <1>4, <1>8
  <2>2. \A i \in 0..Len(s) : i > len => ~(i <= len)
    BY <1>4, <1>8
  <2> HIDE DEF s
  <2> QED
    BY <2>1, <2>2
<1> HIDE DEF s, w
<1>10. /\ v[0] = x /\ v[len] = 0 /\ \A i \in 0..len : v[i] \in Nat
       /\ \A i \in 1..len : v[i - 1] = digits[i] + base * v[i] /\ v[i - 1] # 0
  BY <1>1 DEF Places
<1>11. /\ u[0] = carry[len] /\ u[Len(high)] = 0 /\ \A i \in 0..Len(high) : u[i] \in Nat
       /\ \A i \in 1..Len(high) : u[i - 1] = high[i] + base * u[i] /\ u[i - 1] # 0
  BY <1>6 DEF Places
<1>12. \A i \in len..Len(s) : w[i] = u[i - len]
  <2> TAKE i \in len..Len(s)
  <2>1. CASE i = len
    <3>1. w[len] = 0 * factor + carry[len]
      BY <1>4, <1>9, <1>10
    <3> QED
      BY <1>4, <1>11, <2>1, <3>1
  <2>2. CASE i # len
    BY <1>4, <1>8, <1>9, <2>2
  <2> QED
    BY <2>1, <2>2
<1>13. w[0] = x * factor + n
  BY <1>3, <1>4, <1>9, <1>10
<1>14. w[Len(s)] = 0
  BY <1>4, <1>8, <1>11, <1>12
<1>15. \A i \in 0..Len(s) : w[i] \in Nat
  <2> TAKE i \in 0..Len(s)
  <2>1. CASE i <= len
    <3>1. i \in 0..len
      BY <1>4, <2>1
    <3>2. v[i] \in Nat /\ carry[i] \in Nat /\ w[i] = v[i] * factor + carry[i]
      BY <1>3, <1>9, <1>10, <3>1
    <3> QED
      BY <3>2
  <2>2. CASE i > len
    <3>1. i - len \in 0..Len(high)
      BY <1>4, <1>8, <2>2
    <3> QED
      BY <1>9, <1>11, <2>2, <3>1
  <2> QED
    BY <1>4, <2>1, <2>2
<1>16. ASSUME NEW i \in 1..Len(s) PROVE w[i - 1] = s[i] + base * w[i] /\ w[i - 1] # 0
  <2>1. CASE i <= len
    <3>1. i \in 1..len /\ i \in 0..len /\ i - 1 \in 0..len
      BY <1>4, <2>1
    <3> DEFINE a == v[i]
               c == v[i - 1]
               d == digits[i]
               k == carry[i]
               m == carry[i - 1]
    <3>2. a \in Nat /\ c \in Nat /\ k \in Nat /\ m \in Nat /\ d \in Nat /\ low[i] \in Nat
      <4>1. a \in Nat /\ c \in Nat /\ k \in Nat /\ m \in Nat
        BY <1>3, <1>10, <3>1
      <4>2. d \in Digits(base) /\ low[i] \in Digits(base)
        BY <1>2, <1>3, <3>1
      <4> QED
        BY <4>1, <4>2 DEF Digits
    <3>3. c = d + base * a /\ c # 0 /\ m + d * factor = low[i] + base * k
      BY <1>3, <1>10, <3>1
    <3>4. w[i - 1] = c * factor + m /\ w[i] = a * factor + k /\ s[i] = low[i]
      BY <1>8, <1>9, <3>1
    <3> HIDE DEF a, c, d, k, m
    <3>5. c * factor = d * factor + base * (a * factor)
      BY <3>2, <3>3
    <3>6. base * (a * factor + k) = base * (a * factor) + base * k
      BY <3>2
    <3>7. c * factor > 0
      BY <3>2, <3>3
    <3>8. /\ c * factor \in Int /\ d * factor \in Int /\ base * (a * factor) \in Int
          /\ base * k \in Int
      BY <3>2
    <3>9. c * factor + m = low[i] + base * (a * factor + k) /\ c * factor + m # 0
      BY <3>2, <3>3, <3>5, <3>6, <3>7, <3>8
    <3> QED
      BY <3>4, <3>9
  <2>2. CASE i > len
    <3>1. i - len \in 1..Len(high) /\ i - 1 \in len..Len(s) /\ i \in len..Len(s)
          /\ i \in (len + 1)..Len(s) /\ (i - len) - 1 = (i - 1) - len
      BY <1>4, <1>8, <2>2
    <3>2. u[(i - len) - 1] = high[i - len] + base * u[i - len] /\ u[(i - len) - 1] # 0
      BY <1>11, <3>1
    <3> QED
      BY <1>8, <1>12, <3>1, <3>2
  <2> QED
    BY <1>4, <2>1, <2>2
<1>17. Places(w, s, x * factor + n, base)
  BY <1>13, <1>14, <1>15, <1>16 DEF Places
<1> QED
  BY <1>3, <1>8, <1>17 DEF Numeral, s, high

\* The number that a text stands for, highest digit first: read[i] is what its first
\* i digits stand for.
Reading(read, text, base) ==
    /\ read[0] = 0 /\ \A i \in 0..Len(text) : read[i] \in Nat
    /\ \A i \in 1..Len(text) : read[i] = read[i - 1] * base + text[i]

\* Convert writes the number that it reads.
LEMMA ConvertWrites ==
    ASSUME NEW base \in Nat, base > 1, NEW factor \in Nat \ {0}, NEW text \in Seq(Nat),
           NEW read, Reading(read, text, factor)
    PROVE  Numeral(Convert(text, factor, base), read[Len(text)], base)
<1> DEFINE len == Len(text)
<1>1. PICK f : /\ f[len] = Convert(text, factor, base) /\ f[0] = << >>
               /\ \A i \in 1..len : f[i] = Push(f[i - 1], factor, base, text[i])
  BY ConvertSteps
<1>2. len \in Nat /\ \A i \in 1..len : text[i] \in Nat
  OBVIOUS
<1>7. /\ read[0] = 0 /\ \A i \in 0..len : read[i] \in Nat
      /\ \A i \in 1..len : read[i] = read[i - 1] * factor + text[i]
  BY DEF Reading
<1> DEFINE good == [i \in 0..len |-> Numeral(f[i], read[i], base)]
<1>3. \A i \in 0..len : good[i] = Numeral(f[i], read[i], base)
  OBVIOUS
<1> HIDE DEF good
<1>4. ASSUME NEW i \in 0..len, \A j \in 0..(i - 1) : good[j] \in {TRUE}
      PROVE  good[i] \in {TRUE}
  <2>1. CASE i = 0
    <3> DEFINE v == [j \in 0..0 |-> 0]
    <3>1. Places(v, << >>, 0, base)
      BY DEF Places
    <3> HIDE DEF v
    <3>2. Numeral(<< >>, 0, base)
      BY <3>1 DEF Numeral
    <3> QED
      BY <1>1, <1>3, <1>7, <2>1, <3>2
  <2>2. CASE i # 0
    <3>1. i \in 1..len /\ i - 1 \in 0..(i - 1) /\ i - 1 \in 0..len
      BY <1>2, <2>2
    <3>2. good[i - 1] = TRUE
      BY <1>4, <3>1
    <3>3. Numeral(f[i - 1], read[i - 1], base) /\ read[i - 1] \in Nat
      BY <1>3, <1>7, <3>1, <3>2
    <3>4. Numeral(Push(f[i - 1], factor, base, text[i]), read[i - 1] * factor + text[i], base)
      BY <1>2, <3>1, <3>3, PushWrites
    <3>5. Numeral(f[i], read[i], base)
      BY <1>1, <1>7, <3>1, <3>4
    <3> QED
      BY <1>3, <3>5
  <2> QED
    BY <2>1, <2>2
<1>5. \A i \in 0..len : good[i] \in {TRUE}
  BY <1>2, <1>4, RecursionStays
<1>6. len \in 0..len
  BY <1>2
<1> QED
  BY <1>1, <1>3, <1>5, <1>6

LEMMA NoLeadingZeros ==
    ASSUME NEW text \in Seq(Nat), text # << >>, text[1] # 0
    PROVE  LeadingZeros(text) = << >>
<1> DEFINE nonZero == {j \in DOMAIN text : text[j] # 0}
           least == CHOOSE j \in nonZero : \A k \in nonZero : j <= k
<1>1. 1 \in nonZero /\ \A k \in nonZero : 1 <= k /\ k \in Nat
  OBVIOUS
<1>2. LeadingZeros(text) = SubSeq(text, 1, least - 1)
  BY <1>1, Zenon DEF LeadingZeros
<1> HIDE DEF nonZero
<1>3. least \in nonZero /\ \A k \in nonZero : least <= k
  BY <1>1, Zenon
<1>4. least = 1
  <2> HIDE DEF least
  <2> QED
    BY <1>1, <1>3
<1> HIDE DEF least
<1> QED
  BY <1>2, <1>4

LEMMA Reversed ==
    ASSUME NEW S, NEW s \in Seq(S)
    PROVE  /\ Seqs!Reverse(s) \in Seq(S) /\ Len(Seqs!Reverse(s)) = Len(s)
           /\ \A i \in 1..Len(s) : Seqs!Reverse(s)[i] = s[Len(s) - i + 1]
BY DEF Seqs!Reverse

\* What bytes stand for as a number, the first byte first.
LEMMA BytesRead ==
    ASSUME NEW base \in Nat, base > 1, NEW data \in Seq(Digits(base)),
           data # << >>, data[1] # 0
    PROVE  \E read : /\ Reading(read, data, base) /\ read[Len(data)] # 0
                     /\ Numeral(Seqs!Reverse(data), read[Len(data)], base)
<1> DEFINE len == Len(data)
           G == [i \in 1..len |-> [c \in Nat |-> c * base + data[i]]]
<1>1. len \in Nat \ {0} /\ \A i \in 1..len : data[i] \in Nat /\ data[i] \in Digits(base)
  BY DEF Digits
<1>2. G \in [1..len -> [Nat -> Nat]]
  BY <1>1
<1>3. \A i \in 1..len, c \in Nat : G[i][c] = c * base + data[i]
  OBVIOUS
<1> HIDE DEF G
<1>4. PICK read : Stepwise(read, len, 0, G) /\ \A i \in 0..len : read[i] \in Nat
  BY <1>1, <1>2, StepsExist
<1>5. read[0] = 0 /\ \A i \in 1..len : read[i] = read[i - 1] * base + data[i]
  <2>1. \A i \in 0..len : read[i] = IF i = 0 THEN 0 ELSE G[i][read[i - 1]]
    BY <1>4 DEF Stepwise
  <2>2. 0 \in 0..len /\ \A i \in 1..len : i \in 0..len /\ i # 0 /\ i - 1 \in 0..len
    BY <1>1
  <2>3. \A i \in 1..len : G[i][read[i - 1]] = read[i - 1] * base + data[i]
    BY <1>3, <1>4, <2>2
  <2> QED
    BY <2>1, <2>2, <2>3
<1> DEFINE positive == [i \in 0..len |-> i # 0 => read[i] # 0]
<1>6. \A i \in 0..len : positive[i] = (i # 0 => read[i] # 0)
  OBVIOUS
<1> HIDE DEF positive
<1>7. ASSUME NEW i \in 0..len, \A j \in 0..(i - 1) : positive[j] \in {TRUE}
      PROVE  positive[i] \in {TRUE}
  <2>1. CASE i = 0
    BY <1>6, <2>1
  <2>2. CASE i = 1
    <3>1. read[1] = 0 * base + data[1]
      BY <1>1, <1>5, <2>2
    <3>2. read[1] # 0
      BY <1>1, <3>1
    <3>3. positive[i] = TRUE
      BY <1>6, <2>2, <3>2, Zenon
    <3> QED
      BY <3>3
  <2>3. CASE i # 0 /\ i # 1
    <3>1. i \in 1..len /\ i - 1 \in 0..(i - 1) /\ i - 1 \in 0..len /\ i - 1 # 0
      BY <1>1, <2>3
    <3>2. positive[i - 1] = TRUE
      BY <1>7, <3>1
    <3>3. read[i - 1] # 0 /\ read[i - 1] \in Nat
      BY <1>4, <1>6, <3>1, <3>2
    <3>4. read[i - 1] * base > 0
      BY <3>3
    <3>5. read[i] = read[i - 1] * base + data[i] /\ data[i] \in Nat
      BY <1>1, <1>5, <3>1
    <3>6. read[i] # 0
      BY <3>3, <3>4, <3>5
    <3> QED
      BY <1>6, <3>6
  <2> QED
    BY <2>1, <2>2, <2>3
<1>8. \A i \in 0..len : positive[i] \in {TRUE}
  BY <1>1, <1>7, RecursionStays
<1>9. \A i \in 1..len : read[i] # 0
  <2>1. \A i \in 1..len : i \in 0..len /\ i # 0
    BY <1>1
  <2> QED
    BY <1>6, <1>8, <2>1
<1> DEFINE back == Seqs!Reverse(data)
           v == [i \in 0..len |-> read[len - i]]
<1>10. back \in Seq(Digits(base)) /\ Len(back) = len
       /\ \A i \in 1..len : back[i] = data[len - i + 1]
  BY Reversed
<1>11. \A i \in 0..len : v[i] = read[len - i]
  OBVIOUS
<1> HIDE DEF back, v
<1>12. Places(v, back, read[len], base)
  <2>1. v[0] = read[len] /\ v[len] = 0
    <3>1. 0 \in 0..len /\ len \in 0..len /\ len - 0 = len /\ len - len = 0
      BY <1>1
    <3> QED
      BY <1>5, <1>11, <3>1
  <2>2. \A i \in 0..len : v[i] \in Nat
    <3>1. \A i \in 0..len : len - i \in 0..len
      BY <1>1
    <3> QED
      BY <1>4, <1>11, <3>1
  <2>3. ASSUME NEW i \in 1..len PROVE v[i - 1] = back[i] + base * v[i] /\ v[i - 1] # 0
    <3> DEFINE k == len - i + 1
    <3>1. k \in 1..len /\ k - 1 \in 0..len /\ i \in 0..len /\ i - 1 \in 0..len
          /\ len - i = k - 1 /\ len - (i - 1) = k
      BY <1>1
    <3> HIDE DEF k
    <3>2. v[i - 1] = read[k] /\ v[i] = read[k - 1]
      BY <1>11, <3>1
    <3>3. back[i] = data[k]
      BY <1>10 DEF k
    <3>4. read[k] = read[k - 1] * base + data[k] /\ read[k] # 0
      BY <1>5, <1>9, <3>1
    <3>5. read[k - 1] \in Nat /\ data[k] \in Nat
      BY <1>1, <1>4, <3>1
    <3>6. read[k - 1] * base + data[k] = data[k] + base * read[k - 1]
      BY <3>5
    <3> QED
      BY <3>2, <3>3, <3>4, <3>6
  <2> QED
    BY <1>10, <2>1, <2>2, <2>3 DEF Places
<1>13. Numeral(back, read[len], base)
  BY <1>10, <1>12 DEF Numeral
<1>14. Reading(read, data, base)
  BY <1>4, <1>5 DEF Reading
<1>15. read[len] # 0
  BY <1>1, <1>9
<1> QED
  BY <1>13, <1>14, <1>15 DEF back, len

\* encodeBase58 and decodeBase58, on bytes that do not start with a zero (an address
\* starts with its version): a text of digits without zeros in front, and the bytes
\* in the opposite order.
THEOREM DecodingReverses ==
    ASSUME NEW data \in Seq(Digits(BYTE)), data # << >>, data[1] # 0
    PROVE  /\ EncodeBase58(data) \in Seq(Digits(BASE)) /\ EncodeBase58(data) # << >>
           /\ DecodeBase58(EncodeBase58(data)) = Seqs!Reverse(data)
<1> DEFINE len == Len(data)
           c == Convert(data, BYTE, BASE)
           text == Seqs!Reverse(c)
           d == Convert(text, BASE, BYTE)
<1>1. BYTE \in Nat \ {0} /\ BASE \in Nat \ {0} /\ BYTE > 1 /\ BASE > 1
  BY Base58Constants
<1>2. data \in Seq(Nat)
  BY <1>1 DEF Digits
<1>3. PICK read : /\ Reading(read, data, BYTE) /\ read[len] # 0
                  /\ Numeral(Seqs!Reverse(data), read[len], BYTE)
  BY <1>1, BytesRead
<1>4. Numeral(c, read[len], BASE)
  BY <1>1, <1>2, <1>3, ConvertWrites
<1> HIDE DEF c
<1>5. c \in Seq(Digits(BASE))
  BY <1>4 DEF Numeral
<1>0. PICK v : Places(v, c, read[len], BASE)
  BY <1>4 DEF Numeral
<1>6. /\ v[0] = read[len] /\ v[Len(c)] = 0
      /\ \A i \in 0..Len(c) : v[i] \in Nat
      /\ \A i \in 1..Len(c) : v[i - 1] = c[i] + BASE * v[i] /\ v[i - 1] # 0
  BY <1>0 DEF Places
<1>7. Len(c) \in Nat \ {0}
  BY <1>3, <1>5, <1>6
<1>8. c[Len(c)] # 0
  <2>0. Len(c) \in 1..Len(c)
    BY <1>7
  <2>1. Len(c) \in 1..Len(c) /\ c[Len(c)] \in Nat
    <3>1. c[Len(c)] \in Digits(BASE)
      BY <1>5, <2>0
    <3> QED
      BY <1>1, <2>0, <3>1 DEF Digits
  <2>2. v[Len(c) - 1] = c[Len(c)] + BASE * 0 /\ v[Len(c) - 1] # 0
    BY <1>6, <2>1
  <2> QED
    BY <1>1, <2>1, <2>2
<1>9. /\ text \in Seq(Digits(BASE)) /\ Len(text) = Len(c)
      /\ \A i \in 1..Len(c) : text[i] = c[Len(c) - i + 1]
  BY <1>5, Reversed
<1> HIDE DEF text
<1>10. text # << >> /\ text[1] # 0 /\ text \in Seq(Nat)
  <2>1. text[1] = c[Len(c)]
    BY <1>7, <1>9
  <2>2. text \in Seq(Nat)
    BY <1>1, <1>9 DEF Digits
  <2> QED
    BY <1>7, <1>8, <1>9, <2>1, <2>2
<1>11. EncodeBase58(data) = text
  <2>1. EncodeBase58(data) = << >> \o text
    BY <1>2, NoLeadingZeros DEF EncodeBase58, text, c
  <2> QED
    BY <1>10, <2>1
<1> DEFINE heard == [i \in 0..Len(c) |-> v[Len(c) - i]]
<1>12. \A i \in 0..Len(c) : heard[i] = v[Len(c) - i]
  OBVIOUS
<1> HIDE DEF heard
<1>13. heard[0] = 0 /\ heard[Len(c)] = read[len]
  BY <1>6, <1>7, <1>12
<1>14. \A i \in 0..Len(text) : heard[i] \in Nat
  <2>1. \A i \in 0..Len(c) : Len(c) - i \in 0..Len(c)
    BY <1>7
  <2>2. \A i \in 0..Len(c) : heard[i] \in Nat
    BY <1>6, <1>12, <2>1
  <2> QED
    BY <1>9, <2>2
<1>15. ASSUME NEW i \in 1..Len(text) PROVE heard[i] = heard[i - 1] * BASE + text[i]
  <2> DEFINE k == Len(c) - i + 1
  <2>1. k \in 1..Len(c) /\ k \in 0..Len(c) /\ k - 1 \in 0..Len(c) /\ i \in 1..Len(c)
        /\ i \in 0..Len(c) /\ i - 1 \in 0..Len(c)
        /\ Len(c) - i = k - 1 /\ Len(c) - (i - 1) = k
    BY <1>7, <1>9
  <2>2. text[i] = c[k]
    BY <1>9, <2>1
  <2> HIDE DEF k
  <2>3. heard[i] = v[k - 1] /\ heard[i - 1] = v[k]
    BY <1>12, <2>1
  <2>4. v[k - 1] = c[k] + BASE * v[k] /\ v[k] \in Nat /\ c[k] \in Nat
    <3>1. c[k] \in Digits(BASE)
      BY <1>5, <2>1
    <3> QED
      BY <1>1, <1>6, <2>1, <3>1 DEF Digits
  <2>5. c[k] + BASE * v[k] = v[k] * BASE + c[k]
    BY <1>1, <2>4
  <2> QED
    BY <2>2, <2>3, <2>4, <2>5
<1>16. Numeral(d, heard[Len(text)], BYTE)
  <2>1. Reading(heard, text, BASE)
    BY <1>13, <1>14, <1>15 DEF Reading
  <2> QED
    BY <1>1, <1>10, <2>1, ConvertWrites
<1> HIDE DEF d
<1>17. d = Seqs!Reverse(data)
  BY <1>1, <1>3, <1>9, <1>13, <1>16, OneNumeral
<1>18. DecodeBase58(text) = d
  <2>1. \A i \in DOMAIN text : text[i] \in 0..(BASE - 1)
    <3>1. \A i \in DOMAIN text : text[i] \in Digits(BASE)
      BY <1>9
    <3> QED
      BY <3>1 DEF Digits
  <2>2. DecodeBase58(text) = << >> \o d
    BY <1>10, <2>1, NoLeadingZeros DEF DecodeBase58, d
  <2>3. d \in Seq(Digits(BYTE))
    BY <1>16 DEF Numeral
  <2> QED
    BY <2>2, <2>3
<1> QED
  BY <1>9, <1>10, <1>11, <1>17, <1>18

\* The bytes of an address: its version, which is not 0, a hash and a checksum.
LEMMA AddressBytes ==
    ASSUME NEW s \in Seeds \ {<< >>}, NEW i \in 0..(MaxSteps - 1)
    PROVE  LET buf == <<ADDRESS_VERSION>> \o Hash160(s, i)
               data == buf \o Checksum(buf)
           IN  /\ data \in Seq(Digits(BYTE)) /\ data # << >> /\ data[1] # 0
               /\ \A k \in 1..HASH_LEN : data[k + 1] = Hash160(s, i)[k]
               /\ DeriveAddress(s, i) = EncodeBase58(data)
<1> DEFINE hash == Hash160(s, i)
           buf == <<ADDRESS_VERSION>> \o hash
           check == Checksum(buf)
           data == buf \o check
<1>1. DeriveAddress(s, i) = EncodeBase58(data)
  BY DEF DeriveAddress, PubKeyHashToAddress, EncodeBase58Check
<1>2. hash \in Seq(0..(BYTE - 1)) /\ Len(hash) = HASH_LEN /\ check \in Seq(0..(BYTE - 1))
  BY HashesAreBytes, Zenon
<1>3. ADDRESS_VERSION \in 0..(BYTE - 1) /\ ADDRESS_VERSION # 0 /\ BYTE \in Nat /\ HASH_LEN \in Nat
  BY Base58Constants
<1> HIDE DEF hash
<1>4. /\ buf \in Seq(0..(BYTE - 1)) /\ Len(buf) = HASH_LEN + 1 /\ buf[1] = ADDRESS_VERSION
      /\ \A k \in 1..HASH_LEN : buf[k + 1] = hash[k]
  BY <1>2, <1>3
<1> HIDE DEF buf, check
<1>5. /\ data \in Seq(0..(BYTE - 1)) /\ data # << >> /\ data[1] = ADDRESS_VERSION
      /\ \A k \in 1..HASH_LEN : data[k + 1] = hash[k]
  BY <1>2, <1>3, <1>4
<1> QED
  BY <1>1, <1>3, <1>5 DEF Digits, hash, buf, check

\* The address of a seed: digits, and at least one.
LEMMA AddressIsDigits ==
    ASSUME NEW s \in Seeds \ {<< >>}, NEW i \in 0..(MaxSteps - 1)
    PROVE  /\ DeriveAddress(s, i) # << >>
           /\ \A j \in DOMAIN DeriveAddress(s, i) : DeriveAddress(s, i)[j] \in 0..(BASE - 1)
<1> DEFINE address == DeriveAddress(s, i)
<1>1. address \in Seq(Digits(BASE)) /\ address # << >>
  BY AddressBytes, DecodingReverses
<1> HIDE DEF address
<1>2. \A j \in DOMAIN address : address[j] \in Digits(BASE)
  BY <1>1
<1> QED
  BY <1>1, <1>2 DEF Digits, address

LEMMA ReversedOnce ==
    ASSUME NEW S, NEW s \in Seq(S), NEW t \in Seq(S), Seqs!Reverse(s) = Seqs!Reverse(t)
    PROVE  s = t
<1> DEFINE n == Len(s)
<1>1. n \in Nat /\ n = Len(t)
  BY Reversed
<1>2. ASSUME NEW k \in 1..n PROVE s[k] = t[k]
  <2>1. n - k + 1 \in 1..n /\ n - (n - k + 1) + 1 = k
    BY <1>1
  <2>2. Seqs!Reverse(s)[n - k + 1] = s[k] /\ Seqs!Reverse(t)[n - k + 1] = t[k]
    BY <1>1, <2>1, Reversed
  <2> QED
    BY <2>2
<1> QED
  BY <1>1, <1>2

\* Different keys have different addresses.
LEMMA AddressesDiffer ==
    ASSUME NEW s \in Seeds \ {<< >>}, NEW i \in 0..(MaxSteps - 1),
           NEW t \in Seeds \ {<< >>}, NEW j \in 0..(MaxSteps - 1),
           DeriveAddress(s, i) = DeriveAddress(t, j)
    PROVE  s = t /\ i = j
<1> DEFINE data(u, k) == (<<ADDRESS_VERSION>> \o Hash160(u, k))
                            \o Checksum(<<ADDRESS_VERSION>> \o Hash160(u, k))
<1>1. \A u \in Seeds \ {<< >>}, k \in 0..(MaxSteps - 1) :
          /\ data(u, k) \in Seq(Digits(BYTE)) /\ data(u, k) # << >> /\ data(u, k)[1] # 0
          /\ \A m \in 1..HASH_LEN : data(u, k)[m + 1] = Hash160(u, k)[m]
          /\ DeriveAddress(u, k) = EncodeBase58(data(u, k))
  BY AddressBytes
<1> HIDE DEF data
<1>2. \A u \in Seeds \ {<< >>}, k \in 0..(MaxSteps - 1) :
          DecodeBase58(DeriveAddress(u, k)) = Seqs!Reverse(data(u, k))
  BY <1>1, DecodingReverses
<1>3. data(s, i) = data(t, j)
  BY <1>1, <1>2, ReversedOnce
<1>4. \A m \in 1..HASH_LEN : Hash160(s, i)[m] = Hash160(t, j)[m]
  BY <1>1, <1>3
<1>5. Hash160(s, i) = Hash160(t, j)
  <2>1. /\ Hash160(s, i) \in Seq(0..(BYTE - 1)) /\ Len(Hash160(s, i)) = HASH_LEN
        /\ Hash160(t, j) \in Seq(0..(BYTE - 1)) /\ Len(Hash160(t, j)) = HASH_LEN
    BY HashesAreBytes
  <2> QED
    BY <1>4, <2>1
<1> QED
  BY <1>5, HashesDiffer

LEMMA NoEmptySeed == << >> \notin Seeds
<1>1. \A A, B : \A x \in A \X B : x # << >>
  OBVIOUS
<1> QED
  BY <1>1, Zenon DEF Seeds

-----------------------------------------------------------------------------
(* The addresses that the runs gave away: the i-th of each was derived at  *)
(* index i - 1, and those of the present run are the keys of the wallet,   *)
(* so that the size of keys_ is the next free index whatever seeds there   *)
(* were.                                                                   *)

Sent == {c \in Client : client[c].at = "sent"}
Keys == DOMAIN context.wallet.keys
Handed == {<<DeriveAddress(s, n), s>> : s \in Seeds, n \in Nat}
Present == IF up THEN given[runs] ELSE << >>

RunsOK ==
    /\ runs \in 0..MaxRuns /\ up \in BOOLEAN /\ (up => runs # 0)
    /\ given \in [1..MaxRuns -> Seq(Handed)]
    /\ \A r \in 1..MaxRuns : r > runs => given[r] = << >>

InOrder ==
    \A r \in 1..MaxRuns : \A i \in 1..Len(given[r]) :
        given[r][i][2] \in Seeds /\ given[r][i][1] = DeriveAddress(given[r][i][2], i - 1)

KeysGiven ==
    /\ Keys = {Present[i][1] : i \in 1..Len(Present)}
    /\ IsFiniteSet(Keys) /\ Cardinality(Keys) = Len(Present)

\* Every address was asked for: HashesDiffer reaches far enough.
Counted ==
    /\ steps \in 0..MaxSteps
    /\ Len(Present) + Cardinality(Sent) <= steps
    /\ \A r \in 1..MaxRuns : Len(given[r]) <= steps

GivenInv ==
    /\ NodeInv
    /\ RunsOK
    /\ InOrder
    /\ KeysGiven
    /\ Counted
    /\ ~up => Sent = {}

LEMMA PresentOK ==
    ASSUME RunsOK
    PROVE  Present \in Seq(Handed) /\ Len(Present) \in Nat
<1>1. MaxRuns \in Nat
  BY NodeConstants
<1>2. CASE up
  <2>1. runs \in 1..MaxRuns
    BY <1>1, <1>2 DEF RunsOK
  <2>2. given[runs] \in Seq(Handed)
    BY <2>1 DEF RunsOK
  <2> QED
    BY <1>2, <2>2 DEF Present
<1>3. CASE ~up
  BY <1>3 DEF Present
<1> QED
  BY <1>2, <1>3

LEMMA FewSent ==
    /\ IsFiniteSet(Sent) /\ Cardinality(Sent) \in Nat
    /\ \A c \in Client : /\ Cardinality(Sent \ {c}) <= Cardinality(Sent)
                         /\ c \in Sent => Cardinality(Sent \ {c}) = Cardinality(Sent) - 1
                         /\ Cardinality(Sent \cup {c}) <= Cardinality(Sent) + 1
                         /\ Cardinality(Sent \cup {c}) \in Nat /\ Cardinality(Sent \ {c}) \in Nat
<1>1. IsFiniteSet(Sent)
  BY NodeConstants, FS_Subset DEF Sent
<1>2. Cardinality(Sent) \in Nat
  BY <1>1, FS_CardinalityType
<1>3. ASSUME NEW c \in Client
      PROVE  /\ Cardinality(Sent \ {c}) <= Cardinality(Sent)
             /\ c \in Sent => Cardinality(Sent \ {c}) = Cardinality(Sent) - 1
             /\ Cardinality(Sent \cup {c}) <= Cardinality(Sent) + 1
             /\ Cardinality(Sent \cup {c}) \in Nat /\ Cardinality(Sent \ {c}) \in Nat
  <2>1. /\ Cardinality(Sent \cup {c}) =
               IF c \in Sent THEN Cardinality(Sent) ELSE Cardinality(Sent) + 1
    BY <1>1, FS_AddElement
  <2>2. /\ Cardinality(Sent \ {c}) =
               IF c \in Sent THEN Cardinality(Sent) - 1 ELSE Cardinality(Sent)
    BY <1>1, FS_RemoveElement
  <2>3. Cardinality(Sent \ {c}) \in Nat
    BY <1>1, FS_RemoveElement, FS_CardinalityType
  <2> QED
    BY <1>2, <2>1, <2>2, <2>3
<1> QED
  BY <1>1, <1>2, <1>3

LEMMA SeedsKnown == Plain \ {<< >>} \subseteq Seeds
BY DEF Plain, Phrases, Seeds

LEMMA LoadsNoKey ==
    ASSUME NEW pass \in Passes, NEW w \in LoadWallet(pass)
    PROVE  w.keys = NewWallet.keys
<1>1. \A phrase : Restore(NewWallet, phrase, "").keys = NewWallet.keys
  BY DEF Restore
<1>2. w = NewWallet \/ \E phrase : w = Restore(NewWallet, phrase, "")
  BY DEF LoadWallet, LoadFromFile, LoadBackup
<1> QED
  BY <1>1, <1>2

LEMMA InitGiven == NodeInit => GivenInv
<1> SUFFICES ASSUME NodeInit PROVE GivenInv
  OBVIOUS
<1>1. /\ given = [r \in 1..MaxRuns |-> << >>] /\ << >> \in Seq(Handed) /\ Len(<< >>) = 0
      /\ steps = 0 /\ runs = 0 /\ up = FALSE
      /\ MaxSteps \in Nat /\ MaxRuns \in Nat
  <2>1. given = [r \in 1..MaxRuns |-> << >>] /\ steps = 0 /\ runs = 0 /\ up = FALSE
    BY DEF NodeInit
  <2>2. << >> \in Seq(Handed) /\ Len(<< >>) = 0
    OBVIOUS
  <2> QED
    BY <2>1, <2>2, NodeConstants
<1>2. Sent = {} /\ Cardinality(Sent) = 0
  BY FS_EmptySet DEF NodeInit, Sent, Idle
<1>3. Keys = {}
  BY DEF NodeInit, Keys, NewContext, NewWallet
<1>4. Present = << >> /\ Len(Present) = 0
  BY <1>1 DEF Present
<1>5. RunsOK
  <2>1. given \in [1..MaxRuns -> Seq(Handed)] /\ \A r \in 1..MaxRuns : given[r] = << >>
    BY <1>1
  <2>2. runs \in 0..MaxRuns
    BY <1>1
  <2> QED
    BY <1>1, <2>1, <2>2 DEF RunsOK
<1>6. KeysGiven
  BY <1>3, <1>4, FS_EmptySet DEF KeysGiven
<1>7. Counted
  <2>1. \A r \in 1..MaxRuns : Len(given[r]) <= steps
    BY <1>1
  <2> QED
    BY <1>1, <1>2, <1>4, <2>1 DEF Counted
<1>8. InOrder
  BY <1>1 DEF InOrder
<1> QED
  BY <1>2, <1>5, <1>6, <1>7, <1>8, NodeInitOK DEF GivenInv

\* Requests are handled by a program that runs.
LEMMA HandleIsUp ==
    ASSUME GivenInv, NEW c \in Client, NEW draw \in Draws, Handle(c, draw)
    PROVE  /\ up /\ c \in Sent /\ runs \in 1..MaxRuns /\ Present = given[runs]
           /\ UNCHANGED <<up, runs, steps>>
<1>1. c \in Sent /\ UNCHANGED <<up, runs, steps>>
  BY DEF Handle, Sent
<1>2. up
  BY <1>1 DEF GivenInv
<1>3. MaxRuns \in Nat
  BY NodeConstants
<1>4. runs \in 1..MaxRuns
  BY <1>2, <1>3 DEF GivenInv, RunsOK
<1> QED
  BY <1>1, <1>2, <1>4 DEF Present

LEMMA GivenByHandle ==
    ASSUME GivenInv, NEW c \in Client, NEW draw \in Draws, Handle(c, draw)
    PROVE  \/ given' = given /\ context'.wallet.keys = context.wallet.keys
           \/ LET seed == context.wallet.seed
                  address == DeriveAddress(seed, Len(Present))
              IN  /\ address # << >>
                  /\ given' = [given EXCEPT ![runs] = Append(Present, <<address, seed>>)]
                  /\ context'.wallet.keys = StoreKey(context.wallet.keys, address)
<1> DEFINE w == context.wallet
           method == IF client[c].known THEN client[c].ask.method ELSE ""
           address == DeriveAddress(w.seed, Len(Present))
<1>1. /\ IsContext(context) /\ IsWallet(w)
      /\ Present \in Seq(Handed) /\ Present = given[runs] /\ runs \in 1..MaxRuns
      /\ given = [r \in 1..MaxRuns |-> given[r]]
  BY PresentOK, HandleIsUp DEF GivenInv, NodeInv, ContextOK, WalletOK, RunsOK
<1>2. /\ context' = IF client[c].known THEN Effect(context, client[c].ask.method, draw)
                    ELSE context
      /\ given' = [given EXCEPT ![runs] = Present \o GivenBy(method, w, context'.wallet)]
  BY <1>1, HandleReplies DEF GivenInv, NodeInv
<1>3. NextIndex(w) = Len(Present)
  BY DEF GivenInv, KeysGiven, Keys, NextIndex, GetAddressCount
<1>4. /\ GenerateNewAddress(w).address = address
      /\ GenerateNewAddress(w).wallet.keys
             = IF address = << >> THEN w.keys ELSE StoreKey(w.keys, address)
  <2> DEFINE keys == IF address = << >> THEN w.keys ELSE StoreKey(w.keys, address)
  <2>1. /\ GenerateNewAddress(w).address = address
        /\ GenerateNewAddress(w).wallet = [mnemonic |-> w.mnemonic, seed |-> w.seed, keys |-> keys]
    BY <1>1, <1>3, Generated
  <2> HIDE DEF keys
  <2>2. GenerateNewAddress(w).wallet.keys = keys
    BY <2>1
  <2> QED
    BY <2>1, <2>2 DEF keys
<1>5. Create(w, draw, "").wallet.keys = w.keys
  BY <1>1, CreateKeepsKeys
<1>0. ASSUME GivenBy(method, w, context'.wallet) = << >>
      PROVE  given' = given
  <2>1. Present \o << >> = given[runs]
    BY <1>1
  <2>2. given' = [given EXCEPT ![runs] = given[runs]]
    BY <1>0, <1>2, <2>1
  <2> QED
    BY <1>1, <2>2
<1>6. CASE method \in Addressing
  <2>1. context'.wallet = GenerateNewAddress(w).wallet
    BY <1>2, <1>6 DEF Effect, With, Addressing
  <2>2. GivenBy(method, w, context'.wallet)
            = IF address # << >> THEN <<<<address, w.seed>>>> ELSE << >>
    BY <1>4, <1>6 DEF GivenBy, Addressing
  <2>3. CASE address = << >>
    BY <1>0, <1>4, <2>1, <2>2, <2>3
  <2>4. CASE address # << >>
    <3>1. Present \o <<<<address, w.seed>>>> = Append(Present, <<address, w.seed>>)
      BY <1>1
    <3>2. given' = [given EXCEPT ![runs] = Append(Present, <<address, w.seed>>)]
      BY <1>2, <2>2, <2>4, <3>1
    <3> QED
      BY <1>4, <2>1, <2>4, <3>2
  <2> QED
    BY <2>3, <2>4
<1>7. CASE method \notin Addressing
  <2>1. context'.wallet.keys = w.keys
    <3>1. CASE ~client[c].known
      BY <1>2, <3>1
    <3>2. CASE client[c].known
      <4>1. client[c].ask.method \notin Addressing
        BY <1>7, <3>2
      <4> QED
        BY <1>2, <1>5, <3>2, <4>1 DEF Effect, With
    <3> QED
      BY <3>1, <3>2
  <2>2. GivenBy(method, w, context'.wallet) = << >>
    BY <1>4, <1>7, <2>1 DEF GivenBy, Addressing
  <2> QED
    BY <1>0, <2>1, <2>2
<1> QED
  BY <1>6, <1>7

\* A handler's address is new to its run: the keys came from lower indices.
LEMMA HandleGives ==
    ASSUME GivenInv, NEW c \in Client, NEW draw \in Draws, Handle(c, draw)
    PROVE  /\ RunsOK' /\ InOrder' /\ KeysGiven'
           /\ Present' \in Seq(Handed) /\ Len(Present') <= Len(Present) + 1
           /\ \A r \in 1..MaxRuns : given'[r] \in {given[r], Present'}
<1> DEFINE seed == context.wallet.seed
           n == Len(Present)
           address == DeriveAddress(seed, n)
<1>1. /\ Present \in Seq(Handed) /\ n \in Nat /\ InOrder /\ KeysGiven /\ RunsOK
      /\ seed \in Plain
  BY PresentOK DEF GivenInv, NodeInv, ContextOK, WalletOK
<1>0. /\ up /\ up' /\ c \in Sent /\ runs \in 1..MaxRuns /\ Present = given[runs]
      /\ UNCHANGED <<up, runs, steps>>
  BY HandleIsUp
<1>2. CASE given' = given /\ context'.wallet.keys = context.wallet.keys
  <2>1. Keys' = Keys /\ Present' = Present
    BY <1>0, <1>2 DEF Keys, Present
  <2>2. InOrder' /\ KeysGiven' /\ RunsOK'
    BY <1>0, <1>1, <1>2, <2>1 DEF InOrder, KeysGiven, RunsOK
  <2> QED
    BY <1>1, <1>2, <2>1, <2>2
<1>3. CASE /\ address # << >>
           /\ given' = [given EXCEPT ![runs] = Append(Present, <<address, seed>>)]
           /\ context'.wallet.keys = StoreKey(context.wallet.keys, address)
  <2>1. seed \in Seeds
    <3>1. seed # << >>
      BY <1>3 DEF DeriveAddress
    <3> QED
      BY <1>1, <3>1, SeedsKnown
  <2>2. n \in 0..(MaxSteps - 1)
    <3>2. Cardinality(Sent) >= 1
      <4>1. /\ Cardinality(Sent \ {c}) = Cardinality(Sent) - 1
            /\ Cardinality(Sent \ {c}) \in Nat /\ Cardinality(Sent) \in Nat
        BY <1>0, FewSent
      <4> QED
        BY <4>1
    <3>3. n + Cardinality(Sent) <= steps /\ steps \in 0..MaxSteps /\ MaxSteps \in Nat
      BY NodeConstants DEF GivenInv, Counted
    <3> QED
      BY <1>1, <3>2, <3>3, FewSent
  <2>3. ASSUME NEW i \in 1..n PROVE Present[i][1] # address
    <3>1. Present[i][2] \in Seeds /\ Present[i][1] = DeriveAddress(Present[i][2], i - 1)
      BY <1>0, <1>1 DEF InOrder
    <3>2. i - 1 \in 0..(MaxSteps - 1) /\ i - 1 # n
      <4>1. MaxSteps \in Nat
        BY NodeConstants
      <4>2. \A m \in 0..(MaxSteps - 1) : \A k \in 1..m :
                k - 1 \in 0..(MaxSteps - 1) /\ k - 1 # m
        BY <4>1
      <4> QED
        BY <2>2, <4>2
    <3> QED
      BY <2>1, <2>2, <3>1, <3>2, AddressesDiffer, NoEmptySeed
  <2>4. Keys' = Keys \cup {address} /\ address \notin Keys
    <3>1. Keys' = Keys \cup {address}
      BY <1>3 DEF Keys, StoreKey
    <3>2. address \notin Keys
      BY <1>1, <2>3 DEF KeysGiven
    <3> QED
      BY <3>1, <3>2
  <2>0. Present' = Append(Present, <<address, seed>>)
    <3>1. given'[runs] = Append(Present, <<address, seed>>)
      BY <1>0, <1>1, <1>3 DEF RunsOK
    <3> QED
      BY <1>0, <3>1 DEF Present
  <2>5. /\ Len(Present') = n + 1 /\ Present' \in Seq(Handed)
        /\ Present'[n + 1] = <<address, seed>>
        /\ \A i \in 1..n : Present'[i] = Present[i]
    <3>1. <<address, seed>> \in Handed
      BY <1>1, <2>1 DEF Handed
    <3> HIDE DEF address, seed
    <3> QED
      BY <1>1, <2>0, <3>1
  <2>6. Present'[n + 1][1] = address /\ Present'[n + 1][2] = seed
    BY <2>5
  <2>7. /\ given' \in [1..MaxRuns -> Seq(Handed)]
        /\ \A r \in 1..MaxRuns : given'[r] = IF r = runs THEN Present' ELSE given[r]
    <3>1. given' = [given EXCEPT ![runs] = Present']
      BY <1>3, <2>0
    <3> QED
      BY <1>0, <1>1, <2>5, <3>1 DEF RunsOK
  <2>8. RunsOK'
    <3>1. \A r \in 1..MaxRuns : r > runs => given'[r] = << >>
      BY <1>0, <1>1, <2>7 DEF RunsOK
    <3> QED
      BY <1>0, <1>1, <2>7, <3>1 DEF RunsOK
  <2>9. InOrder'
    <3> SUFFICES ASSUME NEW r \in 1..MaxRuns, NEW i \in 1..Len(given'[r])
                 PROVE  /\ given'[r][i][2] \in Seeds
                        /\ given'[r][i][1] = DeriveAddress(given'[r][i][2], i - 1)
      BY DEF InOrder
    <3>1. CASE r # runs
      BY <1>1, <2>7, <3>1 DEF InOrder
    <3>2. CASE r = runs
      <4>1. given'[r] = Present' /\ i \in 1..(n + 1)
        BY <2>5, <2>7, <3>2
      <4>2. CASE i = n + 1
        BY <1>1, <2>1, <2>6, <4>1, <4>2
      <4>3. CASE i \in 1..n
        BY <1>0, <1>1, <2>5, <4>1, <4>3 DEF InOrder
      <4> QED
        BY <1>1, <4>1, <4>2, <4>3
    <3> QED
      BY <3>1, <3>2
  <2>10. KeysGiven'
    <3>1. Keys' = {Present'[i][1] : i \in 1..Len(Present')}
      <4>1. 1..Len(Present') = (1..n) \cup {n + 1}
        BY <1>1, <2>5
      <4>2. {Present'[i][1] : i \in 1..Len(Present')}
                = {Present'[i][1] : i \in 1..n} \cup {address}
        BY <2>6, <4>1
      <4>3. {Present'[i][1] : i \in 1..n} = {Present[i][1] : i \in 1..n}
        BY <2>5
      <4> QED
        BY <1>1, <2>4, <4>2, <4>3 DEF KeysGiven
    <3>2. IsFiniteSet(Keys') /\ Cardinality(Keys') = Cardinality(Keys) + 1
      BY <1>1, <2>4, FS_AddElement DEF KeysGiven
    <3> QED
      BY <1>1, <2>5, <3>1, <3>2 DEF KeysGiven
  <2> QED
    BY <1>1, <2>5, <2>7, <2>8, <2>9, <2>10
<1> QED
  BY <1>2, <1>3, GivenByHandle

LEMMA StepGiven ==
    ASSUME GivenInv, [NodeNext]_nodeVars
    PROVE  GivenInv'
<1>1. NodeInv'
  BY StepNode DEF GivenInv
<1>2. /\ NodeInv /\ RunsOK /\ Present \in Seq(Handed) /\ Len(Present) \in Nat
      /\ steps \in 0..MaxSteps /\ MaxSteps \in Nat /\ MaxRuns \in Nat
      /\ Len(Present) + Cardinality(Sent) <= steps
      /\ \A r \in 1..MaxRuns : Len(given[r]) <= steps /\ Len(given[r]) \in Nat
      /\ Cardinality(Sent) \in Nat /\ IsFiniteSet(Sent)
  <2>1. MaxSteps \in Nat /\ MaxRuns \in Nat
    BY NodeConstants
  <2>2. NodeInv /\ RunsOK /\ Counted
    BY DEF GivenInv
  <2>3. \A r \in 1..MaxRuns : Len(given[r]) \in Nat
    BY <2>2 DEF RunsOK
  <2> QED
    BY <2>1, <2>2, <2>3, PresentOK, FewSent DEF Counted
\* Steps that hand out nothing.
<1>3. ASSUME UNCHANGED given, Present' = Present, RunsOK', Keys' = Keys,
             steps' \in {steps, steps + 1}, steps' <= MaxSteps,
             Cardinality(Sent') \in Nat, Cardinality(Sent') + steps <= Cardinality(Sent) + steps',
             ~up' => Sent' = {}
      PROVE  GivenInv'
  <2>1. Len(Present') + Cardinality(Sent') <= steps' /\ steps' \in 0..MaxSteps
    BY <1>2, <1>3
  <2>2. \A r \in 1..MaxRuns : Len(given'[r]) <= steps'
    BY <1>2, <1>3
  <2>3. Counted'
    BY <2>1, <2>2 DEF Counted
  <2>4. InOrder' /\ KeysGiven'
    BY <1>3 DEF GivenInv, InOrder, KeysGiven
  <2> QED
    BY <1>1, <1>3, <2>3, <2>4 DEF GivenInv
<1>4. ASSUME UNCHANGED <<given, context, client, up, runs>>,
             steps' \in {steps, steps + 1}, steps' <= MaxSteps
      PROVE  GivenInv'
  <2>1. Keys' = Keys /\ Sent' = Sent /\ Present' = Present
    BY <1>4 DEF Keys, Sent, Present
  <2>2. Cardinality(Sent') + steps <= Cardinality(Sent) + steps' /\ Cardinality(Sent') \in Nat
    BY <1>2, <1>4, <2>1
  <2>3. RunsOK'
    BY <1>2, <1>4 DEF RunsOK
  <2>4. ~up' => Sent' = {}
    BY <1>4, <2>1 DEF GivenInv
  <2> QED
    BY <1>3, <1>4, <2>1, <2>2, <2>3, <2>4
<1>5. CASE UNCHANGED nodeVars
  BY <1>2, <1>4, <1>5 DEF nodeVars
<1>6. ASSUME NEW w, WriteBackup(w) PROVE GivenInv'
  BY <1>2, <1>4, <1>6 DEF WriteBackup
<1>7. ASSUME NEW pass \in Passes, Start(pass) PROVE GivenInv'
  <2>1. PICK w \in LoadWallet(pass) : context' = NewContext(w)
    BY <1>7 DEF Start
  <2>2. context'.wallet.keys = NewWallet.keys
    BY <2>1, LoadsNoKey DEF NewContext
  <2>3. /\ ~up /\ up' = TRUE /\ runs < MaxRuns /\ runs' = runs + 1
        /\ UNCHANGED <<given, steps, client>>
    BY <1>7 DEF Start
  <2>4. Sent = {} /\ Sent' = Sent /\ Present = << >>
    BY <2>3 DEF GivenInv, Sent, Present
  <2>5. Present' = << >>
    <3>1. runs + 1 \in 1..MaxRuns /\ runs + 1 > runs
      BY <1>2, <2>3 DEF RunsOK
    <3>2. given[runs + 1] = << >>
      BY <1>2, <3>1 DEF RunsOK
    <3> QED
      BY <2>3, <3>2 DEF Present
  <2>6. Keys' = {} /\ Keys = {}
    <3>1. Keys = {}
      BY <2>4 DEF GivenInv, KeysGiven
    <3> QED
      BY <2>2, <3>1 DEF Keys, NewWallet
  <2>7. RunsOK'
    <3>1. runs' \in 0..MaxRuns /\ runs' # 0
      BY <1>2, <2>3 DEF RunsOK
    <3>2. \A r \in 1..MaxRuns : r > runs' => given'[r] = << >>
      BY <1>2, <2>3 DEF RunsOK
    <3> QED
      BY <1>2, <2>3, <3>1, <3>2 DEF RunsOK
  <2> QED
    BY <1>2, <1>3, <2>3, <2>4, <2>5, <2>6, <2>7
<1>8. ASSUME NEW pass \in Passes, Save(pass) PROVE GivenInv'
  BY <1>2, <1>4, <1>8 DEF Save
<1>9. CASE Ends
  <2>1. UNCHANGED <<given, steps, runs>> /\ up' = FALSE
    BY <1>9 DEF Ends
  <2>2. Keys' = {}
    BY <1>9 DEF Ends, Keys, NewContext, NewWallet
  <2>3. Sent' = {}
    BY <1>9 DEF Ends, Sent
  <2>4. Cardinality({}) = 0 /\ IsFiniteSet({})
    BY FS_EmptySet
  <2>5. Present' = << >> /\ Len(Present') = 0
    BY <2>1 DEF Present
  <2>6. KeysGiven'
    BY <2>2, <2>4, <2>5 DEF KeysGiven
  <2>7. InOrder' /\ RunsOK'
    BY <1>2, <2>1 DEF GivenInv, InOrder, RunsOK
  <2>8. Counted'
    BY <1>2, <2>1, <2>3, <2>4, <2>5 DEF Counted
  <2> QED
    BY <1>1, <2>3, <2>6, <2>7, <2>8 DEF GivenInv
<1>10. ASSUME NEW c \in Client, NEW ask \in Asks, NEW known \in BOOLEAN, Send(c, ask, known)
       PROVE  GivenInv'
  <2>1. Sent' = IF up /\ listening THEN Sent \cup {c} ELSE Sent
    BY <1>10 DEF Send, Sent, Connects, GivenInv, NodeInv, ClientsOK
  <2>2. Cardinality(Sent') \in Nat /\ Cardinality(Sent') <= Cardinality(Sent) + 1
    <3>1. CASE Sent' = Sent
      BY <1>2, <3>1
    <3>2. CASE Sent' = Sent \cup {c}
      BY <1>2, <3>2, FewSent
    <3> QED
      BY <2>1, <3>1, <3>2
  <2>3. steps' = steps + 1 /\ steps' <= MaxSteps /\ UNCHANGED <<given, up, runs>>
    BY <1>2, <1>10 DEF Send
  <2>4. Keys' = Keys /\ Present' = Present /\ RunsOK'
    BY <1>2, <1>10, <2>3 DEF Send, Keys, Present, RunsOK
  <2>5. ~up' => Sent' = {}
    BY <2>1, <2>3 DEF GivenInv
  <2> QED
    BY <1>2, <1>3, <2>2, <2>3, <2>4, <2>5
<1>11. ASSUME NEW c \in Client, NEW draw \in Draws, Handle(c, draw) PROVE GivenInv'
  <2>1. c \in Sent /\ up /\ UNCHANGED <<up, runs, steps>>
    BY <1>11, HandleIsUp
  <2>2. Sent' = Sent \ {c}
    <3> DEFINE r == [at |-> "answered", ask |-> client[c].ask, reply |-> <<{}>>,
                     changed |-> context' # context]
    <3>1. client' = [client EXCEPT ![c] = r]
      BY <1>2, <1>11, HandleReplies DEF NodeInv
    <3>4. r.at = "answered"
      OBVIOUS
    <3> HIDE DEF r
    <3>2. client = [x \in Client |-> client[x]]
      BY <1>2 DEF NodeInv, ClientsOK
    <3>3. \A x \in Client : client'[x] = IF x = c THEN r ELSE client[x]
      BY <3>1, <3>2
    <3> QED
      BY <3>3, <3>4 DEF Sent
  <2>3. Cardinality(Sent') = Cardinality(Sent) - 1 /\ Cardinality(Sent') \in Nat
    BY <2>1, <2>2, FewSent
  <2>4. /\ RunsOK' /\ InOrder' /\ KeysGiven'
        /\ Present' \in Seq(Handed) /\ Len(Present') <= Len(Present) + 1
        /\ \A r \in 1..MaxRuns : given'[r] \in {given[r], Present'}
    BY <1>11, HandleGives
  <2>5. Len(Present') \in Nat
    BY <2>4
  <2>6. /\ Len(Present') + Cardinality(Sent') <= steps'
        /\ Len(Present') <= steps'
    BY <1>2, <2>1, <2>3, <2>4, <2>5
  <2>7. \A r \in 1..MaxRuns : Len(given'[r]) <= steps'
    BY <1>2, <2>1, <2>4, <2>6
  <2>8. Counted'
    BY <1>2, <2>1, <2>6, <2>7 DEF Counted
  <2> QED
    BY <1>1, <2>1, <2>4, <2>8 DEF GivenInv
<1>12. ASSUME NEW c \in Client, Finish(c) PROVE GivenInv'
  <2>1. Sent' = Sent
    BY <1>12 DEF Finish, Sent, Idle, GivenInv, NodeInv, ClientsOK
  <2>2. UNCHANGED <<given, steps, up, runs, context>>
    BY <1>12 DEF Finish
  <2>3. Keys' = Keys /\ Present' = Present /\ RunsOK'
    BY <1>2, <2>2 DEF Keys, Present, RunsOK
  <2>4. ~up' => Sent' = {}
    BY <2>1, <2>2 DEF GivenInv
  <2> QED
    BY <1>2, <1>3, <2>1, <2>2, <2>3, <2>4
<1> QED
  BY <1>5, <1>6, <1>7, <1>8, <1>9, <1>10, <1>11, <1>12
  DEF NodeNext, ToolCreate, ToolRestore, End, EndInSave

\* Where an address that was given stands: in reach of HashesDiffer.
LEMMA GivenAt ==
    ASSUME GivenInv, NEW r \in DOMAIN given, NEW i \in DOMAIN given[r]
    PROVE  /\ given[r][i][2] \in Seeds \ {<< >>}
           /\ given[r][i][1] = DeriveAddress(given[r][i][2], i - 1)
           /\ i \in Int /\ i - 1 \in 0..(MaxSteps - 1)
<1>1. r \in 1..MaxRuns /\ given[r] \in Seq(Handed)
  BY DEF GivenInv, RunsOK
<1>2. i \in 1..Len(given[r]) /\ Len(given[r]) \in Nat
  BY <1>1
<1>3. Len(given[r]) <= steps /\ steps \in 0..MaxSteps /\ MaxSteps \in Nat
  BY <1>1, NodeConstants DEF GivenInv, Counted
<1>4. i - 1 \in 0..(MaxSteps - 1) /\ i \in Int
  BY <1>2, <1>3
<1>5. given[r][i][2] \in Seeds /\ given[r][i][1] = DeriveAddress(given[r][i][2], i - 1)
  BY <1>1, <1>2 DEF GivenInv, InOrder
<1> QED
  BY <1>4, <1>5, NoEmptySeed

\* FreshAddresses: no run hands out an address twice, although every wallet.create
\* goes on counting where the old seed left off; another run does, for the same seed
\* at the same place.
THEOREM AddressesAreFresh == NodeSpec => []FreshAddresses
<1>1. GivenInv => FreshAddresses
  <2> SUFFICES ASSUME GivenInv, NEW r \in DOMAIN given, NEW q \in DOMAIN given,
                      NEW i \in DOMAIN given[r], NEW j \in DOMAIN given[q],
                      given[r][i][1] = given[q][j][1]
               PROVE  i = j /\ given[r][i][2] = given[q][j][2]
    BY DEF FreshAddresses
  <2> DEFINE s == given[r][i][2]
             t == given[q][j][2]
             m == i - 1
             n == j - 1
  <2>1. /\ s \in Seeds \ {<< >>} /\ given[r][i][1] = DeriveAddress(s, m)
        /\ i \in Int /\ m \in 0..(MaxSteps - 1)
    BY GivenAt
  <2>2. /\ t \in Seeds \ {<< >>} /\ given[q][j][1] = DeriveAddress(t, n)
        /\ j \in Int /\ n \in 0..(MaxSteps - 1)
    BY GivenAt
  <2>3. m = n => i = j
    BY <2>1, <2>2
  <2> HIDE DEF s, t, m, n
  <2>4. s = t /\ m = n
    BY <2>1, <2>2, AddressesDiffer
  <2> QED
    BY <2>3, <2>4 DEF s, t
<1> QED
  BY <1>1, InitGiven, StepGiven, PTL DEF NodeSpec

\* CountDecidesReach: of all the addresses that were ever handed out for the seed of
\* the wallet, by this run or by one before a restart, the scans below keys_.size()
\* come across exactly those that are not beyond the number handed out by this run.
THEOREM ReachTakesCount == NodeSpec => []CountDecidesReach
<1>1. GivenInv => CountDecidesReach
  <2> SUFFICES ASSUME GivenInv, up, NEW r \in DOMAIN given, NEW i \in DOMAIN given[r],
                      given[r][i][2] = context.wallet.seed
               PROVE  given[r][i][1] \in Derived(context.wallet) <=> i <= Len(given[runs])
    BY DEF CountDecidesReach
  <2> DEFINE s == context.wallet.seed
             m == i - 1
             count == Len(given[runs])
             a == given[r][i][1]
  <2>1. /\ s \in Seeds \ {<< >>} /\ a = DeriveAddress(s, m)
        /\ i \in Int /\ m \in 0..(MaxSteps - 1)
    BY GivenAt
  <2>2. Present = given[runs] /\ count \in Nat
    BY PresentOK DEF Present, GivenInv
  <2>3. GetAddressCount(context.wallet) = count
    BY <2>2 DEF GivenInv, KeysGiven, Keys, GetAddressCount
  <2>4. count <= MaxSteps /\ MaxSteps \in Nat
    <3>1. MaxSteps \in Nat
      BY NodeConstants
    <3>2. count + Cardinality(Sent) <= steps /\ steps \in 0..MaxSteps
      BY <2>2 DEF GivenInv, Counted
    <3> QED
      BY <2>2, <3>1, <3>2, FewSent
  <2>5. Derived(context.wallet) = {DeriveAddress(s, k) : k \in 0..(count - 1)}
    BY <2>3 DEF Derived
  <2>6. i <= count <=> m \in 0..(count - 1)
    BY <2>1, <2>2
  <2>7. \A k \in 0..(count - 1) : k \in 0..(MaxSteps - 1)
    BY <2>2, <2>4
  <2> HIDE DEF s, m, count, a
  <2>8. a \in {DeriveAddress(s, k) : k \in 0..(count - 1)} <=> m \in 0..(count - 1)
    BY <2>1, <2>7, AddressesDiffer
  <2> QED
    BY <2>5, <2>6, <2>8 DEF a, count
<1> QED
  BY <1>1, InitGiven, StepGiven, PTL DEF NodeSpec

-----------------------------------------------------------------------------
(* The wallet holds addresses only, each with what was decoded from it.    *)

WalletInv ==
    /\ GivenInv
    /\ up \in BOOLEAN /\ listening \in BOOLEAN /\ (listening => up)
    /\ \A a \in Keys : context.wallet.keys[a] = AddressToPubKeyHash(a)
    /\ context.wallet.seed = << >> => Keys = {}
    /\ runs \in 0..MaxRuns

\* A request never takes the seed away.
LEMMA SeedStays ==
    ASSUME NodeInv, NEW c \in Client, NEW draw \in Draws, Handle(c, draw)
    PROVE  context'.wallet.seed = << >> => context.wallet.seed = << >>
<1> DEFINE w == context.wallet
           ask == client[c].ask
<1>1. context' = IF client[c].known THEN Effect(context, ask.method, draw) ELSE context
  BY HandleReplies DEF NodeInv
<1>2. IsWallet(w)
  BY DEF NodeInv, ContextOK, WalletOK
<1>3. GenerateNewAddress(w).wallet.seed = w.seed
  <2> DEFINE address == DeriveAddress(w.seed, NextIndex(w))
             keys == IF address = << >> THEN w.keys ELSE StoreKey(w.keys, address)
  <2>1. GenerateNewAddress(w).wallet = [mnemonic |-> w.mnemonic, seed |-> w.seed, keys |-> keys]
    BY <1>2, Generated
  <2> HIDE DEF keys
  <2> QED
    BY <2>1
<1>4. Create(w, draw, "").wallet.seed = << >> => w.seed = << >>
  <2> DEFINE phrase == GenerateMnemonic12(draw)
             seed == IF phrase = << >> THEN w.seed ELSE <<phrase, "">>
             created == Create(w, draw, "").wallet
  <2> HIDE DEF phrase, seed, created
  <2>1. created = [mnemonic |-> phrase, seed |-> seed, keys |-> w.keys]
    BY <1>2, Created DEF phrase, seed, created
  <2>2. \A p : <<p, "">> # << >>
    OBVIOUS
  <2>3. seed = << >> => w.seed = << >>
    BY <2>2 DEF seed
  <2>4. created.seed = seed
    BY <2>1
  <2> QED
    BY <2>3, <2>4, Zenon DEF created
<1> QED
  BY <1>1, <1>3, <1>4 DEF Effect, With

LEMMA InitWallet == NodeInit => WalletInv
<1> SUFFICES ASSUME NodeInit PROVE WalletInv
  OBVIOUS
<1>1. Keys = {}
  BY DEF NodeInit, Keys, NewContext, NewWallet
<1>2. 0 \in 0..MaxRuns
  <2>1. MaxRuns \in Nat
    BY NodeConstants
  <2> QED
    BY <2>1
<1> QED
  BY <1>1, <1>2, InitGiven DEF NodeInit, WalletInv

LEMMA StepWallet ==
    ASSUME WalletInv, [NodeNext]_nodeVars
    PROVE  WalletInv'
<1> USE DEF WalletInv
<1>1. GivenInv'
  BY StepGiven
\* Steps that leave the wallet alone.
<1>2. ASSUME UNCHANGED <<context, up, listening, runs>> PROVE WalletInv'
  BY <1>1, <1>2 DEF Keys
\* Steps that leave it without a key.
<1>3. ASSUME context'.wallet.keys = NewWallet.keys, up' \in BOOLEAN, listening' \in BOOLEAN,
             listening' => up', runs' \in 0..MaxRuns
      PROVE  WalletInv'
  <2>1. Keys' = {}
    BY <1>3 DEF Keys, NewWallet
  <2> QED
    BY <1>1, <1>3, <2>1
<1>4. CASE UNCHANGED nodeVars
  BY <1>2, <1>4 DEF nodeVars
<1>5. ASSUME NEW w, WriteBackup(w) PROVE WalletInv'
  BY <1>2, <1>5 DEF WriteBackup
<1>6. ASSUME NEW pass \in Passes, Start(pass) PROVE WalletInv'
  <2>1. PICK w \in LoadWallet(pass) : context' = NewContext(w)
    BY <1>6 DEF Start
  <2>2. context'.wallet.keys = NewWallet.keys
    BY <2>1, LoadsNoKey DEF NewContext
  <2>3. up' = TRUE /\ listening' \in BOOLEAN /\ runs' = runs + 1 /\ runs < MaxRuns
    BY <1>6 DEF Start
  <2>4. runs' \in 0..MaxRuns
    <3>1. MaxRuns \in Nat /\ runs \in 0..MaxRuns
      BY NodeConstants
    <3> QED
      BY <2>3, <3>1
  <2> QED
    BY <1>3, <2>2, <2>3, <2>4
<1>7. ASSUME NEW pass \in Passes, Save(pass) PROVE WalletInv'
  BY <1>2, <1>7 DEF Save
<1>8. CASE Ends
  <2>1. context'.wallet.keys = NewWallet.keys
    BY <1>8 DEF Ends, NewContext
  <2>2. up' = FALSE /\ listening' = FALSE /\ runs' = runs
    BY <1>8 DEF Ends
  <2> QED
    BY <1>3, <2>1, <2>2
<1>9. ASSUME NEW c \in Client, NEW ask \in Asks, NEW known \in BOOLEAN, Send(c, ask, known)
      PROVE  WalletInv'
  BY <1>2, <1>9 DEF Send
<1>10. ASSUME NEW c \in Client, NEW draw \in Draws, Handle(c, draw) PROVE WalletInv'
  <2> DEFINE keys == context.wallet.keys
             seed == context.wallet.seed
             address == DeriveAddress(seed, Len(Present))
             Sound(k, a) == k = AddressToPubKeyHash(a)
  <2>1. UNCHANGED <<up, listening, runs>>
    BY <1>10 DEF Handle
  <2>2. context'.wallet.seed = << >> => seed = << >>
    BY <1>10, SeedStays DEF GivenInv
  <2>3. CASE context'.wallet.keys = keys
    BY <1>1, <2>1, <2>2, <2>3 DEF Keys
  <2>4. CASE address # << >> /\ context'.wallet.keys = StoreKey(keys, address)
    <3>1. seed # << >>
      BY <2>4 DEF DeriveAddress
    <3>2. Sound(AddressToPubKeyHash(address), address)
      OBVIOUS
    <3>3. \A a \in DOMAIN keys : Sound(keys[a], a)
      BY DEF Keys
    <3> HIDE DEF Sound, keys, address
    <3>4. \A a \in DOMAIN StoreKey(keys, address) : Sound(StoreKey(keys, address)[a], a)
      BY <3>2, <3>3 DEF StoreKey
    <3>5. \A a \in Keys' : Sound(context'.wallet.keys[a], a)
      BY <2>4, <3>4 DEF Keys
    <3> QED
      BY <1>1, <2>1, <2>2, <3>1, <3>5 DEF Sound, seed
  <2> QED
    BY <1>10, <2>3, <2>4, GivenByHandle
<1>11. ASSUME NEW c \in Client, Finish(c) PROVE WalletInv'
  BY <1>2, <1>11 DEF Finish
<1> QED
  BY <1>4, <1>5, <1>6, <1>7, <1>8, <1>9, <1>10, <1>11
  DEF NodeNext, ToolCreate, ToolRestore, End, EndInSave

\* What is in the wallet was handed out, at an index that HashesDiffer reaches.
LEMMA KeyIsAddress ==
    ASSUME GivenInv
    PROVE  /\ Len(Present) \in Nat /\ Len(Present) <= MaxSteps
           /\ \A a \in Keys : \E s \in Seeds \ {<< >>}, i \in 0..(MaxSteps - 1) :
                 a = DeriveAddress(s, i)
<1>1. Len(Present) <= MaxSteps /\ Len(Present) \in Nat
  <2>1. MaxSteps \in Nat /\ Len(Present) \in Nat
    BY NodeConstants, PresentOK DEF GivenInv
  <2>2. Len(Present) + Cardinality(Sent) <= steps /\ steps \in 0..MaxSteps
    BY DEF GivenInv, Counted
  <2> QED
    BY <2>1, <2>2, FewSent
<1>2. ASSUME NEW a \in Keys
      PROVE  \E s \in Seeds \ {<< >>}, i \in 0..(MaxSteps - 1) : a = DeriveAddress(s, i)
  <2>1. PICK n \in 1..Len(Present) : a = Present[n][1]
    BY DEF GivenInv, KeysGiven
  <2>2. up
    <3>1. Present # << >>
      BY <2>1
    <3> QED
      BY <3>1 DEF Present
  <2>3. runs \in DOMAIN given /\ Present = given[runs] /\ n \in DOMAIN given[runs]
    <3>1. runs \in DOMAIN given
      <4>1. MaxRuns \in Nat
        BY NodeConstants
      <4> QED
        BY <2>2, <4>1 DEF GivenInv, RunsOK
    <3>2. Present = given[runs]
      BY <2>2 DEF Present
    <3>3. Present \in Seq(Handed)
      BY PresentOK DEF GivenInv
    <3> QED
      BY <2>1, <3>1, <3>2, <3>3
  <2> DEFINE s == Present[n][2]
             m == n - 1
  <2>4. s \in Seeds \ {<< >>} /\ a = DeriveAddress(s, m) /\ m \in 0..(MaxSteps - 1)
    BY <2>1, <2>3, GivenAt
  <2> HIDE DEF s, m
  <2> QED
    BY <2>4
<1> QED
  BY <1>1, <1>2

\* WalletTypeOK: the keys of keys_ are addresses, texts of base 58 digits that are
\* not empty, each with a hash of full length or none; without a seed there are no
\* keys.
THEOREM WalletTypeCorrect == NodeSpec => []WalletTypeOK
<1>1. WalletInv => WalletTypeOK
  <2> SUFFICES ASSUME WalletInv PROVE WalletTypeOK
    OBVIOUS
  <2>1. GivenInv
    BY DEF WalletInv
  <2>2. context.mining \in 0..2
    BY <2>1 DEF GivenInv, NodeInv, ContextOK
  <2>3. steps \in 0..MaxSteps
    BY <2>1 DEF GivenInv, Counted
  <2>4. ASSUME NEW a \in Keys
        PROVE  a # << >> /\ \A i \in DOMAIN a : a[i] \in 0..(BASE - 1)
    BY <2>1, KeyIsAddress, AddressIsDigits
  <2>5. ASSUME NEW a \in Keys
        PROVE  context.wallet.keys[a] = << >> \/ Len(context.wallet.keys[a]) = HASH_LEN
    <3>1. context.wallet.keys[a] = AddressToPubKeyHash(a)
      BY DEF WalletInv
    <3> QED
      BY <3>1 DEF AddressToPubKeyHash
  <2> QED
    BY <2>2, <2>3, <2>4, <2>5 DEF WalletInv, WalletTypeOK, Keys
<1> QED
  BY <1>1, InitWallet, StepWallet, PTL DEF NodeSpec

-----------------------------------------------------------------------------
(* No coin is found: what DecodingReverses makes of an address is no       *)
(* address, so that every hash of the wallet is empty.                     *)

LEMMA AddressUnread ==
    ASSUME NEW s \in Seeds \ {<< >>}, NEW i \in 0..(MaxSteps - 1)
    PROVE  AddressToPubKeyHash(DeriveAddress(s, i)) = << >>
<1> DEFINE buf == <<ADDRESS_VERSION>> \o Hash160(s, i)
           data == buf \o Checksum(buf)
           back == Seqs!Reverse(data)
           kept == Len(back) - CHECK_LEN
           address == DeriveAddress(s, i)
           end == SubSeq(back, kept + 1, Len(back))
           body == SubSeq(back, 1, kept)
           read == [version |-> back[1],
                    payload |-> IF Checksum(body) = end THEN Tail(body) ELSE << >>]
<1>1. DecodeBase58(address) = back
  <2>1. data \in Seq(Digits(BYTE)) /\ data # << >> /\ data[1] # 0 /\ address = EncodeBase58(data)
    BY AddressBytes
  <2> HIDE DEF data, address
  <2> QED
    BY <2>1, DecodingReverses
<1>2. back[1] = ADDRESS_VERSION => Checksum(body) # end
  BY NoAddressBackwards, Zenon
<1> HIDE DEF address, back
<1>3. DecodeBase58Check(address) = IF kept < 1 THEN [version |-> 0, payload |-> << >>] ELSE read
  BY <1>1, Zenon DEF DecodeBase58Check
<1>4. HASH_LEN # 0 /\ ADDRESS_VERSION # 0 /\ Len(<< >>) = 0
  BY Base58Constants
<1> HIDE DEF kept, body, end
<1>5. ~(Len(DecodeBase58Check(address).payload) = HASH_LEN
           /\ DecodeBase58Check(address).version = ADDRESS_VERSION)
  <2>1. CASE kept < 1
    BY <1>3, <1>4, <2>1
  <2>2. CASE ~(kept < 1)
    <3>1. DecodeBase58Check(address) = read
      BY <1>3, <2>2
    <3>2. read.version = back[1] /\ (Checksum(body) # end => read.payload = << >>)
      OBVIOUS
    <3> HIDE DEF read
    <3> QED
      BY <1>2, <1>4, <3>1, <3>2
  <2> QED
    BY <2>1, <2>2
<1>6. AddressToPubKeyHash(address) = << >>
  BY <1>5, Zenon DEF AddressToPubKeyHash
<1> QED
  BY <1>6 DEF address

\* Nobody pays an empty hash.
LEMMA NothingPaid ==
    ASSUME NEW coins, Len(coins) \in Nat, NEW hashes, hashes \subseteq {<< >>}
    PROVE  Paying(coins, hashes) = << >>
<1> DEFINE len == Len(coins)
           pays(n) == coins[n].hash \in hashes \ {<< >>}
           Is(f) == f = [n \in 0..len |->
                            IF n = 0 THEN << >>
                            ELSE IF pays(n) THEN Append(f[n - 1], coins[n]) ELSE f[n - 1]]
           found == CHOOSE f : Is(f)
           none == [n \in 0..len |-> << >>]
<1>1. Paying(coins, hashes) = found[len]
  BY Zenon DEF Paying
<1>2. \A n : ~pays(n)
  OBVIOUS
<1> HIDE DEF pays
<1>3. Is(none)
  <2>1. \A n \in 0..len : n # 0 => none[n - 1] = << >>
    <3>1. \A n \in 0..len : n # 0 => n - 1 \in 0..len
      OBVIOUS
    <3> QED
      BY <3>1
  <2>2. \A n \in 0..len : none[n] = << >>
    OBVIOUS
  <2>3. none = [n \in 0..len |-> none[n]]
    OBVIOUS
  <2> HIDE DEF none
  <2> QED
    BY <1>2, <2>1, <2>2, <2>3
<1>4. Is(found)
  <2> HIDE DEF Is
  <2> QED
    BY <1>3
<1> HIDE DEF found
<1>5. ASSUME NEW i \in 0..len, \A j \in 0..(i - 1) : found[j] \in {<< >>}
      PROVE  found[i] \in {<< >>}
  <2>1. CASE i = 0
    BY <1>4, <2>1
  <2>2. CASE i # 0
    <3>1. i - 1 \in 0..(i - 1)
      BY <2>2
    <3>2. found[i] = found[i - 1]
      BY <1>2, <1>4, <2>2
    <3> QED
      BY <1>5, <3>1, <3>2
  <2> QED
    BY <2>1, <2>2
<1> HIDE DEF Is
<1>6. \A i \in 0..len : found[i] \in {<< >>}
  BY <1>5, RecursionStays
<1>7. len \in 0..len
  OBVIOUS
<1> QED
  BY <1>1, <1>6, <1>7

LEMMA NothingIsWorthNothing == Amount(<< >>) = 0
<1> DEFINE Is(f) == f = [n \in 0..Len(<< >>) |-> IF n = 0 THEN 0 ELSE f[n - 1] + << >>[n].amount]
           sum == CHOOSE f : Is(f)
           zero == [n \in 0..0 |-> 0]
<1>1. Amount(<< >>) = sum[Len(<< >>)]
  BY Zenon DEF Amount
<1>2. Len(<< >>) = 0 /\ \A n \in 0..0 : n = 0
  OBVIOUS
<1>3. Is(zero)
  BY <1>2
<1>4. Is(sum)
  <2> HIDE DEF Is
  <2> QED
    BY <1>3
<1> HIDE DEF sum
<1> QED
  BY <1>1, <1>2, <1>4

\* The bytes of an address are decoded in the wrong order: wallet and command line
\* take every address of the wallet for invalid, and no coin is found, spendable or
\* signed for, whoever paid it.
NoCoinIsFound ==
    /\ \A a \in DOMAIN context.wallet.keys : ~ValidateAddress(a)
    /\ GetBalance(context.wallet, Coins) = 0
    /\ Unspent(context.wallet) = << >> /\ Spendable(context.wallet) = << >>
    /\ \A i \in DOMAIN Coins : ~SignTransaction(context.wallet, <<Coins[i]>>)

\* NoCoinIsFound: whatever wallets there were, whoever paid them and whatever the
\* clients ask, no address of the wallet is taken for valid, the balance is zero and no
\* coin is listed, spendable or signed for.
THEOREM CoinsStayLost == NodeSpec => []NoCoinIsFound
<1>1. WalletInv => NoCoinIsFound
  <2> SUFFICES ASSUME WalletInv PROVE NoCoinIsFound
    OBVIOUS
  <2> DEFINE w == context.wallet
  <2>1. GivenInv
    BY DEF WalletInv
  <2>2. ASSUME NEW a \in Keys PROVE AddressToPubKeyHash(a) = << >>
    BY <2>1, KeyIsAddress, AddressUnread
  <2>3. StoredHashes(w) \subseteq {<< >>}
    BY <2>2 DEF WalletInv, StoredHashes, Keys
  <2>4. ASSUME NEW a \in Derived(w) PROVE AddressToPubKeyHash(a) = << >>
    <3>1. PICK i \in 0..(GetAddressCount(w) - 1) : a = DeriveAddress(w.seed, i)
      BY DEF Derived
    <3>2. GetAddressCount(w) = Len(Present) /\ GetAddressCount(w) = Cardinality(Keys)
      BY <2>1 DEF GivenInv, KeysGiven, GetAddressCount, Keys
    <3>3. Len(Present) \in Nat /\ Len(Present) <= MaxSteps
      BY <2>1, KeyIsAddress
    <3>4. i \in 0..(MaxSteps - 1)
      <4>1. MaxSteps \in Nat
        BY NodeConstants
      <4> QED
        BY <3>1, <3>2, <3>3, <4>1
    <3>5. w.seed # << >>
      <4> SUFFICES ASSUME w.seed = << >> PROVE FALSE
        OBVIOUS
      <4>1. Keys = {}
        BY DEF WalletInv
      <4>2. GetAddressCount(w) = 0
        BY <3>2, <4>1, FS_EmptySet
      <4> QED
        BY <3>1, <4>2
    <3>6. w.seed \in Seeds \ {<< >>}
      BY <2>1, <3>5, SeedsKnown DEF GivenInv, NodeInv, ContextOK, WalletOK
    <3> QED
      BY <3>1, <3>4, <3>6, AddressUnread
  <2>5. DerivedHashes(w) \subseteq {<< >>} /\ KnownHashes(w) \subseteq {<< >>}
    BY <2>3, <2>4 DEF DerivedHashes, KnownHashes
  <2>6. Unspent(w) = << >> /\ Spendable(w) = << >> /\ Paying(Coins, StoredHashes(w)) = << >>
    BY <2>3, <2>5, NothingPaid, CoinsAreListed DEF Unspent, Spendable
  <2>7. GetBalance(w, Coins) = 0
    BY <2>6, NothingIsWorthNothing DEF GetBalance
  <2>8. ASSUME NEW coin PROVE ~SignTransaction(w, <<coin>>)
    <3>1. 1 \in DOMAIN <<coin>>
      OBVIOUS
    <3> QED
      BY <2>5, <3>1 DEF SignTransaction
  <2>9. \A a \in Keys : ~ValidateAddress(a)
    BY <2>2 DEF ValidateAddress
  <2> QED
    BY <2>6, <2>7, <2>8, <2>9 DEF NoCoinIsFound, Keys
<1> QED
  BY <1>1, InitWallet, StepWallet, PTL DEF NodeSpec
=============================================================================
