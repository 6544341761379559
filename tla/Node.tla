--------------------------------- MODULE Node ---------------------------------
(***************************************************************************)
(* A program that serves the RPC methods from one thread, as main.cpp      *)
(* would if its lines 113-115 were not commented out; wallet_tool on the   *)
(* same data directory; clients that send one request after the other; and *)
(* the end of the program at any moment, after which it starts again with  *)
(* what the files hold.  Requests are handled one at a time, so a handler  *)
(* is one step.                                                            *)
(***************************************************************************)
EXTENDS Cli

CONSTANTS
    Client,
    Draws,                      \* what the random generator may come up with
    Passes,                     \* passphrases and passwords; "" is none
    Absent,                     \* a file that is not there
    MaxRuns, MaxSteps           \* bounds

ASSUME NodeConstants ==
    /\ IsFiniteSet(Client) /\ "" \in Passes
    /\ MaxRuns \in Nat /\ MaxSteps \in Nat

\* The seeds that wallets may have: of a phrase that was drawn, or that came
\* out of a file.
Drawn == {GenerateMnemonic12(draw) : draw \in Draws}
Seeds == ((Drawn \ {<< >>}) \X Passes) \cup ((Drawn \cup Garbage \cup {<< >>}) \X {""})

\* Different keys have different hashes: HASH160 is taken for injective.
ASSUME HashesDiffer ==
    \A s, t \in Seeds, i, j \in 0..(MaxSteps - 1) :
        Hash160(s, i) = Hash160(t, j) => s = t /\ i = j

\* Hashes and checksums are bytes.
ASSUME HashesAreBytes ==
    \A s \in Seeds \ {<< >>}, i \in 0..(MaxSteps - 1) :
        /\ Hash160(s, i) \in Seq(0..(BYTE - 1)) /\ Len(Hash160(s, i)) = HASH_LEN
        /\ Checksum(<<ADDRESS_VERSION>> \o Hash160(s, i)) \in Seq(0..(BYTE - 1))

\* No address of a wallet is a valid one backwards: its bytes in the opposite order do
\* not start with the version, or their end is not their checksum.  (One address in
\* 2^40 is, of hashes without a pattern.)
ASSUME NoAddressBackwards ==
    \A s \in Seeds \ {<< >>}, i \in 0..(MaxSteps - 1) :
        LET buf  == <<ADDRESS_VERSION>> \o Hash160(s, i)
            back == Seqs!Reverse(buf \o Checksum(buf))
            kept == Len(back) - CHECK_LEN
        IN  back[1] = ADDRESS_VERSION =>
                Checksum(SubSeq(back, 1, kept)) # SubSeq(back, kept + 1, Len(back))

VARIABLES
    context,                    \* RpcContext of the program
    up, listening,              \* whether it runs, and whether run() got the port
    dat, backup,                \* wallet.dat and wallet_backup.txt
    client,                     \* client[c]: the request it waits for, and the reply
    runs,                       \* starts of the program so far
    steps,                      \* requests, saves and uses of wallet_tool so far
    given,                      \* history: the <<address, seed>> that each run gave
    origin                      \* history: the file that the wallet came from

nodeVars == <<context, up, listening, dat, backup, client, runs, steps, given, origin>>

Idle == [at |-> "idle"]
Unread == [from |-> "none"]

NodeInit ==
    /\ context = NewContext(NewWallet)
    /\ up = FALSE /\ listening = FALSE
    /\ dat = Absent /\ backup = Absent
    /\ client = [c \in Client |-> Idle]
    /\ runs = 0 /\ steps = 0
    /\ given = [r \in 1..MaxRuns |-> << >>]
    /\ origin = Unread

-----------------------------------------------------------------------------
(* wallet_tool, which is of interest when it is to write a backup: the     *)
(* addresses that it prints are derived and forgotten.                     *)

WriteBackup(w) ==
    /\ steps < MaxSteps
    /\ steps' = steps + 1
    /\ backup' = Backup(w)
    /\ UNCHANGED <<context, up, listening, dat, client, runs, given, origin>>

ToolCreate(draw, pass) ==
    LET created == Create(NewWallet, draw, pass)
    IN  created.ok /\ WriteBackup(created.wallet)

ToolRestore(phrase, pass) ==
    phrase # << >> /\ WriteBackup(Restore(NewWallet, phrase, pass))

-----------------------------------------------------------------------------
(* The program.                                                            *)

\* MUTANT of LoadBackup: the password of the configuration is a passphrase too.
LoadBackupWithPass(w, pass) ==
    IF backup.phrase = << >> THEN w ELSE Restore(w, backup.phrase, pass)

\* The first line of the file; an empty one leaves the wallet without a seed.
LoadBackup(w, pass) == IF backup.phrase = << >> THEN w ELSE Restore(w, backup.phrase, "")

\* The wallets that a start may end up with.
LoadWallet(pass) ==
    IF dat # Absent THEN LoadFromFile(NewWallet, dat, pass)
    ELSE IF backup # Absent THEN {LoadBackup(NewWallet, pass)}
    ELSE {NewWallet}

\* history: whose file it was, and whether it was read with the right password.
OriginOf(pass) ==
    CASE dat # Absent -> [from |-> "dat", file |-> dat, opened |-> Opens(dat, pass)]
      [] dat = Absent /\ backup # Absent -> [from |-> "backup", file |-> backup, opened |-> TRUE]
      [] OTHER -> Unread

\* A port that is taken makes run() throw, which start() does not tell.
Start(pass) ==
    /\ ~up /\ runs < MaxRuns
    /\ up' = TRUE
    /\ runs' = runs + 1
    /\ \E w \in LoadWallet(pass) : context' = NewContext(w)
    /\ origin' = OriginOf(pass)
    /\ listening' \in BOOLEAN
    /\ UNCHANGED <<dat, backup, client, steps, given>>

\* Wallet::saveToFile, which test_wallet.cpp calls and no program does.
Save(pass) ==
    /\ up /\ steps < MaxSteps
    /\ steps' = steps + 1
    /\ dat' = SaveToFile(context.wallet, pass)
    /\ UNCHANGED <<context, up, listening, backup, client, runs, given, origin>>

\* Whoever waits for a reply reads the end of the connection.
Ends ==
    /\ up
    /\ up' = FALSE /\ listening' = FALSE
    /\ context' = NewContext(NewWallet)
    /\ client' = [c \in Client |->
        IF client[c].at = "sent"
        THEN [at |-> "answered", ask |-> client[c].ask, reply |-> << >>, changed |-> FALSE]
        ELSE client[c]]
    /\ origin' = Unread
    /\ UNCHANGED <<backup, runs, steps, given>>

End == Ends /\ UNCHANGED dat

\* The program ends while it saves: the old wallet.dat is lost.
EndInSave == Ends /\ dat' = CutShort(context.wallet)

-----------------------------------------------------------------------------
(* The clients.                                                            *)

Connects == up /\ listening

\* rpcPost; without a server there is an answer at once, an empty one.
Send(c, ask, known) ==
    /\ client[c].at = "idle" /\ steps < MaxSteps
    /\ steps' = steps + 1
    /\ client' = [client EXCEPT ![c] =
        IF Connects THEN [at |-> "sent", ask |-> ask, known |-> known]
        ELSE [at |-> "answered", ask |-> ask, reply |-> << >>, changed |-> FALSE]]
    /\ UNCHANGED <<context, up, listening, dat, backup, runs, given, origin>>

\* history: the address that a request handed out, known or new, and its seed.
GivenBy(method, before, after) ==
    LET address == GenerateNewAddress(before).address
    IN  IF /\ address # << >>
           /\ \/ method \in {"wallet.getnewaddress", "mining.getblocktemplate"}
              \/ address \in DOMAIN after.keys \ DOMAIN before.keys
        THEN <<<<address, before.seed>>>> ELSE << >>

Handle(c, draw) ==
    LET ask     == client[c].ask
        request == [method |-> ask.method, params |-> ask.params]
    IN  /\ client[c].at = "sent"
        /\ \E handled \in {RequestHandler(context, client[c].known, request, draw)} :
            /\ context' = handled.context
            /\ client' = [client EXCEPT ![c] =
                [at |-> "answered", ask |-> ask, reply |-> <<handled.reply>>,
                 changed |-> handled.context # context]]
            /\ given' = [given EXCEPT ![runs] = @ \o
                   GivenBy(IF client[c].known THEN ask.method ELSE "",
                           context.wallet, handled.context.wallet)]
            /\ origin' = IF handled.context.wallet.seed = context.wallet.seed
                         THEN origin ELSE Unread
        /\ UNCHANGED <<up, listening, dat, backup, runs, steps>>

\* The user reads what the command printed.
Finish(c) ==
    /\ client[c].at = "answered"
    /\ client' = [client EXCEPT ![c] = Idle]
    /\ UNCHANGED <<context, up, listening, dat, backup, runs, steps, given, origin>>

Asks == {Command[n] : n \in DOMAIN Command} \cup {OtherRequest[n] : n \in DOMAIN OtherRequest}

NodeNext ==
    \/ \E draw \in Draws, pass \in Passes :
        \/ ToolCreate(draw, pass)
        \/ ToolRestore(GenerateMnemonic12(draw), pass)
    \/ \E pass \in Passes : Start(pass) \/ Save(pass)
    \/ End
    \/ EndInSave
    \/ \E c \in Client :
        \/ \E ask \in Asks, known \in BOOLEAN : Send(c, ask, known)
        \/ \E draw \in Draws : Handle(c, draw)
        \/ Finish(c)

NodeSpec == NodeInit /\ [][NodeNext]_nodeVars

-----------------------------------------------------------------------------
(* Properties.                                                             *)

\* Types.  The wallet holds only addresses, and what it took each of them for.
WalletTypeOK ==
    /\ context.mining \in 0..2
    /\ up \in BOOLEAN /\ listening \in BOOLEAN /\ (listening => up)
    /\ \A a \in DOMAIN context.wallet.keys :
        /\ a # << >> /\ \A i \in DOMAIN a : a[i] \in 0..(BASE - 1)
        /\ context.wallet.keys[a] = << >> \/ Len(context.wallet.keys[a]) = HASH_LEN
    /\ context.wallet.seed = << >> => DOMAIN context.wallet.keys = {}
    /\ runs \in 0..MaxRuns /\ steps \in 0..MaxSteps

\* Wallet::generateNewAddress numbers an address by the size of keys_, which create
\* and restore leave alone and a start empties.  An address is handed out again by
\* another run only, for the same seed and at the same place in the order: never
\* twice by one, not even when two phrases that a missing word cut short are one.
FreshAddresses ==
    \A r, q \in DOMAIN given : \A i \in DOMAIN given[r], j \in DOMAIN given[q] :
        given[r][i][1] = given[q][j][1] => i = j /\ given[r][i][2] = given[q][j][2]

\* The scans over the indices below keys_.size() come across an address that this
\* run or an earlier one gave for the seed of the wallet exactly when this run has
\* given as many: none is lost to it, and after a restart the others are not
\* derived until new addresses have been asked for.
CountDecidesReach ==
    up => \A r \in DOMAIN given : \A i \in DOMAIN given[r] :
        given[r][i][2] = context.wallet.seed =>
            (given[r][i][1] \in Derived(context.wallet) <=> i <= Len(given[runs]))

\* Both files keep the phrase and not the passphrase, and walletpass only opens
\* wallet.dat: a start brings back the wallet that wrote the file if and only if the
\* file is whole and was opened with its password, and the wallet had no passphrase
\* and still had the phrase of its seed, which a create that fails takes away.  A
\* wallet.dat that was cut short brings back none, although there be a backup.  (A
\* seed that came out of a file with the wrong password may come out of one again.)
FileRestores ==
    origin.from # "none" =>
        LET file == origin.file
            kept == file.seed[1] = file.phrase
        IN  file.seed # << >> /\ (kept \/ file.seed[1] \notin Garbage) =>
                (context.wallet.seed = file.seed <=>
                    origin.opened /\ kept /\ file.seed[2] = "")

=============================================================================
