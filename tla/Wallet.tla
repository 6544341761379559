-------------------------------- MODULE Wallet --------------------------------
(***************************************************************************)
(* wallet/{mnemonic,hdwallet,wallet}.cpp as operators on a wallet:         *)
(*                                                                         *)
(*   mnemonic   sequence of word numbers, << >> for the empty text         *)
(*   seed       <<phrase, passphrase>>, or << >> before the first one;     *)
(*              PBKDF2 keeps different ones apart                          *)
(*   keys       std::map from address to what addressToPubKeyHash made of  *)
(*              it, << >> when it made nothing                             *)
(*                                                                         *)
(* Random bytes and their checksum bits come as a draw: the numbers of the *)
(* words to write.  Coins are a sequence of [amount, hash], in the order   *)
(* of the map, where hash is << >> for a script that is not P2PKH.         *)
(***************************************************************************)
EXTENDS Base58, FiniteSets

CONSTANTS
    Words,                      \* entries of BIP39_WORDS that are not null: 2045
    WordCount,                  \* entries of BIP39_WORDS: 2048
    Hash160(_, _)               \* of the public key of a seed and an index

ASSUME WalletConstants == Words \in Nat /\ WordCount \in Nat /\ Words <= WordCount

NewWallet == [mnemonic |-> << >>, seed |-> << >>, keys |-> [a \in {} |-> << >>]]

-----------------------------------------------------------------------------
HasWord(number) == number < Words

\* Writing a null pointer breaks the stream, which takes nothing after it.
GenerateMnemonic12(draw) ==
    LET written == {n \in 0..Len(draw) : \A i \in 1..n : HasWord(draw[i])}
    IN  SubSeq(draw, 1, CHOOSE n \in written : \A m \in written : m <= n)

MnemonicToSeed(phrase, pass) == <<phrase, pass>>

Restore(w, phrase, pass) ==
    [mnemonic |-> phrase, seed |-> MnemonicToSeed(phrase, pass), keys |-> w.keys]

\* MUTANT of Create: the addresses of the old seed are forgotten.
CreateClearsKeys(w, draw, pass) ==
    LET phrase == GenerateMnemonic12(draw)
    IN  [ok |-> phrase # << >>,
         wallet |-> IF phrase = << >> THEN [w EXCEPT !.mnemonic = phrase]
                    ELSE Restore([w EXCEPT !.keys = NewWallet.keys], phrase, pass)]

\* The phrase is replaced before it is known to be any good.
Create(w, draw, pass) ==
    LET phrase == GenerateMnemonic12(draw)
    IN  [ok |-> phrase # << >>,
         wallet |-> IF phrase = << >> THEN [w EXCEPT !.mnemonic = phrase]
                    ELSE Restore(w, phrase, pass)]

-----------------------------------------------------------------------------
DeriveAddress(seed, index) ==
    IF seed = << >> THEN << >> ELSE PubKeyHashToAddress(Hash160(seed, index))

GetAddressCount(w) == Cardinality(DOMAIN w.keys)

\* MUTANT of NextIndex: indices from one on.
NextIndexFromOne(w) == GetAddressCount(w) + 1

NextIndex(w) == GetAddressCount(w)

StoreKey(keys, address) ==
    [a \in DOMAIN keys \cup {address} |->
        IF a = address THEN AddressToPubKeyHash(a) ELSE keys[a]]

\* MUTANT of GenerateNewAddress: stored even if it is empty.
StoresAnyAddress(w) ==
    LET address == DeriveAddress(w.seed, NextIndex(w))
    IN  [address |-> address, wallet |-> [w EXCEPT !.keys = StoreKey(@, address)]]

GenerateNewAddress(w) ==
    LET address == DeriveAddress(w.seed, NextIndex(w))
    IN  [address |-> address,
         wallet  |-> IF address = << >> THEN w
                     ELSE [w EXCEPT !.keys = StoreKey(@, address)]]

\* The addresses whose private keys the scans of wallet.cpp come across.
Derived(w) == {DeriveAddress(w.seed, i) : i \in 0..(GetAddressCount(w) - 1)}

DerivedHashes(w) == {AddressToPubKeyHash(a) : a \in Derived(w)}
StoredHashes(w) == {w.keys[a] : a \in DOMAIN w.keys}

\* The hashes that hasHash160 confirms.
KnownHashes(w) == StoredHashes(w) \cup DerivedHashes(w)

\* Every input needs a P2PKH coin whose hash one of the derived addresses has.
SignTransaction(w, spent) ==
    \A i \in DOMAIN spent : spent[i].hash \in DerivedHashes(w) \ {<< >>}

\* The P2PKH coins that pay one of some hashes, in their order.
Paying(coins, hashes) ==
    LET found[n \in 0..Len(coins)] ==
            IF n = 0 THEN << >>
            ELSE IF coins[n].hash \in hashes \ {<< >>} THEN Append(found[n - 1], coins[n])
            ELSE found[n - 1]
    IN  found[Len(coins)]

Amount(coins) ==
    LET sum[n \in 0..Len(coins)] == IF n = 0 THEN 0 ELSE sum[n - 1] + coins[n].amount
    IN  sum[Len(coins)]

GetBalance(w, coins) == Amount(Paying(coins, StoredHashes(w)))

-----------------------------------------------------------------------------
(* Files.  seed is history: the seed of the wallet that wrote the file.    *)

Backup(w) == [phrase |-> w.mnemonic, seed |-> w.seed]

SaveToFile(w, pass) ==
    [phrase |-> w.mnemonic, pass |-> pass, seed |-> w.seed, whole |-> TRUE]

\* The process ends between opening the file, which empties it, and its last line.
CutShort(w) == [phrase |-> w.mnemonic, pass |-> "", seed |-> w.seed, whole |-> FALSE]

\* What another key makes of a phrase: one text or another, but never the phrase.
Garbage == {<<WordCount>>, <<WordCount + 1>>}

\* What a wrong password decrypts to has, once in 256 times, a good padding.
DecryptWithPass(file, pass) == IF pass = file.pass THEN {file.phrase} ELSE Garbage \ {file.phrase}

\* Whether the file opens for sure.
Opens(file, pass) == file.whole /\ pass = file.pass

\* The wallets that may come of it; what does not open mostly changes nothing.
LoadFromFile(w, file, pass) ==
    (IF Opens(file, pass) THEN {} ELSE {w})
        \cup {Restore(w, plain, "") : plain \in IF file.whole THEN DecryptWithPass(file, pass)
                                                ELSE {}}

=============================================================================
