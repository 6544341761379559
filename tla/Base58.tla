-------------------------------- MODULE Base58 --------------------------------
(***************************************************************************)
(* crypto/address.cpp.  A text is the sequence of the values of its        *)
(* digits; "1" is the digit 0 and the empty text is << >>.  The numbers    *)
(* are parameters: the program has BYTE = 256, BASE = 58, HASH_LEN = 20,   *)
(* CHECK_LEN = 4 and ADDRESS_VERSION = 63.                                 *)
(***************************************************************************)
EXTENDS Integers, Sequences

Seqs == INSTANCE SequencesExt

CONSTANTS
    BYTE, BASE, HASH_LEN, CHECK_LEN, ADDRESS_VERSION,
    Checksum(_)                 \* first CHECK_LEN bytes of sha256d

ASSUME Base58Constants ==
    /\ BYTE \in Nat /\ BASE \in Nat /\ BYTE > 1 /\ BASE > 1
    /\ HASH_LEN \in Nat \ {0} /\ CHECK_LEN \in Nat \ {0}
    /\ ADDRESS_VERSION \in 1..(BYTE - 1)

-----------------------------------------------------------------------------
\* while (carry): what is left of a carry, least significant digit first
DigitsOf(n, base) ==
    LET digits[m \in 0..n] ==
            IF m = 0 THEN << >> ELSE <<m % base>> \o digits[m \div base]
    IN  digits[n]

\* digits := digits * factor + n, where the least significant digit is first.
Push(digits, factor, base, n) ==
    LET carry[j \in 0..Len(digits)] ==
            IF j = 0 THEN n ELSE (carry[j - 1] + digits[j] * factor) \div base
    IN  [j \in DOMAIN digits |-> (carry[j - 1] + digits[j] * factor) % base]
            \o DigitsOf(carry[Len(digits)], base)

Convert(text, factor, base) ==
    LET digits[i \in 0..Len(text)] ==
            IF i = 0 THEN << >> ELSE Push(digits[i - 1], factor, base, text[i])
    IN  digits[Len(text)]

LeadingZeros(text) ==
    LET nonZero == {i \in DOMAIN text : text[i] # 0}
    IN  SubSeq(text, 1, IF nonZero = {} THEN Len(text)
                        ELSE (CHOOSE i \in nonZero : \A j \in nonZero : i <= j) - 1)

EncodeBase58(data) == LeadingZeros(data) \o Seqs!Reverse(Convert(data, BYTE, BASE))

\* The bytes stay in the order in which they were computed, the lowest first.
DecodeBase58(text) ==
    IF \E i \in DOMAIN text : text[i] \notin 0..(BASE - 1) THEN << >>
    ELSE LeadingZeros(text) \o Convert(text, BASE, BYTE)

-----------------------------------------------------------------------------
EncodeBase58Check(payload, version) ==
    LET buf == <<version>> \o payload
    IN  EncodeBase58(buf \o Checksum(buf))

\* [version, payload], of which the payload is << >> when the check fails.
DecodeBase58Check(address) ==
    LET decoded == DecodeBase58(address)
        kept == Len(decoded) - CHECK_LEN
        body == SubSeq(decoded, 1, kept)
    IN  IF kept < 1 THEN [version |-> 0, payload |-> << >>]
        ELSE [version |-> decoded[1],
              payload |-> IF Checksum(body) = SubSeq(decoded, kept + 1, Len(decoded))
                          THEN Tail(body) ELSE << >>]

PubKeyHashToAddress(hash) == EncodeBase58Check(hash, ADDRESS_VERSION)

AddressToPubKeyHash(address) ==
    LET read == DecodeBase58Check(address)
    IN  IF Len(read.payload) = HASH_LEN /\ read.version = ADDRESS_VERSION
        THEN read.payload ELSE << >>

=============================================================================
