-------------------------------- MODULE Codec --------------------------------
(***************************************************************************)
(* The byte format of transactions and blocks: core/transaction.cpp and    *)
(* core/block.cpp.  A stream is a sequence of cells.  A field of fixed     *)
(* width (version, hash, index, amount, time, bits, nonce, lock time) is   *)
(* one cell; variable-length integers are spelled out in bytes of BYTE     *)
(* values, because their markers, their bound and the scripts they measure *)
(* are what can go wrong.  Scripts, signatures and keys are byte           *)
(* sequences; inputs carry a pubkey beside the fields of CoreTypes.        *)
(*                                                                         *)
(* A reader returns whether it succeeded, where the next cell is (pos) and *)
(* what it read (val).  Cells that nobody asked for are not looked at.     *)
(***************************************************************************)
EXTENDS CoreTypes

Seqs == INSTANCE SequencesExt

CONSTANTS
    MAX_SCRIPT                  \* 10000: bound of readers, not of writers

ASSUME CodecConstants ==
    /\ BYTE > 3
    /\ MAX_SCRIPT \in Nat

MARK2 == BYTE - 3               \* 0xfd: two bytes follow
MARK4 == BYTE - 2               \* 0xfe: four bytes follow

\* The fields of a header.  deserializeBlock asks for 80 bytes first, four less
\* than a header has; the read of the nonce asks for the rest.
HEADER_CELLS == 6

\* 2^31: a count below it is read as it was written.
COUNT_LIMIT == (BYTE \div 2) * MANTISSA_UNIT

\* What a writer relies on: vectors, of lengths that are read as written.
IsList(list) ==
    /\ list = [i \in 1..Len(list) |-> list[i]]
    /\ Len(list) \in Nat /\ Len(list) < COUNT_LIMIT

IsInput(in) ==
    /\ in = [prev |-> OutPoint(in.prev.hash, in.prev.index), sig |-> in.sig, pubkey |-> in.pubkey]
    /\ IsList(in.sig) /\ IsList(in.pubkey)

IsOutput(out) ==
    /\ out = [amount |-> out.amount, script |-> out.script]
    /\ IsList(out.script)

IsTransaction(tx) ==
    /\ tx = [inputs |-> tx.inputs, outputs |-> tx.outputs]
    /\ IsList(tx.inputs) /\ \A i \in DOMAIN tx.inputs : IsInput(tx.inputs[i])
    /\ IsList(tx.outputs) /\ \A i \in DOMAIN tx.outputs : IsOutput(tx.outputs[i])

-----------------------------------------------------------------------------
(* Writers.                                                                *)

WriteVarInt(n) ==
    IF n < MARK2 THEN <<n>>
    ELSE IF n < BYTE * BYTE THEN <<MARK2, n % BYTE, n \div BYTE>>
    ELSE <<MARK4>> \o [i \in 1..4 |-> ByteOf(n, i - 1)]

WriteBytes(bytes) == WriteVarInt(Len(bytes)) \o bytes

WriteList(items, Write(_)) ==
    WriteVarInt(Len(items)) \o Seqs!FlattenSeq([i \in DOMAIN items |-> Write(items[i])])

WriteInput(in) ==
    <<in.prev.hash, in.prev.index>> \o WriteBytes(in.sig) \o WriteBytes(in.pubkey)

WriteOutput(out) == <<out.amount>> \o WriteBytes(out.script)

SerializeTransaction(tx) ==
    <<1>> \o WriteList(tx.inputs, WriteInput) \o WriteList(tx.outputs, WriteOutput) \o <<0>>

SerializeBlock(block) ==
    <<1, block.prev, block.root, block.time, block.bits, block.nonce>>
        \o WriteList(block.txs, SerializeTransaction)

-----------------------------------------------------------------------------
(* Readers.                                                                *)

Failed == [ok |-> FALSE]
Got(val, pos) == [ok |-> TRUE, pos |-> pos, val |-> val]

\* What follows a read, if it succeeded.
After(read, Rest(_, _)) ==
    LET r == read
    IN  IF r.ok THEN Rest(r.val, r.pos) ELSE Failed

Read(data, pos) == IF pos > Len(data) THEN Failed ELSE Got(data[pos], pos + 1)

\* The fourth byte is shifted in an int: when its upper bit is set, the sign goes
\* into the upper half of the size_t.
ReadVarInt(data, pos) ==
    LET byte(i) == data[pos + i]
        Has(n) == pos + n <= Len(data)
        four == byte(1) + BYTE * (byte(2) + BYTE * (byte(3) + BYTE * byte(4)))
        sign == IF byte(4) < BYTE \div 2 THEN 0 ELSE LONG - BYTE * MANTISSA_UNIT
    IN  IF ~Has(0) THEN Failed
        ELSE IF byte(0) < MARK2 THEN Got(byte(0), pos + 1)
        ELSE IF byte(0) = MARK2 /\ Has(2) THEN Got(byte(1) + byte(2) * BYTE, pos + 3)
        ELSE IF byte(0) = MARK4 /\ Has(4)
             THEN Got(four + sign, pos + 5)
        ELSE Failed

\* MUTANT of ReadBytes: the limit is off by one.
ReadBytesBelowLimit(data, pos) ==
    After(ReadVarInt(data, pos), LAMBDA n, p :
        IF n >= MAX_SCRIPT \/ p + n - 1 > Len(data) THEN Failed
        ELSE Got(SubSeq(data, p, p + n - 1), p + n))

\* A length above the limit is refused before a byte is read.
ReadBytes(data, pos) ==
    After(ReadVarInt(data, pos), LAMBDA n, p :
        IF n > MAX_SCRIPT \/ p + n - 1 > Len(data) THEN Failed
        ELSE Got(SubSeq(data, p, p + n - 1), p + n))

ReadList(data, pos, Item(_, _)) ==
    After(ReadVarInt(data, pos), LAMBDA n, start :
        LET read[i \in 0..n] ==
                IF i = 0 THEN Got(<< >>, start)
                ELSE After(read[i - 1], LAMBDA items, p :
                         After(Item(data, p), LAMBDA x, q : Got(Append(items, x), q)))
        IN  read[n])

ReadInput(data, pos) ==
    After(Read(data, pos), LAMBDA hash, p1 :
    After(Read(data, p1), LAMBDA index, p2 :
    After(ReadBytes(data, p2), LAMBDA sig, p3 :
    After(ReadBytes(data, p3), LAMBDA pubkey, p4 :
        Got([prev |-> OutPoint(hash, index), sig |-> sig, pubkey |-> pubkey], p4)))))

ReadOutput(data, pos) ==
    After(Read(data, pos), LAMBDA amount, p1 :
    After(ReadBytes(data, p1), LAMBDA script, p2 :
        Got([amount |-> amount, script |-> script], p2)))

DeserializeTransaction(data, pos) ==
    After(Read(data, pos), LAMBDA version, p1 :
    After(ReadList(data, p1, ReadInput), LAMBDA inputs, p2 :
    After(ReadList(data, p2, ReadOutput), LAMBDA outputs, p3 :
    After(Read(data, p3), LAMBDA lock_time, p4 :
        Got([inputs |-> inputs, outputs |-> outputs], p4)))))

DeserializeBlock(data) ==
    IF Len(data) < HEADER_CELLS THEN Failed
    ELSE After(ReadList(data, HEADER_CELLS + 1, DeserializeTransaction), LAMBDA txs, p :
             Got([prev |-> data[2], root |-> data[3], time |-> data[4],
                  bits |-> data[5], nonce |-> data[6], txs |-> txs], p))

-----------------------------------------------------------------------------
\* OP_DUP OP_HASH160 PUSH, the hash, OP_EQUALVERIFY OP_CHECKSIG
PayToHash(hash) == <<"dup", "hash160", "push">> \o hash \o <<"equalverify", "checksig">>

CoinbaseTx(note, amount, hash) ==
    [inputs  |-> <<[prev |-> CoinbaseOutPoint, sig |-> note, pubkey |-> << >>]>>,
     outputs |-> <<[amount |-> amount, script |-> PayToHash(hash)]>>]

\* zeroHash stands for the twenty zero bytes, note for the founding message.
MakeGenesisBlock(note, zeroHash, time, bits) ==
    LET txs == <<CoinbaseTx(note, GetBlockSubsidy(0), zeroHash)>>
    IN  [prev |-> NullHash, root |-> ComputeMerkleRoot(txs), time |-> time,
         bits |-> bits, nonce |-> 0, txs |-> txs]

=============================================================================
