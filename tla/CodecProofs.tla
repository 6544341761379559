----------------------------- MODULE CodecProofs -----------------------------
(***************************************************************************)
(* What readers make of what writers wrote, for transactions and blocks    *)
(* of any size.  A word is the sequence of cells that stands for a value.  *)
(* Reads says what a reader has to make of a word: the value, or a failure *)
(* when it does not accept the value or when the data end within the word. *)
(* Sequel composes two readers; a list is composed item by item, by        *)
(* induction over its length (ReadsItems), and the rest follows the way    *)
(* the code is written: VarInt, bytes, items, lists, transactions, blocks. *)
(***************************************************************************)
EXTENDS Codec, FiniteSetTheorems, SequenceTheorems, TLAPS

-----------------------------------------------------------------------------
(* Inductions.  A statement about all numbers, or about lists of every     *)
(* length, is proved from a least counterexample.                          *)

\* A set of numbers has a least element.
LEMMA FirstPosition ==
    ASSUME NEW I \in SUBSET Nat, I # {}
    PROVE  \E i \in I : \A j \in I : i <= j
<1>1. IsWellFoundedOn(OpToRel(<, Nat), Nat)
  BY NatLessThanWellFounded
<1>2. PICK i \in I : \A j \in I : ~(<<j, i>> \in OpToRel(<, Nat))
  BY <1>1, WFMin
<1>3. \A j \in I : ~(j < i)
  BY <1>2 DEF OpToRel
<1> QED
  BY <1>3

\* f[i] joins the first i lists.
JoinSteps(lists, f) ==
    /\ Seqs!FlattenSeq(lists) = f[Len(lists)]
    /\ f[0] = << >>
    /\ \A i \in 1..Len(lists) :
          /\ f[i] = IF i = 1 THEN lists[i] ELSE f[i - 1] \o lists[i]
          /\ Len(f[i]) \in Nat

\* FlattenSeq joins lists one by one, and what it gives has a length.
LEMMA FlattenSteps ==
    ASSUME NEW lists, Len(lists) \in Nat, \A i \in 1..Len(lists) : Len(lists[i]) \in Nat
    PROVE  \E f : JoinSteps(lists, f)
<1> DEFINE n == Len(lists)
           Upto(f, i) == IF i = 1 THEN lists[i] ELSE f[i - 1] \o lists[i]
           IsFlat(f, m) == f = [i \in 1..m |-> Upto(f, i)]
           flatten == CHOOSE f : IsFlat(f, n)
<1>1. CASE n = 0
  <2> DEFINE f == [i \in 0..n |-> << >>]
  <2>1. Seqs!FlattenSeq(lists) = << >>
    BY <1>1 DEF Seqs!FlattenSeq
  <2>2. f[n] = << >> /\ f[0] = << >> /\ 1..n = {}
    BY <1>1
  <2> HIDE DEF f
  <2> QED
    BY <2>1, <2>2 DEF JoinSteps
<1>2. CASE n # 0
  <2>1. Seqs!FlattenSeq(lists) = flatten[n]
    BY <1>2 DEF Seqs!FlattenSeq
  <2>2. \A m \in 0..n : \E f : IsFlat(f, m)
    <3> DEFINE bad == {m \in 0..n : ~\E f : IsFlat(f, m)}
    <3> SUFFICES ASSUME bad # {} PROVE FALSE
      OBVIOUS
    <3>1. PICK m \in bad : \A k \in bad : m <= k
      <4> HIDE DEF IsFlat
      <4>1. bad \in SUBSET Nat
        OBVIOUS
      <4> HIDE DEF bad
      <4> QED
        BY <4>1, FirstPosition
    <3>2. m # 0
      <4>1. IsFlat([i \in 1..0 |-> 0], 0)
        OBVIOUS
      <4> HIDE DEF IsFlat
      <4> QED
        BY <4>1
    <3>3. PICK g : IsFlat(g, m - 1)
      <4> HIDE DEF IsFlat
      <4>1. m - 1 \in 0..n /\ ~(m <= m - 1)
        BY <3>2
      <4> QED
        BY <3>1, <4>1
    <3> DEFINE h == [i \in 1..m |-> IF i < m THEN g[i] ELSE Upto(g, m)]
    <3>4. \A i \in 1..m : h[i] = Upto(h, i)
      <4> TAKE i \in 1..m
      <4>1. i # 1 => h[i - 1] = g[i - 1]
        OBVIOUS
      <4>2. Upto(h, i) = Upto(g, i)
        BY <4>1
      <4>3. i < m => g[i] = Upto(g, i)
        <5> HIDE DEF Upto
        <5>1. i < m => i \in 1..(m - 1)
          OBVIOUS
        <5> QED
          BY <3>3, <5>1
      <4> HIDE DEF Upto
      <4> QED
        BY <4>2, <4>3
    <3>5. IsFlat(h, m)
      <4> HIDE DEF Upto
      <4>1. h = [i \in 1..m |-> h[i]]
        OBVIOUS
      <4> HIDE DEF h
      <4> QED
        BY <3>4, <4>1
    <3> HIDE DEF IsFlat
    <3> QED
      BY <3>1, <3>5
  <2>3. IsFlat(flatten, n)
    <3> HIDE DEF IsFlat
    <3>1. \E f : IsFlat(f, n)
      BY <2>2
    <3> QED
      BY <3>1
  <2> HIDE DEF flatten
  <2>4. \A i \in 1..n : Len(flatten[i]) \in Nat
    <3> DEFINE bad == {i \in 1..n : Len(flatten[i]) \notin Nat}
    <3> SUFFICES ASSUME bad # {} PROVE FALSE
      OBVIOUS
    <3>1. PICK i \in bad : \A k \in bad : i <= k
      <4>1. bad \in SUBSET Nat
        OBVIOUS
      <4> HIDE DEF bad
      <4> QED
        BY <4>1, FirstPosition
    <3>2. flatten[i] = Upto(flatten, i)
      <4> HIDE DEF Upto
      <4> QED
        BY <2>3, <3>1
    <3>3. CASE i = 1
      BY <3>1, <3>2, <3>3
    <3>4. CASE i # 1
      <4>1. i - 1 \in 1..n /\ ~(i <= i - 1)
        BY <3>4
      <4>2. Len(flatten[i - 1]) \in Nat
        BY <3>1, <4>1
      <4>3. flatten[i] = flatten[i - 1] \o lists[i]
        BY <3>2, <3>4
      <4> QED
        BY <3>1, <4>2, <4>3
    <3> QED
      BY <3>3, <3>4
  <2> DEFINE f == [i \in 0..n |-> IF i = 0 THEN << >> ELSE flatten[i]]
  <2>5. f[0] = << >> /\ f[n] = flatten[n] /\ \A i \in 1..n : f[i] = flatten[i]
    BY <1>2
  <2>6. \A i \in 1..n : f[i] = IF i = 1 THEN lists[i] ELSE f[i - 1] \o lists[i]
    <3> TAKE i \in 1..n
    <3> HIDE DEF f
    <3>1. flatten[i] = Upto(flatten, i)
      <4> HIDE DEF Upto
      <4> QED
        BY <2>3
    <3>2. CASE i = 1
      BY <2>5, <3>1, <3>2
    <3>3. CASE i # 1
      <4>1. i - 1 \in 1..n
        BY <3>3
      <4>2. f[i - 1] = flatten[i - 1] /\ f[i] = flatten[i]
        BY <2>5, <4>1
      <4> QED
        BY <3>1, <3>3, <4>2
    <3> QED
      BY <3>2, <3>3
  <2> HIDE DEF f
  <2> QED
    BY <2>1, <2>4, <2>5, <2>6 DEF JoinSteps
<1> QED
  BY <1>1, <1>2

-----------------------------------------------------------------------------
(* Words and their readers.                                                *)

\* At this place of the data stand all the cells of a word.
Holds(data, pos, w) ==
    /\ pos + Len(w) <= Len(data) + 1
    /\ \A i \in 1..Len(w) : data[pos + i - 1] = w[i]

\* The data end before the word does.
Cut(data, pos, w) ==
    /\ pos <= Len(data) + 1 /\ Len(data) + 1 < pos + Len(w)
    /\ \A i \in 1..(Len(data) + 1 - pos) : data[pos + i - 1] = w[i]

\* What a reader makes of a word that stands for a value: the value, if it
\* accepts it, and a failure if it does not or if the word is cut.
Reads(data, pos, w, value, accepts, read) ==
    /\ Holds(data, pos, w) /\ accepts => read = Got(value, pos + Len(w))
    /\ Holds(data, pos, w) /\ ~accepts => read = Failed
    /\ Cut(data, pos, w) => read = Failed

\* Where two words stand one after the other, each stands at its place.
LEMMA SplitHolds ==
    ASSUME NEW data, Len(data) \in Nat, NEW pos \in Nat \ {0},
           NEW u, NEW v, Len(u) \in Nat, Len(v) \in Nat, Holds(data, pos, u \o v)
    PROVE  Holds(data, pos, u) /\ Holds(data, pos + Len(u), v)
<1>1. /\ pos + Len(u) + Len(v) <= Len(data) + 1
      /\ \A i \in 1..(Len(u) + Len(v)) : data[pos + i - 1] = (u \o v)[i]
  BY DEF Holds
<1>2. Holds(data, pos, u)
  BY <1>1 DEF Holds
<1>3. ASSUME NEW i \in 1..Len(v) PROVE data[(pos + Len(u)) + i - 1] = v[i]
  <2>1. Len(u) + i \in 1..(Len(u) + Len(v)) /\ ~(Len(u) + i <= Len(u))
    OBVIOUS
  <2>2. (u \o v)[Len(u) + i] = v[i]
    BY <2>1
  <2>3. pos + (Len(u) + i) - 1 = (pos + Len(u)) + i - 1
    OBVIOUS
  <2> QED
    BY <1>1, <2>1, <2>2, <2>3
<1> QED
  BY <1>1, <1>2, <1>3 DEF Holds

\* The data end within the first word, or within the second.
LEMMA SplitCut ==
    ASSUME NEW data, Len(data) \in Nat, NEW pos \in Nat \ {0},
           NEW u, NEW v, Len(u) \in Nat, Len(v) \in Nat, Cut(data, pos, u \o v)
    PROVE  Cut(data, pos, u) \/ (Holds(data, pos, u) /\ Cut(data, pos + Len(u), v))
<1>1. /\ pos <= Len(data) + 1 /\ Len(data) + 1 < pos + Len(u) + Len(v)
      /\ \A i \in 1..(Len(data) + 1 - pos) : data[pos + i - 1] = (u \o v)[i]
  BY DEF Cut
<1>2. CASE Len(data) + 1 < pos + Len(u)
  BY <1>1, <1>2 DEF Cut
<1>3. CASE pos + Len(u) <= Len(data) + 1
  <2>1. Holds(data, pos, u)
    BY <1>1, <1>3 DEF Holds
  <2>2. ASSUME NEW i \in 1..(Len(data) + 1 - (pos + Len(u)))
        PROVE  data[(pos + Len(u)) + i - 1] = v[i]
    <3>1. Len(u) + i \in 1..(Len(data) + 1 - pos) /\ ~(Len(u) + i <= Len(u))
          /\ Len(u) + i \in 1..(Len(u) + Len(v))
      BY <1>1, <1>3
    <3>2. (u \o v)[Len(u) + i] = v[i]
      BY <3>1
    <3>3. pos + (Len(u) + i) - 1 = (pos + Len(u)) + i - 1
      OBVIOUS
    <3> QED
      BY <1>1, <3>1, <3>2, <3>3
  <2> QED
    BY <1>1, <1>3, <2>1, <2>2 DEF Cut
<1> QED
  BY <1>2, <1>3

\* Two words one after the other.
LEMMA Sequel ==
    ASSUME NEW data, Len(data) \in Nat, NEW pos \in Nat \ {0},
           NEW u, NEW v, Len(u) \in Nat, Len(v) \in Nat,
           NEW x, NEW f, NEW first, Reads(data, pos, u, x, f, first),
           NEW y, NEW g, NEW second, Reads(data, pos + Len(u), v, y, g, second),
           NEW read, first = Got(x, pos + Len(u)) => read = second, first = Failed => read = Failed
    PROVE  Reads(data, pos, u \o v, y, f /\ g, read)
<1>1. Len(u \o v) = Len(u) + Len(v)
  OBVIOUS
<1>2. CASE Holds(data, pos, u \o v)
  <2>1. Holds(data, pos, u) /\ Holds(data, pos + Len(u), v)
    BY <1>2, SplitHolds
  <2>2. ~Cut(data, pos, u \o v)
    BY <1>1, <1>2 DEF Holds, Cut
  <2>3. (pos + Len(u)) + Len(v) = pos + Len(u \o v)
    BY <1>1
  <2> QED
    BY <2>1, <2>2, <2>3 DEF Reads
<1>3. CASE Cut(data, pos, u \o v)
  <2>1. ~Holds(data, pos, u \o v)
    BY <1>1, <1>3 DEF Holds, Cut
  <2>2. CASE Cut(data, pos, u)
    BY <2>1, <2>2 DEF Reads
  <2>3. CASE Holds(data, pos, u) /\ Cut(data, pos + Len(u), v)
    BY <2>1, <2>3 DEF Reads
  <2> QED
    BY <1>3, <2>2, <2>3, SplitCut
<1> QED
  BY <1>2, <1>3 DEF Reads

\* Nothing more is read.
LEMMA Done ==
    ASSUME NEW data, Len(data) \in Nat, NEW pos \in Nat, NEW x
    PROVE  Reads(data, pos, << >>, x, TRUE, Got(x, pos))
BY DEF Reads, Holds, Cut

\* After looks at the result of a read.
LEMMA Results ==
    /\ ~Failed.ok
    /\ \A x, pos : Got(x, pos).ok /\ Got(x, pos).val = x /\ Got(x, pos).pos = pos
BY DEF Failed, Got

\* A cell is read if there is one.
LEMMA ReadCell ==
    ASSUME NEW data, Len(data) \in Nat, NEW pos \in Nat \ {0}, NEW x
    PROVE  Reads(data, pos, <<x>>, x, TRUE, Read(data, pos))
<1> HIDE DEF Got, Failed
<1>1. Holds(data, pos, <<x>>) => pos <= Len(data) /\ data[pos] = x
  <2>1. pos + 1 - 1 = pos
    OBVIOUS
  <2>2. Holds(data, pos, <<x>>) => data[pos + 1 - 1] = <<x>>[1] /\ pos + 1 <= Len(data) + 1
    BY DEF Holds
  <2> QED
    BY <2>1, <2>2
<1>2. Cut(data, pos, <<x>>) => pos > Len(data)
  BY DEF Cut
<1> QED
  BY <1>1, <1>2 DEF Reads, Read

-----------------------------------------------------------------------------
(* Variable-length integers.                                               *)

\* A number is made of what a division leaves and what it gives.
LEMMA Divided ==
    ASSUME NEW n \in Nat, NEW b \in Nat \ {0}
    PROVE  /\ n \div b \in Nat /\ n % b \in 0..(b - 1)
           /\ n = (n % b) + b * (n \div b)
OBVIOUS

\* No other quotient will do.
LEMMA QuotientIs ==
    ASSUME NEW q \in Nat, NEW b \in Nat \ {0}, NEW r \in 0..(b - 1)
    PROVE  (r + b * q) \div b = q
OBVIOUS

\* Dividing twice is dividing by the product.
LEMMA DividedTwice ==
    ASSUME NEW n \in Nat, NEW a \in Nat \ {0}, NEW b \in Nat \ {0}
    PROVE  n \div (a * b) = (n \div a) \div b
<1>1. PICK p : p = n \div a
  OBVIOUS
<1>2. PICK r : r = n % a
  OBVIOUS
<1>3. PICK q : q = p \div b
  OBVIOUS
<1>4. PICK s : s = p % b
  OBVIOUS
<1>5. p \in Nat /\ r \in 0..(a - 1) /\ n = r + a * p
  BY <1>1, <1>2, Divided
<1>6. q \in Nat /\ s \in 0..(b - 1) /\ p = s + b * q
  BY <1>3, <1>4, <1>5, Divided
<1>7. PICK m : m = a * b
  OBVIOUS
<1>8. m \in Nat \ {0}
  BY <1>7
<1>9. PICK t : t = r + a * s
  OBVIOUS
<1>10. t \in 0..(m - 1)
  <2>1. PICK e \in Nat : b = s + 1 + e
    BY <1>6
  <2>2. a * e \in Nat /\ a * s \in Nat
    BY <1>6
  <2>3. a * b = a * s + a + a * e
    BY <1>6, <2>1
  <2> QED
    BY <1>5, <1>7, <1>9, <2>2, <2>3
<1>11. n = t + m * q
  <2>1. a * p = a * s + a * (b * q)
    BY <1>6
  <2>2. a * (b * q) = (a * b) * q
    BY <1>6
  <2> QED
    BY <1>5, <1>6, <1>7, <1>9, <2>1, <2>2
<1> QED
  <2>1. (t + m * q) \div m = q
    BY <1>6, <1>8, <1>10, QuotientIs
  <2> QED
    BY <1>1, <1>3, <1>7, <1>11, <2>1

\* A number that is below a square has a quotient below its root.
LEMMA QuotientBelow ==
    ASSUME NEW n \in Nat, NEW a \in Nat \ {0}, NEW b \in Nat \ {0}, n < a * b
    PROVE  n \div a < b
<1>1. PICK p : p = n \div a
  OBVIOUS
<1>2. PICK r : r = n % a
  OBVIOUS
<1>3. p \in Nat /\ r \in 0..(a - 1) /\ n = r + a * p
  BY <1>1, <1>2, Divided
<1>4. ASSUME b <= p PROVE FALSE
  <2>1. PICK e \in Nat : p = b + e
    BY <1>3, <1>4
  <2>2. a * e \in Nat /\ a * p = a * b + a * e
    BY <2>1
  <2> QED
    BY <1>3, <2>2
<1> QED
  BY <1>1, <1>3, <1>4

\* Four bytes make up a number below their range.
LEMMA FourBytes ==
    ASSUME NEW n \in Nat, n < BYTE * MANTISSA_UNIT
    PROVE  /\ n = ByteOf(n, 0) + BYTE * (ByteOf(n, 1) + BYTE * (ByteOf(n, 2) + BYTE * ByteOf(n, 3)))
           /\ n < COUNT_LIMIT => ByteOf(n, 3) < BYTE \div 2
<1>b. PICK b : b = BYTE
  OBVIOUS
<1>1. b \in Nat \ {0} /\ b * b \in Nat \ {0} /\ b * b * b \in Nat \ {0}
  BY <1>b, DifficultyConstants
<1>2. PICK q1 : q1 = n \div b
  OBVIOUS
<1>3. PICK q2 : q2 = q1 \div b
  OBVIOUS
<1>4. PICK q3 : q3 = q2 \div b
  OBVIOUS
<1>5. q1 \in Nat /\ n = (n % b) + b * q1
  BY <1>1, <1>2, Divided
<1>6. q2 \in Nat /\ q1 = (q1 % b) + b * q2
  BY <1>1, <1>3, <1>5, Divided
<1>7. q3 \in Nat /\ q2 = (q2 % b) + b * q3
  BY <1>1, <1>4, <1>6, Divided
<1>8. n \div (b * b) = q2
  BY <1>1, <1>2, <1>3, DividedTwice
<1>9. n \div (b * b * b) = q3
  BY <1>1, <1>4, <1>8, DividedTwice
<1>10. q3 < b
  <2>1. n < (b * b * b) * b
    BY <1>b, <1>1 DEF MANTISSA_UNIT
  <2> QED
    BY <1>1, <1>9, <2>1, QuotientBelow
<1>11. q3 % b = q3
  BY <1>1, <1>7, <1>10
<1>12. n \div 1 = n
  OBVIOUS
<1>13. /\ ByteOf(n, 0) = n % b /\ ByteOf(n, 1) = q1 % b
       /\ ByteOf(n, 2) = q2 % b /\ ByteOf(n, 3) = q3
  <2>1. /\ ByteOf(n, 0) = (n \div 1) % b /\ ByteOf(n, 1) = (n \div b) % b
        /\ ByteOf(n, 2) = (n \div (b * b)) % b /\ ByteOf(n, 3) = (n \div (b * b * b)) % b
    BY <1>b DEF ByteOf, Shift
  <2> QED
    BY <1>2, <1>8, <1>9, <1>11, <1>12, <2>1
<1>14. n < COUNT_LIMIT => q3 < b \div 2
  <2> SUFFICES ASSUME n < COUNT_LIMIT PROVE q3 < b \div 2
    OBVIOUS
  <2>1. b \div 2 \in Nat /\ n < (b * b * b) * (b \div 2)
    BY <1>b, <1>1 DEF COUNT_LIMIT, MANTISSA_UNIT
  <2> QED
    BY <1>1, <1>9, <2>1, QuotientBelow
<1>15. n = (n % b) + b * ((q1 % b) + b * ((q2 % b) + b * q3))
  BY <1>5, <1>6, <1>7
<1> QED
  BY <1>b, <1>13, <1>14, <1>15

\* Writers give a sequence of cells.
LEMMA VarIntLength == ASSUME NEW n \in Nat PROVE Len(WriteVarInt(n)) \in Nat
<1> DEFINE e(i) == ByteOf(n, i - 1)
<1>1. Len(<<MARK4>> \o [i \in 1..4 |-> e(i)]) = 5
  <2> HIDE DEF e
  <2> QED
    OBVIOUS
<1> QED
  BY <1>1 DEF WriteVarInt

\* What takes one byte, three or five.
LEMMA VarIntWord ==
    ASSUME NEW n \in Nat
    PROVE  LET w == WriteVarInt(n)
           IN  \/ n < MARK2 /\ Len(w) = 1 /\ w[1] = n
               \/ /\ n < BYTE * BYTE /\ Len(w) = 3
                  /\ w[1] = MARK2 /\ w[2] = n % BYTE /\ w[3] = n \div BYTE
               \/ /\ Len(w) = 5 /\ w[1] = MARK4
                  /\ w[2] = ByteOf(n, 0) /\ w[3] = ByteOf(n, 1)
                  /\ w[4] = ByteOf(n, 2) /\ w[5] = ByteOf(n, 3)
<1>1. CASE n < MARK2
  BY <1>1 DEF WriteVarInt
<1>2. CASE ~(n < MARK2) /\ n < BYTE * BYTE
  BY <1>2 DEF WriteVarInt
<1>3. CASE ~(n < MARK2) /\ ~(n < BYTE * BYTE)
  <2> DEFINE e(i) == ByteOf(n, i - 1)
             w == <<MARK4>> \o [i \in 1..4 |-> e(i)]
  <2>1. /\ Len(w) = 5 /\ w[1] = MARK4
        /\ w[2] = e(1) /\ w[3] = e(2) /\ w[4] = e(3) /\ w[5] = e(4)
    <3> HIDE DEF e
    <3> QED
      OBVIOUS
  <2>2. WriteVarInt(n) = w
    BY <1>3 DEF WriteVarInt
  <2>3. e(1) = ByteOf(n, 0) /\ e(2) = ByteOf(n, 1) /\ e(3) = ByteOf(n, 2) /\ e(4) = ByteOf(n, 3)
    <3>1. 1 - 1 = 0 /\ 2 - 1 = 1 /\ 3 - 1 = 2 /\ 4 - 1 = 3
      OBVIOUS
    <3> QED
      BY <3>1, Zenon
  <2> HIDE DEF w, e
  <2> QED
    BY <2>1, <2>2, <2>3
<1> QED
  BY <1>1, <1>2, <1>3

\* A count below the limit fits in four bytes.
LEMMA CountsFit ==
    \A n \in Nat : n < COUNT_LIMIT => n < BYTE * MANTISSA_UNIT
<1>1. BYTE \in Nat /\ MANTISSA_UNIT \in Nat
  BY DifficultyConstants DEF MANTISSA_UNIT
<1>2. PICK h : h = BYTE \div 2
  OBVIOUS
<1>3. h \in Nat /\ h <= BYTE
  BY <1>1, <1>2
<1>4. PICK low, high : low = h * MANTISSA_UNIT /\ high = BYTE * MANTISSA_UNIT
  OBVIOUS
<1>5. low \in Nat /\ high \in Nat /\ low <= high
  BY <1>1, <1>3, <1>4
<1>6. low = COUNT_LIMIT
  BY <1>2, <1>4 DEF COUNT_LIMIT
<1> QED
  BY <1>4, <1>5, <1>6

\* The numbers below 2^31 are read as they were written.
LEMMA ReadsVarInt ==
    ASSUME NEW data, Len(data) \in Nat, NEW pos \in Nat \ {0},
           NEW n \in Nat, n < COUNT_LIMIT
    PROVE  Reads(data, pos, WriteVarInt(n), n, TRUE, ReadVarInt(data, pos))
<1> DEFINE w == WriteVarInt(n)
           byte(i) == data[pos + i]
           Has(m) == pos + m <= Len(data)
           four == byte(1) + BYTE * (byte(2) + BYTE * (byte(3) + BYTE * byte(4)))
           sign == IF byte(4) < BYTE \div 2 THEN 0 ELSE LONG - BYTE * MANTISSA_UNIT
           read == ReadVarInt(data, pos)
<1>1. BYTE \in Nat /\ BYTE > 3 /\ MARK2 \in Nat /\ MARK2 < MARK4
  BY DifficultyConstants, CodecConstants DEF MARK2, MARK4
<1>2. /\ ~Has(0) => read = Failed
      /\ Has(0) /\ byte(0) < MARK2 => read = Got(byte(0), pos + 1)
      /\ Has(0) /\ byte(0) = MARK2 /\ Has(2) => read = Got(byte(1) + byte(2) * BYTE, pos + 3)
      /\ Has(0) /\ byte(0) = MARK2 /\ ~Has(2) => read = Failed
      /\ Has(0) /\ byte(0) = MARK4 /\ Has(4) => read = Got(four + sign, pos + 5)
      /\ Has(0) /\ byte(0) = MARK4 /\ ~Has(4) => read = Failed
  <2>1. ~(MARK2 < MARK2) /\ ~(MARK4 < MARK2) /\ MARK2 # MARK4
    BY <1>1 DEF MARK4, MARK2
  <2> QED
    BY <2>1, Zenon DEF ReadVarInt
<1>3. ASSUME Holds(data, pos, w)
      PROVE  \A i \in 0..(Len(w) - 1) : byte(i) = w[i + 1]
  <2> TAKE i \in 0..(Len(w) - 1)
  <2> HIDE DEF w
  <2>1. i + 1 \in 1..Len(w) /\ pos + (i + 1) - 1 = pos + i
    OBVIOUS
  <2> QED
    BY <1>3, <2>1 DEF Holds
<1>4. ASSUME Cut(data, pos, w), Has(0)
      PROVE  byte(0) = w[1]
  <2> HIDE DEF w
  <2>1. 1 \in 1..(Len(data) + 1 - pos) /\ pos + 1 - 1 = pos + 0
    BY <1>4
  <2> QED
    BY <1>4, <2>1 DEF Cut
<1> HIDE DEF w, byte, read
<1>f. n < BYTE * MANTISSA_UNIT
  BY CountsFit
<1>5. CASE n < MARK2 /\ Len(w) = 1 /\ w[1] = n
  <2>1. Holds(data, pos, w) => Has(0) /\ byte(0) = n
    BY <1>3, <1>5 DEF Holds
  <2>2. Cut(data, pos, w) => ~Has(0)
    BY <1>5 DEF Cut
  <2> QED
    BY <1>2, <1>5, <2>1, <2>2 DEF Reads, w, read
<1>6. CASE /\ n < BYTE * BYTE /\ Len(w) = 3
           /\ w[1] = MARK2 /\ w[2] = n % BYTE /\ w[3] = n \div BYTE
  <2>1. Holds(data, pos, w) =>
            Has(0) /\ Has(2) /\ byte(0) = MARK2 /\ byte(1) = n % BYTE /\ byte(2) = n \div BYTE
    BY <1>3, <1>6 DEF Holds
  <2>2. Cut(data, pos, w) => ~Has(2) /\ (Has(0) => byte(0) = MARK2)
    BY <1>4, <1>6 DEF Cut
  <2>3. n = (n % BYTE) + (n \div BYTE) * BYTE
    BY <1>1
  <2> QED
    BY <1>2, <1>6, <2>1, <2>2, <2>3 DEF Reads, w, read
<1>7. CASE /\ Len(w) = 5 /\ w[1] = MARK4
           /\ w[2] = ByteOf(n, 0) /\ w[3] = ByteOf(n, 1)
           /\ w[4] = ByteOf(n, 2) /\ w[5] = ByteOf(n, 3)
  <2>1. Holds(data, pos, w) =>
            /\ Has(0) /\ Has(4) /\ byte(0) = MARK4 /\ byte(1) = ByteOf(n, 0)
            /\ byte(2) = ByteOf(n, 1) /\ byte(3) = ByteOf(n, 2) /\ byte(4) = ByteOf(n, 3)
    BY <1>3, <1>7 DEF Holds
  <2>2. Cut(data, pos, w) => ~Has(4) /\ (Has(0) => byte(0) = MARK4)
    BY <1>4, <1>7 DEF Cut
  <2>3. Holds(data, pos, w) => four = n /\ sign = 0
    <3>1. /\ n = ByteOf(n, 0) + BYTE * (ByteOf(n, 1) + BYTE * (ByteOf(n, 2) + BYTE * ByteOf(n, 3)))
          /\ ByteOf(n, 3) < BYTE \div 2
      BY <1>f, FourBytes
    <3> QED
      BY <2>1, <3>1
  <2>4. n + 0 = n
    OBVIOUS
  <2> HIDE DEF four, sign
  <2> QED
    BY <1>2, <1>7, <2>1, <2>2, <2>3, <2>4 DEF Reads, w, read
<1> QED
  BY <1>5, <1>6, <1>7, VarIntWord DEF w

-----------------------------------------------------------------------------
(* Bytes and items.                                                        *)

\* Words that follow one another may be taken together in any way.
LEMMA Regroup ==
    ASSUME NEW u, NEW v, NEW w, Len(u) \in Nat, Len(v) \in Nat, Len(w) \in Nat
    PROVE  u \o (v \o w) = (u \o v) \o w
OBVIOUS

\* A list of bytes is read as it was written, unless it is too long.
LEMMA ReadsBytes ==
    ASSUME NEW data, Len(data) \in Nat, NEW pos \in Nat \ {0},
           NEW bytes, IsList(bytes)
    PROVE  Reads(data, pos, WriteBytes(bytes), bytes, Len(bytes) <= MAX_SCRIPT,
                 ReadBytes(data, pos))
<1> DEFINE n == Len(bytes)
           word == WriteVarInt(n)
           p == pos + Len(word)
           fits == n <= MAX_SCRIPT
           rest == IF n > MAX_SCRIPT \/ p + n - 1 > Len(data) THEN Failed
                   ELSE Got(SubSeq(data, p, p + n - 1), p + n)
<1>1. n \in Nat /\ n < COUNT_LIMIT /\ bytes = [i \in 1..n |-> bytes[i]]
  BY DEF IsList
<1>0. n \in Nat /\ bytes = [i \in 1..n |-> bytes[i]]
  BY <1>1
<1>2. Reads(data, pos, word, n, TRUE, ReadVarInt(data, pos))
  BY <1>1, ReadsVarInt
<1>3. Len(word) \in Nat
  BY <1>1, VarIntLength
<1>4. /\ ReadVarInt(data, pos) = Got(n, p) => ReadBytes(data, pos) = rest
      /\ ReadVarInt(data, pos) = Failed => ReadBytes(data, pos) = Failed
  BY Results DEF ReadBytes, After
<1> HIDE DEF word
<1>5. Reads(data, p, bytes, bytes, fits, rest)
  <2>1. p \in Nat \ {0}
    BY <1>3
  <2>2. MAX_SCRIPT \in Nat
    BY CodecConstants
  <2> HIDE DEF n, p
  <2>3. ASSUME Holds(data, p, bytes), fits
        PROVE  rest = Got(bytes, p + n)
    <3>1. p + n <= Len(data) + 1 /\ \A i \in 1..n : data[p + i - 1] = bytes[i]
      BY <2>3 DEF Holds, n
    <3>2. SubSeq(data, p, p + n - 1) = bytes
      BY <1>0, <2>1, <3>1
    <3>3. ~(n > MAX_SCRIPT) /\ ~(p + n - 1 > Len(data))
      BY <1>1, <2>1, <2>2, <2>3, <3>1
    <3> QED
      BY <3>2, <3>3, Zenon
  <2>4. ~fits => rest = Failed
    BY <1>1, <2>2
  <2>5. Cut(data, p, bytes) => rest = Failed
    BY <1>1, <2>1 DEF Cut, n
  <2> QED
    BY <2>3, <2>4, <2>5 DEF Reads, n
<1>6. Reads(data, pos, word \o bytes, bytes, TRUE /\ fits, ReadBytes(data, pos))
  <2>1. Reads(data, pos + Len(word), bytes, bytes, fits, rest)
    BY <1>5
  <2>2. Len(bytes) \in Nat
    BY <1>1
  <2> HIDE DEF rest, fits, n
  <2> QED
    BY <1>2, <1>3, <1>4, <2>1, <2>2, Sequel
<1> QED
  BY <1>6 DEF WriteBytes, word

\* A reader that puts what it read into something else.
LEMMA Wrapped ==
    ASSUME NEW data, NEW pos, NEW w, NEW x, NEW f, NEW first, Reads(data, pos, w, x, f, first),
           NEW y, NEW read, first = Got(x, pos + Len(w)) => read = Got(y, pos + Len(w)),
           first = Failed => read = Failed
    PROVE  Reads(data, pos, w, y, f, read)
BY DEF Reads

\* A word after a cell.
LEMMA AfterCell ==
    ASSUME NEW data, Len(data) \in Nat, NEW pos \in Nat \ {0}, NEW x,
           NEW w, Len(w) \in Nat, NEW y, NEW f, NEW second, Reads(data, pos + 1, w, y, f, second),
           NEW read, Read(data, pos) = Got(x, pos + 1) => read = second,
           Read(data, pos) = Failed => read = Failed
    PROVE  Reads(data, pos, <<x>> \o w, y, f, read)
<1>1. PICK t : t = TRUE
  OBVIOUS
<1>2. PICK u : u = <<x>>
  OBVIOUS
<1>3. Len(u) = 1
  BY <1>2
<1>4. Reads(data, pos, u, x, t, Read(data, pos))
  BY <1>1, <1>2, ReadCell
<1>5. Reads(data, pos + Len(u), w, y, f, second)
  BY <1>3
<1>6. Reads(data, pos, u \o w, y, t /\ f, read)
  <2>1. Read(data, pos) = Got(x, pos + Len(u)) => read = second
    BY <1>3
  <2>2. Len(u) \in Nat
    BY <1>3
  <2> QED
    BY <1>4, <1>5, <2>1, <2>2, Sequel
<1> QED
  BY <1>1, <1>2, <1>6 DEF Reads

\* Two cells one after the other.
LEMMA Pair == ASSUME NEW a, NEW b PROVE <<a, b>> = <<a>> \o <<b>>
<1> DEFINE S == {a, b}
<1>1. <<a, b>> \in Seq(S) /\ <<a>> \in Seq(S) /\ <<b>> \in Seq(S)
  OBVIOUS
<1>2. <<a>> \o <<b>> \in Seq(S) /\ Len(<<a>> \o <<b>>) = 2
  BY <1>1
<1>3. (<<a>> \o <<b>>)[1] = a /\ (<<a>> \o <<b>>)[2] = b
  BY <1>1
<1>4. PICK t : t = <<a>> \o <<b>>
  OBVIOUS
<1>5. t = [i \in 1..2 |-> t[i]] /\ t[1] = a /\ t[2] = b
  BY <1>2, <1>3, <1>4
<1>6. PICK u : u = <<a, b>>
  OBVIOUS
<1>7. u = [i \in 1..2 |-> u[i]] /\ u[1] = a /\ u[2] = b
  BY <1>6
<1>8. \A i \in 1..2 : t[i] = u[i]
  BY <1>5, <1>7
<1> QED
  BY <1>4, <1>5, <1>6, <1>7, <1>8

\* No script is longer than a reader accepts.
InputFits(in) == Len(in.sig) <= MAX_SCRIPT /\ Len(in.pubkey) <= MAX_SCRIPT
OutputFits(out) == Len(out.script) <= MAX_SCRIPT

\* What is written of bytes has a length.
LEMMA BytesLength ==
    ASSUME NEW bytes, IsList(bytes)
    PROVE  Len(WriteBytes(bytes)) \in Nat
BY VarIntLength DEF WriteBytes, IsList

\* An input is read as it was written, unless one of its scripts is too long.
LEMMA ReadsInput ==
    ASSUME NEW data, Len(data) \in Nat, NEW pos \in Nat \ {0}, NEW in, IsInput(in)
    PROVE  /\ Len(WriteInput(in)) \in Nat
           /\ Reads(data, pos, WriteInput(in), in, InputFits(in), ReadInput(data, pos))
<1> DEFINE sig == in.sig
           pubkey == in.pubkey
           hash == in.prev.hash
           index == in.prev.index
           x == WriteBytes(sig)
           y == WriteBytes(pubkey)
           p1 == pos + 1
           p2 == p1 + 1
           p3 == p2 + Len(x)
           Fourth(h, i, s, p) == After(ReadBytes(data, p), LAMBDA k, q :
                                    Got([prev |-> OutPoint(h, i), sig |-> s, pubkey |-> k], q))
           Third(h, i, p) == After(ReadBytes(data, p), LAMBDA s, q : Fourth(h, i, s, q))
           Second(h, p) == After(Read(data, p), LAMBDA i, q : Third(h, i, q))
           First(p) == After(Read(data, p), LAMBDA h, q : Second(h, q))
<1>1. ReadInput(data, pos) = First(pos)
  BY DEF ReadInput
<1>2. in = [prev |-> OutPoint(hash, index), sig |-> sig, pubkey |-> pubkey]
      /\ IsList(sig) /\ IsList(pubkey)
  BY DEF IsInput
<1>3. Len(x) \in Nat /\ Len(y) \in Nat
  BY <1>2, BytesLength
<1>4. \A v, q : Read(data, pos) = Got(v, q) => First(pos) = Second(v, q)
  BY Results DEF After
<1>5. Read(data, pos) = Failed => First(pos) = Failed
  BY Results DEF After
<1>6. \A v, q : Read(data, p1) = Got(v, q) => Second(hash, p1) = Third(hash, v, q)
  BY Results DEF After
<1>7. Read(data, p1) = Failed => Second(hash, p1) = Failed
  BY Results DEF After
<1>8. \A v, q : ReadBytes(data, p2) = Got(v, q) => Third(hash, index, p2) = Fourth(hash, index, v, q)
  BY Results DEF After
<1>9. ReadBytes(data, p2) = Failed => Third(hash, index, p2) = Failed
  BY Results DEF After
<1>10. \A q : ReadBytes(data, p3) = Got(pubkey, q) => Fourth(hash, index, sig, p3) = Got(in, q)
  <2>1. \A q : ReadBytes(data, p3) = Got(pubkey, q) =>
            Fourth(hash, index, sig, p3)
                = Got([prev |-> OutPoint(hash, index), sig |-> sig, pubkey |-> pubkey], q)
    BY Results DEF After
  <2> HIDE DEF hash, index, sig, pubkey, Fourth
  <2> QED
    BY <1>2, <2>1
<1>11. ReadBytes(data, p3) = Failed => Fourth(hash, index, sig, p3) = Failed
  BY Results DEF After
<1>12. p1 \in Nat \ {0} /\ p2 \in Nat \ {0} /\ p3 \in Nat \ {0}
  BY <1>3
<1>13. WriteInput(in) = <<hash>> \o (<<index>> \o (x \o y))
  <2>1. WriteInput(in) = (<<hash, index>> \o x) \o y
    BY DEF WriteInput
  <2> HIDE DEF hash, index, x, y
  <2>2. <<hash, index>> = <<hash>> \o <<index>>
    BY Pair
  <2> QED
    BY <1>3, <2>1, <2>2, Regroup
<1> DEFINE ok1 == Len(sig) <= MAX_SCRIPT
           ok2 == Len(pubkey) <= MAX_SCRIPT
<1>14. Reads(data, p2, x, sig, ok1, ReadBytes(data, p2))
  BY <1>2, <1>12, ReadsBytes
<1>15. Reads(data, p3, y, pubkey, ok2, ReadBytes(data, p3))
  BY <1>2, <1>12, ReadsBytes
<1> HIDE DEF ok1, ok2, x, y, First, Second, Third, Fourth, sig, pubkey, hash, index
<1>16. Reads(data, p3, y, in, ok2, Fourth(hash, index, sig, p3))
  BY <1>10, <1>11, <1>15, Wrapped
<1>17. Reads(data, p2, x \o y, in, ok1 /\ ok2, Third(hash, index, p2))
  BY <1>3, <1>8, <1>9, <1>12, <1>14, <1>16, Sequel
<1>18. Reads(data, p1, <<index>> \o (x \o y), in, ok1 /\ ok2, Second(hash, p1))
  <2>1. Len(x \o y) \in Nat
    BY <1>3
  <2> QED
    BY <1>6, <1>7, <1>12, <1>17, <2>1, AfterCell
<1>19. Reads(data, pos, <<hash>> \o (<<index>> \o (x \o y)), in, ok1 /\ ok2, First(pos))
  <2>1. Len(<<index>> \o (x \o y)) \in Nat
    BY <1>3
  <2> QED
    BY <1>4, <1>5, <1>18, <2>1, AfterCell
<1>20. Len(WriteInput(in)) \in Nat
  BY <1>3, <1>13
<1>21. InputFits(in) = (ok1 /\ ok2)
  BY DEF InputFits, ok1, ok2, sig, pubkey
<1> QED
  BY <1>1, <1>13, <1>19, <1>20, <1>21

\* So is an output.
LEMMA ReadsOutput ==
    ASSUME NEW data, Len(data) \in Nat, NEW pos \in Nat \ {0}, NEW out, IsOutput(out)
    PROVE  /\ Len(WriteOutput(out)) \in Nat
           /\ Reads(data, pos, WriteOutput(out), out, OutputFits(out), ReadOutput(data, pos))
<1> DEFINE amount == out.amount
           script == out.script
           x == WriteBytes(script)
           p1 == pos + 1
           Second(a, p) == After(ReadBytes(data, p), LAMBDA s, q :
                                    Got([amount |-> a, script |-> s], q))
           First(p) == After(Read(data, p), LAMBDA a, q : Second(a, q))
<1>1. ReadOutput(data, pos) = First(pos)
  BY DEF ReadOutput
<1>2. out = [amount |-> amount, script |-> script] /\ IsList(script)
  BY DEF IsOutput
<1>3. Len(x) \in Nat /\ p1 \in Nat \ {0}
  BY <1>2, BytesLength
<1>4. \A v, q : Read(data, pos) = Got(v, q) => First(pos) = Second(v, q)
  BY Results DEF After
<1>5. Read(data, pos) = Failed => First(pos) = Failed
  BY Results DEF After
<1>6. \A q : ReadBytes(data, p1) = Got(script, q) => Second(amount, p1) = Got(out, q)
  <2>1. \A q : ReadBytes(data, p1) = Got(script, q) =>
            Second(amount, p1) = Got([amount |-> amount, script |-> script], q)
    BY Results DEF After
  <2> HIDE DEF amount, script, Second
  <2> QED
    BY <1>2, <2>1
<1>7. ReadBytes(data, p1) = Failed => Second(amount, p1) = Failed
  BY Results DEF After
<1>8. WriteOutput(out) = <<amount>> \o x
  BY DEF WriteOutput
<1>9. Reads(data, p1, x, script, OutputFits(out), ReadBytes(data, p1))
  BY <1>2, <1>3, ReadsBytes DEF OutputFits
<1> HIDE DEF x, First, Second, amount, script
<1>10. Reads(data, p1, x, out, OutputFits(out), Second(amount, p1))
  BY <1>6, <1>7, <1>9, Wrapped
<1>11. Reads(data, pos, <<amount>> \o x, out, OutputFits(out), First(pos))
  BY <1>3, <1>4, <1>5, <1>10, AfterCell
<1>12. Len(<<amount>> \o x) \in Nat
  BY <1>3
<1> QED
  BY <1>1, <1>8, <1>11, <1>12

-----------------------------------------------------------------------------
(* Lists.  The three readers of items share one induction.                 *)

ItemAt(kind, data, p) ==
    IF kind = "input" THEN ReadInput(data, p)
    ELSE IF kind = "output" THEN ReadOutput(data, p)
    ELSE DeserializeTransaction(data, p)

\* What ReadList makes of i items.
ReadSoFar(kind, data, start, f, i) ==
    IF i = 0 THEN Got(<< >>, start)
    ELSE After(f[i - 1], LAMBDA items, p :
             After(ItemAt(kind, data, p), LAMBDA x, q : Got(Append(items, x), q)))

IsRead(kind, data, start, f, m) == f = [i \in 0..m |-> ReadSoFar(kind, data, start, f, i)]

\* There is such a function.
LEMMA ReadExists ==
    ASSUME NEW kind, NEW data, NEW start, NEW n \in Nat
    PROVE  \E f : IsRead(kind, data, start, f, n)
<1> DEFINE Next(f, i) == ReadSoFar(kind, data, start, f, i)
           bad == {m \in 0..n : ~\E f : IsRead(kind, data, start, f, m)}
<1> SUFFICES ASSUME bad # {} PROVE FALSE
  OBVIOUS
<1>1. PICK m \in bad : \A k \in bad : m <= k
  <2>1. bad \in SUBSET Nat
    OBVIOUS
  <2> HIDE DEF bad
  <2> QED
    BY <2>1, FirstPosition
<1>2. m # 0
  <2> DEFINE f == [i \in 0..0 |-> Got(<< >>, start)]
  <2>1. \A i \in 0..0 : Next(f, i) = Got(<< >>, start)
    BY DEF ReadSoFar
  <2> HIDE DEF Next
  <2>2. f = [i \in 0..0 |-> Next(f, i)]
    BY <2>1
  <2> QED
    BY <2>2 DEF IsRead, Next
<1>3. PICK g : IsRead(kind, data, start, g, m - 1)
  <2>1. m - 1 \in 0..n /\ ~(m <= m - 1)
    BY <1>2
  <2> QED
    BY <1>1, <2>1
<1> DEFINE h == [i \in 0..m |-> IF i < m THEN g[i] ELSE Next(g, m)]
<1>4. \A i \in 0..m : h[i] = Next(h, i)
  <2> TAKE i \in 0..m
  <2>1. i # 0 => h[i - 1] = g[i - 1]
    <3> HIDE DEF Next
    <3> QED
      OBVIOUS
  <2>2. Next(h, i) = Next(g, i)
    <3> HIDE DEF h
    <3> QED
      BY <2>1 DEF ReadSoFar
  <2>3. i < m => g[i] = Next(g, i)
    <3> HIDE DEF Next
    <3>1. i < m => i \in 0..(m - 1)
      OBVIOUS
    <3>2. g = [j \in 0..(m - 1) |-> Next(g, j)]
      BY <1>3 DEF IsRead, Next
    <3> QED
      BY <3>1, <3>2
  <2>4. h[i] = IF i < m THEN g[i] ELSE Next(g, m)
    <3> HIDE DEF Next
    <3> QED
      OBVIOUS
  <2> HIDE DEF h, Next
  <2>5. ~(i < m) => i = m
    OBVIOUS
  <2> QED
    BY <2>2, <2>3, <2>4, <2>5
<1>5. IsRead(kind, data, start, h, m)
  <2>1. h = [i \in 0..m |-> h[i]]
    <3> HIDE DEF Next
    <3> QED
      OBVIOUS
  <2> HIDE DEF h, Next
  <2>2. h = [i \in 0..m |-> Next(h, i)]
    BY <1>4, <2>1
  <2> QED
    BY <2>2 DEF IsRead, Next
<1> HIDE DEF h
<1> QED
  BY <1>1, <1>5

\* The first items of a list.
LEMMA FirstItems ==
    ASSUME NEW items, NEW n, n = Len(items), items \in Seq({items[i] : i \in DOMAIN items})
    PROVE  /\ n \in Nat /\ DOMAIN items = 1..n
           /\ SubSeq(items, 1, 0) = << >> /\ SubSeq(items, 1, n) = items
           /\ \A k \in 1..n : SubSeq(items, 1, k) = Append(SubSeq(items, 1, k - 1), items[k])
<1>1. n \in Nat /\ DOMAIN items = 1..n
  OBVIOUS
<1>2. SubSeq(items, 1, 0) = << >> /\ SubSeq(items, 1, n) = items
  BY <1>1
<1>3. ASSUME NEW k \in 1..n
      PROVE  SubSeq(items, 1, k) = Append(SubSeq(items, 1, k - 1), items[k])
  <2> DEFINE S == {items[i] : i \in DOMAIN items}
             a == SubSeq(items, 1, k)
             b == SubSeq(items, 1, k - 1)
             c == Append(b, items[k])
  <2>1. a \in Seq(S) /\ Len(a) = k /\ \A i \in 1..k : a[i] = items[i]
    BY <1>1, <1>3
  <2>2. b \in Seq(S) /\ Len(b) = k - 1 /\ \A i \in 1..(k - 1) : b[i] = items[i]
    BY <1>1, <1>3
  <2>3. items[k] \in S
    BY <1>1, <1>3
  <2> HIDE DEF S, a, b
  <2>4. c \in Seq(S) /\ Len(c) = k /\ \A i \in 1..k : c[i] = items[i]
    BY <1>1, <1>3, <2>2, <2>3
  <2> HIDE DEF c
  <2>5. a = c
    BY <2>1, <2>4
  <2> QED
    BY <2>5 DEF a, b, c
<1> QED
  BY <1>1, <1>2, <1>3

\* Items that are read as they were written make a list that is.
LEMMA ReadsItems ==
    ASSUME NEW data, Len(data) \in Nat, NEW start \in Nat \ {0},
           NEW items, items \in Seq({items[i] : i \in DOMAIN items}),
           NEW words, Len(words) = Len(items), NEW Fits, NEW kind,
           \A i \in 1..Len(items) : Len(words[i]) \in Nat,
           \A i \in 1..Len(items), p \in Nat \ {0} :
               Reads(data, p, words[i], items[i], Fits[i], ItemAt(kind, data, p)),
           NEW read, IsRead(kind, data, start, read, Len(items))
    PROVE  /\ Len(Seqs!FlattenSeq(words)) \in Nat
           /\ Reads(data, start, Seqs!FlattenSeq(words), items,
                    \A i \in 1..Len(items) : Fits[i], read[Len(items)])
<1>n. PICK n : n = Len(items)
  OBVIOUS
<1>1. /\ n \in Nat /\ DOMAIN items = 1..n
      /\ SubSeq(items, 1, 0) = << >> /\ SubSeq(items, 1, n) = items
      /\ \A k \in 1..n : SubSeq(items, 1, k) = Append(SubSeq(items, 1, k - 1), items[k])
  BY <1>n, FirstItems
<1>2. PICK flat : JoinSteps(words, flat)
  BY <1>n, <1>1, FlattenSteps
<1>3. /\ Seqs!FlattenSeq(words) = flat[n] /\ flat[0] = << >>
      /\ \A i \in 1..n : /\ flat[i] = IF i = 1 THEN words[i] ELSE flat[i - 1] \o words[i]
                         /\ Len(flat[i]) \in Nat
  BY <1>n, <1>2 DEF JoinSteps
<1>4. \A i \in 0..n : Len(flat[i]) \in Nat
  BY <1>1, <1>3
<1>5. \A i \in 0..n : read[i] = ReadSoFar(kind, data, start, read, i)
  BY <1>n DEF IsRead
<1> DEFINE First(k) == SubSeq(items, 1, k)
           Good(k) == \A i \in 1..k : Fits[i]
           Fine(k) == Reads(data, start, flat[k], First(k), Good(k), read[k])
<1>6. Fine(0)
  <2>1. read[0] = Got(First(0), start)
    <3>1. read[0] = ReadSoFar(kind, data, start, read, 0)
      BY <1>1, <1>5
    <3> QED
      BY <1>1, <3>1 DEF ReadSoFar
  <2>2. Good(0) = TRUE
    OBVIOUS
  <2>3. Reads(data, start, << >>, First(0), TRUE, Got(First(0), start))
    BY Done
  <2> HIDE DEF First, Good
  <2> QED
    BY <1>3, <2>1, <2>2, <2>3
<1>7. ASSUME NEW k \in 1..n, Fine(k - 1) PROVE Fine(k)
  <2> DEFINE p == start + Len(flat[k - 1])
             Second(list, q) == After(ItemAt(kind, data, q), LAMBDA x, r : Got(Append(list, x), r))
  <2>1. k - 1 \in 0..n /\ k # 0 /\ Len(flat[k - 1]) \in Nat /\ p \in Nat \ {0}
    BY <1>1, <1>4
  <2>2. read[k] = After(read[k - 1], LAMBDA list, q : Second(list, q))
    <3>1. read[k] = ReadSoFar(kind, data, start, read, k)
      BY <1>1, <1>5
    <3> QED
      BY <2>1, <3>1, Zenon DEF ReadSoFar
  <2>3. /\ \A list, q : read[k - 1] = Got(list, q) => read[k] = Second(list, q)
        /\ read[k - 1] = Failed => read[k] = Failed
    BY <2>2, Results DEF After
  <2>4. /\ \A list, x, q, r : ItemAt(kind, data, q) = Got(x, r) => Second(list, q) = Got(Append(list, x), r)
        /\ \A list, q : ItemAt(kind, data, q) = Failed => Second(list, q) = Failed
    BY Results DEF After
  <2> HIDE DEF Second
  <2>5. Reads(data, p, words[k], items[k], Fits[k], ItemAt(kind, data, p))
    BY <1>n, <2>1
  <2>6. Reads(data, p, words[k], First(k), Fits[k], Second(First(k - 1), p))
    <3>1. First(k) = Append(First(k - 1), items[k])
      BY <1>1
    <3> HIDE DEF First, p
    <3> QED
      BY <2>4, <2>5, <3>1, Wrapped
  <2>7. Len(words[k]) \in Nat
    BY <1>n
  <2>8. Reads(data, start, flat[k - 1] \o words[k], First(k), Good(k - 1) /\ Fits[k], read[k])
    <3> HIDE DEF First, Good
    <3> QED
      BY <1>7, <2>1, <2>3, <2>6, <2>7, Sequel
  <2>9. Good(k) = (Good(k - 1) /\ Fits[k])
    <3>1. \A i : i \in 1..k <=> i \in 1..(k - 1) \/ i = k
      BY <1>1
    <3> QED
      BY <3>1, Zenon
  <2>10. Reads(data, start, flat[k - 1] \o words[k], First(k), Good(k), read[k])
    <3> HIDE DEF First, Good
    <3> QED
      BY <2>8, <2>9
  <2>11. CASE k = 1
    <3> HIDE DEF First, Good
    <3>1. flat[k] = words[k] /\ flat[k - 1] = << >>
      BY <1>3, <2>11
    <3>2. /\ Len(<< >> \o words[k]) = Len(words[k])
          /\ \A i \in 1..Len(words[k]) : (<< >> \o words[k])[i] = words[k][i]
      BY <2>7
    <3> QED
      BY <2>10, <3>1, <3>2 DEF Reads, Holds, Cut
  <2>12. CASE k # 1
    BY <1>3, <2>10, <2>12
  <2> QED
    BY <2>11, <2>12
<1>8. \A k \in 0..n : Fine(k)
  <2> DEFINE bad == {k \in 0..n : ~Fine(k)}
  <2> HIDE DEF Fine
  <2> SUFFICES ASSUME bad # {} PROVE FALSE
    OBVIOUS
  <2>1. PICK k \in bad : \A j \in bad : k <= j
    <3>1. bad \in SUBSET Nat
      OBVIOUS
    <3> HIDE DEF bad
    <3> QED
      BY <3>1, FirstPosition
  <2>2. k # 0
    BY <1>6, <2>1
  <2>3. k - 1 \in 0..n /\ ~(k <= k - 1) /\ k \in 1..n
    BY <1>1, <2>2
  <2>4. Fine(k - 1)
    BY <2>1, <2>3
  <2> QED
    BY <1>7, <2>1, <2>3, <2>4
<1>9. Fine(n)
  <2> HIDE DEF Fine
  <2> QED
    BY <1>1, <1>8
<1>10. Good(n) <=> \A i \in 1..Len(items) : Fits[i]
  BY <1>n
<1>11. First(n) = items /\ Len(flat[n]) \in Nat
  BY <1>1, <1>4
<1> HIDE DEF First, Good
<1>12. Reads(data, start, flat[n], items, \A i \in 1..Len(items) : Fits[i], read[n])
  BY <1>9, <1>10, <1>11 DEF Reads
<1> QED
  BY <1>n, <1>3, <1>11, <1>12

\* A list: its length, and its items.
LEMMA ReadsList ==
    ASSUME NEW data, Len(data) \in Nat, NEW pos \in Nat \ {0},
           NEW items, IsList(items),
           NEW words, Len(words) = Len(items), NEW Fits, NEW kind,
           \A i \in 1..Len(items) : Len(words[i]) \in Nat,
           \A i \in 1..Len(items), p \in Nat \ {0} :
               Reads(data, p, words[i], items[i], Fits[i], ItemAt(kind, data, p)),
           NEW start, start = pos + Len(WriteVarInt(Len(items))),
           NEW read, IsRead(kind, data, start, read, Len(items)),
           NEW result, ReadVarInt(data, pos) = Got(Len(items), start) => result = read[Len(items)],
           ReadVarInt(data, pos) = Failed => result = Failed
    PROVE  LET word == WriteVarInt(Len(items)) \o Seqs!FlattenSeq(words)
           IN  /\ Len(word) \in Nat \ {0}
               /\ Reads(data, pos, word, items, \A i \in 1..Len(items) : Fits[i], result)
<1>1. PICK n : n = Len(items)
  OBVIOUS
<1>2. PICK count : count = WriteVarInt(n)
  OBVIOUS
<1>3. PICK flat : flat = Seqs!FlattenSeq(words)
  OBVIOUS
<1>4. PICK good : good = \A i \in 1..n : Fits[i]
  OBVIOUS
<1>5. PICK t : t = TRUE
  OBVIOUS
<1>6. n \in Nat /\ n < COUNT_LIMIT /\ items \in Seq({items[i] : i \in DOMAIN items})
  BY <1>1 DEF IsList
<1>7. Len(count) \in Nat /\ start \in Nat \ {0} /\ start = pos + Len(count)
  <2>1. Len(count) \in Nat /\ start = pos + Len(count)
    BY <1>1, <1>2, <1>6, VarIntLength
  <2> QED
    BY <2>1
<1>8. Len(flat) \in Nat /\ Reads(data, start, flat, items, good, read[n])
  BY <1>1, <1>3, <1>4, <1>6, <1>7, ReadsItems
<1>9. Reads(data, pos, count, n, t, ReadVarInt(data, pos))
  BY <1>2, <1>5, <1>6, ReadsVarInt
<1>10. Reads(data, pos, count \o flat, items, t /\ good, result)
  <2>1. Reads(data, pos + Len(count), flat, items, good, read[n])
    BY <1>7, <1>8
  <2>2. /\ ReadVarInt(data, pos) = Got(n, pos + Len(count)) => result = read[n]
        /\ ReadVarInt(data, pos) = Failed => result = Failed
    BY <1>1, <1>7
  <2> QED
    BY <1>7, <1>8, <1>9, <2>1, <2>2, Sequel
<1>11. Reads(data, pos, count \o flat, items, \A i \in 1..Len(items) : Fits[i], result)
  BY <1>1, <1>4, <1>5, <1>10 DEF Reads
<1>12. Len(count \o flat) \in Nat \ {0}
  <2>1. Len(count) # 0
    BY <1>2, <1>6, VarIntWord
  <2> QED
    BY <1>7, <1>8, <2>1
<1> QED
  BY <1>1, <1>2, <1>3, <1>11, <1>12

\* A list of inputs.
LEMMA ReadsInputs ==
    ASSUME NEW data, Len(data) \in Nat, NEW pos \in Nat \ {0},
           NEW items, IsList(items), \A i \in DOMAIN items : IsInput(items[i])
    PROVE  /\ Len(WriteList(items, WriteInput)) \in Nat \ {0}
           /\ Reads(data, pos, WriteList(items, WriteInput), items,
                    \A i \in 1..Len(items) : InputFits(items[i]), ReadList(data, pos, ReadInput))
<1> DEFINE n == Len(items)
           count == WriteVarInt(n)
           words == [i \in DOMAIN items |-> WriteInput(items[i])]
           start == pos + Len(count)
           Fits == [i \in DOMAIN items |-> InputFits(items[i])]
           Next(f, from, i) ==
               IF i = 0 THEN Got(<< >>, from)
               ELSE After(f[i - 1], LAMBDA list, p :
                        After(ReadInput(data, p), LAMBDA x, q : Got(Append(list, x), q)))
           Items(m, from) == (CHOOSE f : f = [i \in 0..m |-> Next(f, from, i)])[m]
           Rest(r) == IF r.ok THEN Items(r.val, r.pos) ELSE Failed
           read == CHOOSE f : f = [i \in 0..n |-> Next(f, start, i)]
<1>1. ReadList(data, pos, ReadInput) = Rest(ReadVarInt(data, pos))
  BY Zenon DEF ReadList, After
<1>2. /\ n \in Nat /\ n < COUNT_LIMIT /\ DOMAIN items = 1..n
      /\ items \in Seq({items[i] : i \in DOMAIN items})
  BY DEF IsList
<1>3. Len(count) \in Nat /\ start \in Nat \ {0}
  <2>1. Len(count) \in Nat
    BY <1>2, VarIntLength
  <2> HIDE DEF count
  <2> QED
    BY <2>1
<1>4. Items(n, start) = read[n]
  OBVIOUS
<1>5. IsRead("input", data, start, read, n)
  <2>1. ASSUME NEW f, NEW i PROVE ReadSoFar("input", data, start, f, i) = Next(f, start, i)
    <3>1. \A p : ItemAt("input", data, p) = ReadInput(data, p)
      BY DEF ItemAt
    <3> QED
      BY <3>1 DEF ReadSoFar, After
  <2>2. PICK f : f = [i \in 0..n |-> ReadSoFar("input", data, start, f, i)]
    <3>1. \E f : IsRead("input", data, start, f, n)
      BY <1>2, ReadExists
    <3> QED
      BY <3>1, Zenon DEF IsRead
  <2> HIDE DEF Next
  <2>3. f = [i \in 0..n |-> Next(f, start, i)]
    BY <2>1, <2>2
  <2>4. read = [i \in 0..n |-> Next(read, start, i)]
    BY <2>3, Zenon
  <2> HIDE DEF read
  <2>5. read = [i \in 0..n |-> ReadSoFar("input", data, start, read, i)]
    BY <2>1, <2>4
  <2> QED
    BY <2>5, Zenon DEF IsRead
<1> HIDE DEF Items, read, Next
<1>6. Len(words) = n /\ \A i \in 1..n : words[i] = WriteInput(items[i]) /\ Fits[i] = InputFits(items[i])
  BY <1>2
<1>7. \A i \in 1..n : /\ Len(words[i]) \in Nat
                      /\ \A p \in Nat \ {0} : Reads(data, p, words[i], items[i], Fits[i],
                                                    ItemAt("input", data, p))
  <2> TAKE i \in 1..n
  <2>1. IsInput(items[i])
    BY <1>2
  <2>2. \A p \in Nat \ {0} : /\ Len(WriteInput(items[i])) \in Nat
                             /\ Reads(data, p, WriteInput(items[i]), items[i], InputFits(items[i]),
                                      ReadInput(data, p))
    BY <2>1, ReadsInput
  <2>3. \A p : ItemAt("input", data, p) = ReadInput(data, p)
    BY DEF ItemAt
  <2> HIDE DEF words, Fits
  <2> QED
    BY <1>6, <2>2, <2>3
<1> HIDE DEF words, Fits
<1>8. /\ \A m, q : ReadVarInt(data, pos) = Got(m, q) => Rest(ReadVarInt(data, pos)) = Items(m, q)
      /\ ReadVarInt(data, pos) = Failed => Rest(ReadVarInt(data, pos)) = Failed
  BY Results
<1>9. WriteList(items, WriteInput) = count \o Seqs!FlattenSeq(words)
  BY Zenon DEF WriteList, words
<1>10. (\A i \in 1..n : Fits[i]) <=> \A i \in 1..n : InputFits(items[i])
  BY <1>6
<1> DEFINE result == Rest(ReadVarInt(data, pos))
<1>11. /\ Len(count \o Seqs!FlattenSeq(words)) \in Nat \ {0}
       /\ Reads(data, pos, count \o Seqs!FlattenSeq(words), items, \A i \in 1..n : Fits[i], result)
  <2>1. /\ ReadVarInt(data, pos) = Got(n, start) => result = read[n]
        /\ ReadVarInt(data, pos) = Failed => result = Failed
    BY <1>4, <1>8
  <2> HIDE DEF result
  <2> QED
    BY <1>5, <1>6, <1>7, <2>1, ReadsList
<1> HIDE DEF result, count, words
<1>12. Reads(data, pos, count \o Seqs!FlattenSeq(words), items,
             \A i \in 1..n : InputFits(items[i]), result)
  BY <1>10, <1>11 DEF Reads
<1> QED
  BY <1>1, <1>9, <1>11, <1>12 DEF result

\* A list of outputs.
LEMMA ReadsOutputs ==
    ASSUME NEW data, Len(data) \in Nat, NEW pos \in Nat \ {0},
           NEW items, IsList(items), \A i \in DOMAIN items : IsOutput(items[i])
    PROVE  /\ Len(WriteList(items, WriteOutput)) \in Nat \ {0}
           /\ Reads(data, pos, WriteList(items, WriteOutput), items,
                    \A i \in 1..Len(items) : OutputFits(items[i]), ReadList(data, pos, ReadOutput))
<1> DEFINE n == Len(items)
           count == WriteVarInt(n)
           words == [i \in DOMAIN items |-> WriteOutput(items[i])]
           start == pos + Len(count)
           Fits == [i \in DOMAIN items |-> OutputFits(items[i])]
           Next(f, from, i) ==
               IF i = 0 THEN Got(<< >>, from)
               ELSE After(f[i - 1], LAMBDA list, p :
                        After(ReadOutput(data, p), LAMBDA x, q : Got(Append(list, x), q)))
           Items(m, from) == (CHOOSE f : f = [i \in 0..m |-> Next(f, from, i)])[m]
           Rest(r) == IF r.ok THEN Items(r.val, r.pos) ELSE Failed
           read == CHOOSE f : f = [i \in 0..n |-> Next(f, start, i)]
<1>1. ReadList(data, pos, ReadOutput) = Rest(ReadVarInt(data, pos))
  BY Zenon DEF ReadList, After
<1>2. /\ n \in Nat /\ n < COUNT_LIMIT /\ DOMAIN items = 1..n
      /\ items \in Seq({items[i] : i \in DOMAIN items})
  BY DEF IsList
<1>3. Len(count) \in Nat /\ start \in Nat \ {0}
  <2>1. Len(count) \in Nat
    BY <1>2, VarIntLength
  <2> HIDE DEF count
  <2> QED
    BY <2>1
<1>4. Items(n, start) = read[n]
  OBVIOUS
<1>5. IsRead("output", data, start, read, n)
  <2>1. ASSUME NEW f, NEW i PROVE ReadSoFar("output", data, start, f, i) = Next(f, start, i)
    <3>1. \A p : ItemAt("output", data, p) = ReadOutput(data, p)
      BY DEF ItemAt
    <3> QED
      BY <3>1 DEF ReadSoFar, After
  <2>2. PICK f : f = [i \in 0..n |-> ReadSoFar("output", data, start, f, i)]
    <3>1. \E f : IsRead("output", data, start, f, n)
      BY <1>2, ReadExists
    <3> QED
      BY <3>1, Zenon DEF IsRead
  <2> HIDE DEF Next
  <2>3. f = [i \in 0..n |-> Next(f, start, i)]
    BY <2>1, <2>2
  <2>4. read = [i \in 0..n |-> Next(read, start, i)]
    BY <2>3, Zenon
  <2> HIDE DEF read
  <2>5. read = [i \in 0..n |-> ReadSoFar("output", data, start, read, i)]
    BY <2>1, <2>4
  <2> QED
    BY <2>5, Zenon DEF IsRead
<1> HIDE DEF Items, read, Next
<1>6. Len(words) = n /\ \A i \in 1..n : words[i] = WriteOutput(items[i]) /\ Fits[i] = OutputFits(items[i])
  BY <1>2
<1>7. \A i \in 1..n : /\ Len(words[i]) \in Nat
                      /\ \A p \in Nat \ {0} : Reads(data, p, words[i], items[i], Fits[i],
                                                    ItemAt("output", data, p))
  <2> TAKE i \in 1..n
  <2>1. IsOutput(items[i])
    BY <1>2
  <2>2. \A p \in Nat \ {0} : /\ Len(WriteOutput(items[i])) \in Nat
                             /\ Reads(data, p, WriteOutput(items[i]), items[i], OutputFits(items[i]),
                                      ReadOutput(data, p))
    BY <2>1, ReadsOutput
  <2>3. \A p : ItemAt("output", data, p) = ReadOutput(data, p)
    BY DEF ItemAt
  <2> HIDE DEF words, Fits
  <2> QED
    BY <1>6, <2>2, <2>3
<1> HIDE DEF words, Fits
<1>8. /\ \A m, q : ReadVarInt(data, pos) = Got(m, q) => Rest(ReadVarInt(data, pos)) = Items(m, q)
      /\ ReadVarInt(data, pos) = Failed => Rest(ReadVarInt(data, pos)) = Failed
  BY Results
<1>9. WriteList(items, WriteOutput) = count \o Seqs!FlattenSeq(words)
  BY Zenon DEF WriteList, words
<1>10. (\A i \in 1..n : Fits[i]) <=> \A i \in 1..n : OutputFits(items[i])
  BY <1>6
<1> DEFINE result == Rest(ReadVarInt(data, pos))
<1>11. /\ Len(count \o Seqs!FlattenSeq(words)) \in Nat \ {0}
       /\ Reads(data, pos, count \o Seqs!FlattenSeq(words), items, \A i \in 1..n : Fits[i], result)
  <2>1. /\ ReadVarInt(data, pos) = Got(n, start) => result = read[n]
        /\ ReadVarInt(data, pos) = Failed => result = Failed
    BY <1>4, <1>8
  <2> HIDE DEF result
  <2> QED
    BY <1>5, <1>6, <1>7, <2>1, ReadsList
<1> HIDE DEF result, count, words
<1>12. Reads(data, pos, count \o Seqs!FlattenSeq(words), items,
             \A i \in 1..n : OutputFits(items[i]), result)
  BY <1>10, <1>11 DEF Reads
<1> QED
  BY <1>1, <1>9, <1>11, <1>12 DEF result

-----------------------------------------------------------------------------
(* Transactions and blocks.                                                *)

TransactionFits(tx) ==
    /\ \A i \in 1..Len(tx.inputs) : InputFits(tx.inputs[i])
    /\ \A i \in 1..Len(tx.outputs) : OutputFits(tx.outputs[i])

\* A transaction: its two lists between version and lock time.
LEMMA ReadsTransaction ==
    ASSUME NEW data, Len(data) \in Nat, NEW pos \in Nat \ {0}, NEW tx, IsTransaction(tx)
    PROVE  /\ Len(SerializeTransaction(tx)) \in Nat
           /\ Reads(data, pos, SerializeTransaction(tx), tx, TransactionFits(tx),
                    DeserializeTransaction(data, pos))
<1> DEFINE inputs == tx.inputs
           outputs == tx.outputs
           x == WriteList(inputs, WriteInput)
           y == WriteList(outputs, WriteOutput)
           p1 == pos + 1
           p2 == p1 + Len(x)
           p3 == p2 + Len(y)
           Fourth(ins, outs, p) == After(Read(data, p), LAMBDA lock_time, q :
                                       Got([inputs |-> ins, outputs |-> outs], q))
           Third(ins, p) == After(ReadList(data, p, ReadOutput), LAMBDA outs, q :
                                Fourth(ins, outs, q))
           Second(p) == After(ReadList(data, p, ReadInput), LAMBDA ins, q : Third(ins, q))
           First(p) == After(Read(data, p), LAMBDA version, q : Second(q))
           readIns == ReadList(data, p1, ReadInput)
           readOuts == ReadList(data, p2, ReadOutput)
<1>1. DeserializeTransaction(data, pos) = First(pos)
  BY Zenon DEF DeserializeTransaction
<1>2. /\ tx = [inputs |-> inputs, outputs |-> outputs]
      /\ IsList(inputs) /\ \A i \in DOMAIN inputs : IsInput(inputs[i])
      /\ IsList(outputs) /\ \A i \in DOMAIN outputs : IsOutput(outputs[i])
  BY DEF IsTransaction
<1> DEFINE ok1 == \A i \in 1..Len(inputs) : InputFits(inputs[i])
           ok2 == \A i \in 1..Len(outputs) : OutputFits(outputs[i])
<1>3. p1 \in Nat \ {0}
  OBVIOUS
<1>4. Len(x) \in Nat \ {0} /\ Reads(data, p1, x, inputs, ok1, readIns)
  BY <1>2, <1>3, ReadsInputs, Zenon
<1>5. p2 \in Nat \ {0}
  <2> HIDE DEF x
  <2> QED
    BY <1>3, <1>4
<1>6. Len(y) \in Nat \ {0} /\ Reads(data, p2, y, outputs, ok2, readOuts)
  <2> HIDE DEF x
  <2> QED
    BY <1>2, <1>5, ReadsOutputs, Zenon
<1>7. p3 \in Nat \ {0}
  <2> HIDE DEF x, y
  <2> QED
    BY <1>5, <1>6
<1> HIDE DEF x, y
<1>8. /\ \A v, q : Read(data, pos) = Got(v, q) => First(pos) = Second(q)
      /\ Read(data, pos) = Failed => First(pos) = Failed
  <2> HIDE DEF Second
  <2> QED
    BY Results DEF After
<1>9. /\ \A v, q : readIns = Got(v, q) => Second(p1) = Third(v, q)
      /\ readIns = Failed => Second(p1) = Failed
  <2> HIDE DEF Third
  <2>1. Second(p1) = IF readIns.ok THEN Third(readIns.val, readIns.pos) ELSE Failed
    BY Zenon DEF After
  <2> HIDE DEF readIns, Second
  <2> QED
    BY <2>1, Results
<1>10. /\ \A v, q : readOuts = Got(v, q) => Third(inputs, p2) = Fourth(inputs, v, q)
       /\ readOuts = Failed => Third(inputs, p2) = Failed
  <2> HIDE DEF Fourth
  <2>1. Third(inputs, p2) = IF readOuts.ok THEN Fourth(inputs, readOuts.val, readOuts.pos) ELSE Failed
    BY Zenon DEF After
  <2> HIDE DEF readOuts, Third
  <2> QED
    BY <2>1, Results
<1>11. /\ \A v, q : Read(data, p3) = Got(v, q) => Fourth(inputs, outputs, p3) = Got(tx, q)
       /\ Read(data, p3) = Failed => Fourth(inputs, outputs, p3) = Failed
  <2>1. \A v, q : Read(data, p3) = Got(v, q) =>
            Fourth(inputs, outputs, p3) = Got([inputs |-> inputs, outputs |-> outputs], q)
    BY Results DEF After
  <2>2. Read(data, p3) = Failed => Fourth(inputs, outputs, p3) = Failed
    BY Results DEF After
  <2> HIDE DEF inputs, outputs, Fourth
  <2> QED
    BY <1>2, <2>1, <2>2
<1>12. SerializeTransaction(tx) = <<1>> \o (x \o (y \o <<0>>))
  <2>1. SerializeTransaction(tx) = ((<<1>> \o x) \o y) \o <<0>>
    BY Zenon DEF SerializeTransaction, x, y
  <2> HIDE DEF x, y
  <2>2. Len(<<1>>) \in Nat /\ Len(<<0>>) \in Nat /\ Len(<<1>> \o x) \in Nat /\ Len(y \o <<0>>) \in Nat
    BY <1>4, <1>6
  <2>3. ((<<1>> \o x) \o y) \o <<0>> = (<<1>> \o x) \o (y \o <<0>>)
    BY <1>6, <2>2, Regroup
  <2>4. (<<1>> \o x) \o (y \o <<0>>) = <<1>> \o (x \o (y \o <<0>>))
    BY <1>4, <2>2, Regroup
  <2> QED
    BY <2>1, <2>3, <2>4
<1> HIDE DEF inputs, outputs, First, Second, Third, Fourth, readIns, readOuts, ok1, ok2
<1>13. PICK w : w = <<0>>
  OBVIOUS
<1>14. Reads(data, p3, w, tx, TRUE, Fourth(inputs, outputs, p3))
  BY <1>7, <1>11, <1>13, ReadCell DEF Reads
<1>15. Reads(data, p2, y \o w, tx, ok2, Third(inputs, p2))
  <2>1. PICK t : t = TRUE
    OBVIOUS
  <2>2. Reads(data, p2 + Len(y), w, tx, t, Fourth(inputs, outputs, p3)) /\ Len(w) \in Nat
    BY <1>13, <1>14, <2>1
  <2>3. Reads(data, p2, y \o w, tx, ok2 /\ t, Third(inputs, p2))
    BY <1>5, <1>6, <1>10, <2>2, Sequel
  <2> QED
    BY <2>1, <2>3 DEF Reads
<1>16. Reads(data, p1, x \o (y \o w), tx, ok1 /\ ok2, Second(p1))
  <2>1. Len(y \o w) \in Nat
    BY <1>6, <1>13
  <2>2. PICK v : v = y \o w
    OBVIOUS
  <2>3. Reads(data, p1 + Len(x), v, tx, ok2, Third(inputs, p2))
    BY <1>15, <2>2
  <2>4. Len(v) \in Nat /\ (readIns = Got(inputs, p1 + Len(x)) => Second(p1) = Third(inputs, p2))
    BY <1>9, <2>1, <2>2
  <2> HIDE DEF p1, p2
  <2>5. Reads(data, p1, x \o v, tx, ok1 /\ ok2, Second(p1))
    BY <1>3, <1>4, <1>9, <2>3, <2>4, Sequel
  <2> QED
    BY <2>2, <2>5
<1>17. Len(x \o (y \o w)) \in Nat /\ Len(<<1>> \o (x \o (y \o w))) \in Nat
  BY <1>4, <1>6, <1>13
<1>18. Reads(data, pos, <<1>> \o (x \o (y \o w)), tx, ok1 /\ ok2, First(pos))
  <2>1. PICK one : one = 1
    OBVIOUS
  <2>2. Reads(data, pos, <<one>> \o (x \o (y \o w)), tx, ok1 /\ ok2, First(pos))
    BY <1>8, <1>16, <1>17, AfterCell
  <2> QED
    BY <2>1, <2>2
<1>19. TransactionFits(tx) = (ok1 /\ ok2)
  BY DEF TransactionFits, ok1, ok2, inputs, outputs
<1> QED
  BY <1>1, <1>12, <1>13, <1>17, <1>18, <1>19

\* A list of transactions.
LEMMA ReadsTransactions ==
    ASSUME NEW data, Len(data) \in Nat, NEW pos \in Nat \ {0},
           NEW items, IsList(items), \A i \in DOMAIN items : IsTransaction(items[i])
    PROVE  /\ Len(WriteList(items, SerializeTransaction)) \in Nat \ {0}
           /\ Reads(data, pos, WriteList(items, SerializeTransaction), items,
                    \A i \in 1..Len(items) : TransactionFits(items[i]), ReadList(data, pos, DeserializeTransaction))
<1> DEFINE n == Len(items)
           count == WriteVarInt(n)
           words == [i \in DOMAIN items |-> SerializeTransaction(items[i])]
           start == pos + Len(count)
           Fits == [i \in DOMAIN items |-> TransactionFits(items[i])]
           Next(f, from, i) ==
               IF i = 0 THEN Got(<< >>, from)
               ELSE After(f[i - 1], LAMBDA list, p :
                        After(DeserializeTransaction(data, p), LAMBDA x, q : Got(Append(list, x), q)))
           Items(m, from) == (CHOOSE f : f = [i \in 0..m |-> Next(f, from, i)])[m]
           Rest(r) == IF r.ok THEN Items(r.val, r.pos) ELSE Failed
           read == CHOOSE f : f = [i \in 0..n |-> Next(f, start, i)]
<1>1. ReadList(data, pos, DeserializeTransaction) = Rest(ReadVarInt(data, pos))
  BY Zenon DEF ReadList, After
<1>2. /\ n \in Nat /\ n < COUNT_LIMIT /\ DOMAIN items = 1..n
      /\ items \in Seq({items[i] : i \in DOMAIN items})
  BY DEF IsList
<1>3. Len(count) \in Nat /\ start \in Nat \ {0}
  <2>1. Len(count) \in Nat
    BY <1>2, VarIntLength
  <2> HIDE DEF count
  <2> QED
    BY <2>1
<1>4. Items(n, start) = read[n]
  OBVIOUS
<1>5. IsRead("transaction", data, start, read, n)
  <2>1. ASSUME NEW f, NEW i PROVE ReadSoFar("transaction", data, start, f, i) = Next(f, start, i)
    <3>1. \A p : ItemAt("transaction", data, p) = DeserializeTransaction(data, p)
      BY DEF ItemAt
    <3> QED
      BY <3>1 DEF ReadSoFar, After
  <2>2. PICK f : f = [i \in 0..n |-> ReadSoFar("transaction", data, start, f, i)]
    <3>1. \E f : IsRead("transaction", data, start, f, n)
      BY <1>2, ReadExists
    <3> QED
      BY <3>1, Zenon DEF IsRead
  <2> HIDE DEF Next
  <2>3. f = [i \in 0..n |-> Next(f, start, i)]
    BY <2>1, <2>2
  <2>4. read = [i \in 0..n |-> Next(read, start, i)]
    BY <2>3, Zenon
  <2> HIDE DEF read
  <2>5. read = [i \in 0..n |-> ReadSoFar("transaction", data, start, read, i)]
    BY <2>1, <2>4
  <2> QED
    BY <2>5, Zenon DEF IsRead
<1> HIDE DEF Items, read, Next
<1>6. Len(words) = n /\ \A i \in 1..n : words[i] = SerializeTransaction(items[i]) /\ Fits[i] = TransactionFits(items[i])
  BY <1>2
<1>7. \A i \in 1..n : /\ Len(words[i]) \in Nat
                      /\ \A p \in Nat \ {0} : Reads(data, p, words[i], items[i], Fits[i],
                                                    ItemAt("transaction", data, p))
  <2> TAKE i \in 1..n
  <2>1. IsTransaction(items[i])
    BY <1>2
  <2>2. \A p \in Nat \ {0} : /\ Len(SerializeTransaction(items[i])) \in Nat
                             /\ Reads(data, p, SerializeTransaction(items[i]), items[i], TransactionFits(items[i]),
                                      DeserializeTransaction(data, p))
    BY <2>1, ReadsTransaction
  <2>3. \A p : ItemAt("transaction", data, p) = DeserializeTransaction(data, p)
    BY DEF ItemAt
  <2> HIDE DEF words, Fits
  <2> QED
    BY <1>6, <2>2, <2>3
<1> HIDE DEF words, Fits
<1>8. /\ \A m, q : ReadVarInt(data, pos) = Got(m, q) => Rest(ReadVarInt(data, pos)) = Items(m, q)
      /\ ReadVarInt(data, pos) = Failed => Rest(ReadVarInt(data, pos)) = Failed
  BY Results
<1>9. WriteList(items, SerializeTransaction) = count \o Seqs!FlattenSeq(words)
  BY Zenon DEF WriteList, words
<1>10. (\A i \in 1..n : Fits[i]) <=> \A i \in 1..n : TransactionFits(items[i])
  BY <1>6
<1> DEFINE result == Rest(ReadVarInt(data, pos))
<1>11. /\ Len(count \o Seqs!FlattenSeq(words)) \in Nat \ {0}
       /\ Reads(data, pos, count \o Seqs!FlattenSeq(words), items, \A i \in 1..n : Fits[i], result)
  <2>1. /\ ReadVarInt(data, pos) = Got(n, start) => result = read[n]
        /\ ReadVarInt(data, pos) = Failed => result = Failed
    BY <1>4, <1>8
  <2> HIDE DEF result
  <2> QED
    BY <1>5, <1>6, <1>7, <2>1, ReadsList
<1> HIDE DEF result, count, words
<1>12. Reads(data, pos, count \o Seqs!FlattenSeq(words), items,
             \A i \in 1..n : TransactionFits(items[i]), result)
  BY <1>10, <1>11 DEF Reads
<1> QED
  BY <1>1, <1>9, <1>11, <1>12 DEF result

IsBlock(block) ==
    /\ block = [prev |-> block.prev, root |-> block.root, time |-> block.time,
                bits |-> block.bits, nonce |-> block.nonce, txs |-> block.txs]
    /\ IsList(block.txs) /\ \A i \in DOMAIN block.txs : IsTransaction(block.txs[i])

BlockFits(block) == \A i \in 1..Len(block.txs) : TransactionFits(block.txs[i])

\* A block of any transactions is read as it was written exactly when none of its
\* scripts is too long for a reader, and no part of it is read at all:
\* deserializeBlock and SerializeBlock agree on every block the node can store.
THEOREM BlocksAreRead ==
    ASSUME NEW block, IsBlock(block)
    PROVE  LET data == SerializeBlock(block)
               got  == DeserializeBlock(data)
           IN  /\ Len(data) \in Nat /\ Len(data) > HEADER_CELLS
               /\ got.ok <=> BlockFits(block)
               /\ got.ok => got.val = block
               /\ \A n \in 0..(Len(data) - 1) : ~DeserializeBlock(SubSeq(data, 1, n)).ok
<1> DEFINE header == <<1, block.prev, block.root, block.time, block.bits, block.nonce>>
           list == WriteList(block.txs, SerializeTransaction)
           data == header \o list
           ok == BlockFits(block)
           Whole(d, txs) == [prev |-> d[2], root |-> d[3], time |-> d[4],
                             bits |-> d[5], nonce |-> d[6], txs |-> txs]
           Txs(d) == ReadList(d, HEADER_CELLS + 1, DeserializeTransaction)
<1>1. SerializeBlock(block) = data
  BY Zenon DEF SerializeBlock
<1>2. \A d : DeserializeBlock(d) = IF Len(d) < 6 THEN Failed
                                   ELSE IF Txs(d).ok THEN Got(Whole(d, Txs(d).val), Txs(d).pos)
                                   ELSE Failed
  <2>1. \A d : DeserializeBlock(d) = IF Len(d) < HEADER_CELLS THEN Failed
                                     ELSE IF Txs(d).ok THEN Got(Whole(d, Txs(d).val), Txs(d).pos)
                                     ELSE Failed
    BY Zenon DEF DeserializeBlock, After
  <2>2. HEADER_CELLS = 6
    BY DEF HEADER_CELLS
  <2> HIDE DEF Whole, Txs
  <2> QED
    BY <2>1, <2>2, Zenon
<1>3. /\ IsList(block.txs) /\ \A i \in DOMAIN block.txs : IsTransaction(block.txs[i])
      /\ block = [prev |-> block.prev, root |-> block.root, time |-> block.time,
                  bits |-> block.bits, nonce |-> block.nonce, txs |-> block.txs]
  BY DEF IsBlock
<1>4. ASSUME NEW d, Len(d) \in Nat
      PROVE  Len(list) \in Nat \ {0} /\ Reads(d, 7, list, block.txs, ok, Txs(d))
  <2>1. HEADER_CELLS + 1 \in Nat \ {0} /\ HEADER_CELLS + 1 = 7
    BY DEF HEADER_CELLS
  <2>2. Len(list) \in Nat \ {0} /\ Reads(d, HEADER_CELLS + 1, list, block.txs, ok, Txs(d))
    BY <1>3, <1>4, <2>1, ReadsTransactions, Zenon DEF BlockFits
  <2> HIDE DEF list, ok, Txs
  <2> QED
    BY <2>1, <2>2
<1>5. Len(list) \in Nat \ {0}
  <2>1. Len(<< >>) \in Nat
    OBVIOUS
  <2> HIDE DEF list
  <2> QED
    BY <1>4, <2>1
<1> HIDE DEF list, ok, Txs
<1>6. /\ Len(data) = 6 + Len(list)
      /\ data[2] = block.prev /\ data[3] = block.root /\ data[4] = block.time
      /\ data[5] = block.bits /\ data[6] = block.nonce
      /\ \A i \in 1..Len(list) : data[7 + i - 1] = list[i]
  BY <1>5
<1>7. Whole(data, block.txs) = block
  BY <1>3, <1>6
<1> HIDE DEF data, Whole
<1>8. /\ DeserializeBlock(data).ok <=> ok
      /\ DeserializeBlock(data).ok => DeserializeBlock(data).val = block
  <2>1. Reads(data, 7, list, block.txs, ok, Txs(data)) /\ Len(data) \in Nat /\ ~(Len(data) < 6)
    BY <1>4, <1>5, <1>6
  <2>2. Holds(data, 7, list)
    BY <1>5, <1>6 DEF Holds
  <2>3. ok => Txs(data) = Got(block.txs, 7 + Len(list))
    BY <2>1, <2>2 DEF Reads
  <2>4. ~ok => Txs(data) = Failed
    BY <2>1, <2>2 DEF Reads
  <2>5. ok => DeserializeBlock(data) = Got(block, 7 + Len(list))
    BY <1>2, <1>7, <2>1, <2>3, Results
  <2>6. ~ok => DeserializeBlock(data) = Failed
    BY <1>2, <2>1, <2>4, Results
  <2> QED
    BY <2>5, <2>6, Results
<1>9. ASSUME NEW n \in 0..(Len(data) - 1)
      PROVE  ~DeserializeBlock(SubSeq(data, 1, n)).ok
  <2>1. PICK d : d = SubSeq(data, 1, n)
    OBVIOUS
  <2>2. Len(d) = n /\ n \in Nat /\ \A i \in 1..n : d[i] = data[i]
    BY <1>5, <1>6, <1>9, <2>1
  <2>3. CASE n < 6
    BY <1>2, <2>1, <2>2, <2>3, Results
  <2>4. CASE n >= 6
    <3>1. Cut(d, 7, list)
      <4>1. ASSUME NEW i \in 1..(Len(d) + 1 - 7) PROVE d[7 + i - 1] = list[i]
        <5>1. 7 + i - 1 \in 1..n /\ i \in 1..Len(list)
          BY <1>5, <1>6, <1>9, <2>2, <2>4
        <5> QED
          BY <1>6, <2>2, <5>1
      <4> QED
        BY <1>5, <1>6, <1>9, <2>2, <2>4, <4>1 DEF Cut
    <3>2. Txs(d) = Failed
      BY <1>4, <2>2, <3>1 DEF Reads
    <3>3. ~(Len(d) < 6)
      BY <2>2, <2>4
    <3> QED
      BY <1>2, <2>1, <3>2, <3>3, Results
  <2> QED
    BY <2>2, <2>3, <2>4
<1>10. Len(data) \in Nat /\ Len(data) > HEADER_CELLS
  BY <1>5, <1>6 DEF HEADER_CELLS
<1> QED
  BY <1>1, <1>8, <1>9, <1>10 DEF ok

=============================================================================
