------------------------ MODULE EndianStorage_proofs ------------------------
(***************************************************************************)
(* Numbers go to the disk and come back whole, whichever byte order the    *)
(* machine has.  A number is cut into halves, down to its bytes.           *)
(***************************************************************************)
EXTENDS EndianStorage, TLAPS

\* Numbers below B * B, cut into halves below B and put together again.
Halves(B) ==
  /\ \A v \in 0 .. B * B - 1 :
       /\ v % B \in 0 .. B - 1 /\ v \div B \in 0 .. B - 1
       /\ (v % B) + B * (v \div B) = v
  /\ \A x, y \in 0 .. B - 1 :
       /\ x + B * y \in 0 .. B * B - 1
       /\ (x + B * y) % B = x /\ (x + B * y) \div B = y

\* A number below B * B is its two digits in base B.
LEMMA Digits ==
  ASSUME NEW B \in Nat \ {0}
  PROVE  Halves(B)
<1>1. ASSUME NEW v \in Nat
      PROVE  /\ v % B \in 0 .. B - 1 /\ v \div B \in Nat
             /\ (v % B) + B * (v \div B) = v
  BY SMT
<1>2. ASSUME NEW p \in Nat, NEW q \in Nat, p < q
      PROVE  B * p + B <= B * q
  BY <1>2, SMT
<1>3. ASSUME NEW v \in 0 .. B * B - 1
      PROVE  v \div B \in 0 .. B - 1
  BY <1>1, SMT
<1>4. ASSUME NEW x \in 0 .. B - 1, NEW y \in 0 .. B - 1
      PROVE  /\ x + B * y \in 0 .. B * B - 1
             /\ (x + B * y) % B = x /\ (x + B * y) \div B = y
  <2>1. x + B * y \in 0 .. B * B - 1
    BY SMT
  <2>2. ASSUME NEW p \in Nat, NEW r \in 0 .. B - 1, r + B * p = x + B * y
        PROVE  r = x /\ p = y
    BY <1>2, <2>2, SMT
  <2>3. x + B * y \in Nat
    BY SMT
  <2> QED
    BY <1>1, <2>1, <2>2, <2>3, SMT
<1>5. ASSUME NEW v \in 0 .. B * B - 1
      PROVE  v \in Nat
  BY SMT
<1> QED
  BY <1>1, <1>3, <1>4, <1>5 DEF Halves

\* How numbers of two, four and eight bytes are cut into halves.
LEMMA Cuts == Halves(Base) /\ Halves(U16) /\ Halves(U32)
<1>1. Base \in Nat \ {0} /\ U16 \in Nat \ {0} /\ U32 \in Nat \ {0}
  BY SMT DEF Base, U16, U32
<1> QED
  BY <1>1, Digits

\* A number of two bytes and its bytes.
LEMMA Two ==
  /\ \A v \in 0 .. U16 - 1 :
       Little2(v) \in Buffer(2) /\ Value2(Little2(v), 1) = v
  /\ \A b : \A i \in Nat : b[i] \in Byte /\ b[i + 1] \in Byte =>
       /\ Value2(b, i) \in 0 .. U16 - 1
       /\ Little2(Value2(b, i)) = <<b[i], b[i + 1]>>
<1>1. ASSUME NEW v \in 0 .. U16 - 1
      PROVE  Little2(v) \in Buffer(2) /\ Value2(Little2(v), 1) = v
  <2>1. /\ v % Base \in Byte /\ v \div Base \in Byte
        /\ (v % Base) + Base * (v \div Base) = v
    BY Cuts DEF Halves, U16, Byte
  <2>2. Little2(v) \in Buffer(2)
    BY <2>1 DEF Little2, Buffer
  <2>3. Little2(v)[1] = v % Base /\ Little2(v)[1 + 1] = v \div Base
    BY SMT DEF Little2
  <2> QED
    BY <2>1, <2>2, <2>3 DEF Value2
<1>2. ASSUME NEW b, NEW i \in Nat, b[i] \in Byte, b[i + 1] \in Byte
      PROVE  /\ Value2(b, i) \in 0 .. U16 - 1
             /\ Little2(Value2(b, i)) = <<b[i], b[i + 1]>>
  <2>1. /\ Value2(b, i) \in 0 .. U16 - 1
        /\ Value2(b, i) % Base = b[i] /\ Value2(b, i) \div Base = b[i + 1]
    BY <1>2, Cuts DEF Value2, Halves, U16, Byte
  <2> QED
    BY <2>1, SMT DEF Little2
<1> QED
  BY <1>1, <1>2

\* A number of four bytes and its bytes.
LEMMA Four ==
  /\ \A v \in 0 .. U32 - 1 :
       Little4(v) \in Buffer(4) /\ Value4(Little4(v), 1) = v
  /\ \A b : \A i \in Nat : (\A j \in i .. i + 3 : b[j] \in Byte) =>
       /\ Value4(b, i) \in 0 .. U32 - 1
       /\ Little4(Value4(b, i)) = <<b[i], b[i + 1], b[i + 2], b[i + 3]>>
<1>1. ASSUME NEW v \in 0 .. U32 - 1
      PROVE  Little4(v) \in Buffer(4) /\ Value4(Little4(v), 1) = v
  <2> DEFINE a == Little2(v % U16)
             c == Little2(v \div U16)
  <2>1. /\ v % U16 \in 0 .. U16 - 1 /\ v \div U16 \in 0 .. U16 - 1
        /\ (v % U16) + U16 * (v \div U16) = v
    BY Cuts DEF Halves, U32
  <2>2. /\ a \in Buffer(2) /\ Value2(a, 1) = v % U16
        /\ c \in Buffer(2) /\ Value2(c, 1) = v \div U16
    BY <2>1, Two
  <2>3. Little4(v) = Join(2, a, c)
    BY DEF Little4
  <2> HIDE DEF a, c
  <2>4. Join(2, a, c) \in Buffer(4)
    BY <2>2, SMT DEF Join, Buffer
  <2>5. /\ Value2(Join(2, a, c), 1) = Value2(a, 1)
        /\ Value2(Join(2, a, c), 1 + 2) = Value2(c, 1)
    BY SMT DEF Join, Value2
  <2> QED
    BY <2>1, <2>2, <2>3, <2>4, <2>5 DEF Value4
<1>2. ASSUME NEW b, NEW i \in Nat, \A j \in i .. i + 3 : b[j] \in Byte
      PROVE  /\ Value4(b, i) \in 0 .. U32 - 1
             /\ Little4(Value4(b, i)) = <<b[i], b[i + 1], b[i + 2], b[i + 3]>>
  <2> DEFINE x == Value2(b, i)
             y == Value2(b, i + 2)
  <2>1. /\ x \in 0 .. U16 - 1 /\ Little2(x) = <<b[i], b[i + 1]>>
        /\ y \in 0 .. U16 - 1 /\ Little2(y) = <<b[i + 2], b[i + 3]>>
    <3>1. b[i] \in Byte /\ b[i + 1] \in Byte /\ b[i + 2] \in Byte /\ b[i + 3] \in Byte
      BY <1>2, SMT
    <3>2. i + 2 \in Nat /\ (i + 2) + 1 = i + 3
      BY SMT
    <3> QED
      BY <3>1, <3>2, Two
  <2>2. Value4(b, i) = x + U16 * y
    BY DEF Value4
  <2> HIDE DEF x, y
  <2>3. /\ x + U16 * y \in 0 .. U32 - 1
        /\ (x + U16 * y) % U16 = x /\ (x + U16 * y) \div U16 = y
    BY <2>1, Cuts DEF Halves, U32
  <2>4. Little4(x + U16 * y) = Join(2, <<b[i], b[i + 1]>>, <<b[i + 2], b[i + 3]>>)
    BY <2>1, <2>3 DEF Little4
  <2> QED
    BY <2>2, <2>3, <2>4, SMT DEF Join
<1> QED
  BY <1>1, <1>2

\* A number of eight bytes and its bytes.
LEMMA Eight ==
  /\ \A v \in Number(8) : Little(8, v) \in Buffer(8) /\ Value(8, Little(8, v)) = v
  /\ \A b \in Buffer(8) : Value(8, b) \in Number(8) /\ Little(8, Value(8, b)) = b
<1>1. ASSUME NEW v \in Number(8)
      PROVE  Little(8, v) \in Buffer(8) /\ Value(8, Little(8, v)) = v
  <2> DEFINE a == Little4(v % U32)
             c == Little4(v \div U32)
  <2>1. /\ v % U32 \in 0 .. U32 - 1 /\ v \div U32 \in 0 .. U32 - 1
        /\ (v % U32) + U32 * (v \div U32) = v
    BY Cuts DEF Halves, Number
  <2>2. /\ a \in Buffer(4) /\ Value4(a, 1) = v % U32
        /\ c \in Buffer(4) /\ Value4(c, 1) = v \div U32
    BY <2>1, Four
  <2>3. Little(8, v) = Join(4, a, c)
    BY DEF Little
  <2> HIDE DEF a, c
  <2>4. Join(4, a, c) \in Buffer(8)
    BY <2>2, SMT DEF Join, Buffer
  <2>5. /\ Value4(Join(4, a, c), 1) = Value4(a, 1)
        /\ Value4(Join(4, a, c), 5) = Value4(c, 1)
    BY SMT DEF Join, Value2, Value4
  <2> QED
    BY <2>1, <2>2, <2>3, <2>4, <2>5 DEF Value
<1>2. ASSUME NEW b \in Buffer(8)
      PROVE  Value(8, b) \in Number(8) /\ Little(8, Value(8, b)) = b
  <2> DEFINE x == Value4(b, 1)
             y == Value4(b, 5)
  <2>1. /\ x \in 0 .. U32 - 1 /\ Little4(x) = <<b[1], b[2], b[3], b[4]>>
        /\ y \in 0 .. U32 - 1 /\ Little4(y) = <<b[5], b[6], b[7], b[8]>>
    <3>1. /\ \A j \in 1 .. 1 + 3 : b[j] \in Byte
          /\ \A j \in 5 .. 5 + 3 : b[j] \in Byte
      BY SMT DEF Buffer
    <3> QED
      BY <3>1, Four, SMT
  <2>2. Value(8, b) = x + U32 * y
    BY DEF Value
  <2> HIDE DEF x, y
  <2>3. /\ x + U32 * y \in Number(8)
        /\ (x + U32 * y) % U32 = x /\ (x + U32 * y) \div U32 = y
    BY <2>1, Cuts DEF Halves, Number
  <2>4. Little(8, x + U32 * y)
          = Join(4, <<b[1], b[2], b[3], b[4]>>, <<b[5], b[6], b[7], b[8]>>)
    BY <2>1, <2>3 DEF Little
  <2> QED
    BY <2>2, <2>3, <2>4, SMT DEF Join, Buffer
<1> QED
  BY <1>1, <1>2

\* A number is the one its bytes stand for, and every buffer holds a number.
LEMMA LittleIsOneToOne ==
  ASSUME NEW n \in Widths
  PROVE  /\ \A v \in Number(n) : Little(n, v) \in Buffer(n) /\ Value(n, Little(n, v)) = v
         /\ \A b \in Buffer(n) : Value(n, b) \in Number(n) /\ Little(n, Value(n, b)) = b
<1>1. CASE n = 2
  <2>1. \A b \in Buffer(2) : b[1] \in Byte /\ b[1 + 1] \in Byte /\ b = <<b[1], b[1 + 1]>>
    BY SMT DEF Buffer
  <2> QED
    BY <1>1, <2>1, Two DEF Number, Little, Value
<1>2. CASE n = 4
  <2>1. \A b \in Buffer(4) : /\ \A j \in 1 .. 1 + 3 : b[j] \in Byte
                            /\ b = <<b[1], b[1 + 1], b[1 + 2], b[1 + 3]>>
    BY SMT DEF Buffer
  <2> QED
    BY <1>2, <2>1, Four DEF Number, Little, Value
<1>3. CASE n = 8
  BY <1>3, Eight
<1> QED
  BY <1>1, <1>2, <1>3 DEF Widths

\* Reversing twice changes nothing.
LEMMA ReversedTwice ==
  ASSUME NEW n \in Widths, NEW b \in Buffer(n)
  PROVE  Reversed(n, b) \in Buffer(n) /\ Reversed(n, Reversed(n, b)) = b
  BY SMT DEF Reversed, Buffer, Widths

\* What endian_store puts on the disk does not depend on the machine: with
\* std::endian::little, as all of Vmgs.cpp and Gpt.cpp have it, it is the
\* number's bytes with the least significant one first.
THEOREM StoreIsPortable ==
  ASSUME NEW n \in Widths, NEW v \in Number(n), Native \in {"little", "big"}
  PROVE  /\ endian_store(n, "little", v) = Little(n, v)
         /\ endian_store(n, "big", v) = Reversed(n, Little(n, v))
<1>1. /\ Little(n, v) \in Buffer(n)
      /\ Reversed(n, Little(n, v)) \in Buffer(n)
      /\ Reversed(n, Reversed(n, Little(n, v))) = Little(n, v)
  BY LittleIsOneToOne, ReversedTwice
<1>2. Little(n, byteswap(n, v)) = Reversed(n, Little(n, v))
  BY <1>1, LittleIsOneToOne DEF byteswap
<1> QED
  BY <1>1, <1>2 DEF endian_store, ToBytes

\* Wherever the bytes were written, endian_load gives back the number that
\* endian_store was given.
THEOREM StoreThenLoadNumber ==
  ASSUME NEW n \in Widths, NEW v \in Number(n), NEW endian \in {"little", "big"},
         Native \in {"little", "big"}
  PROVE  endian_load(n, endian, endian_store(n, endian, v)) = v
<1> DEFINE w == byteswap(n, v)
<1>1. w \in Number(n) /\ byteswap(n, w) = v
  <2>1. Little(n, w) = Reversed(n, Little(n, v)) /\ w \in Number(n)
    BY LittleIsOneToOne, ReversedTwice DEF byteswap
  <2> QED
    BY <2>1, LittleIsOneToOne, ReversedTwice DEF byteswap
<1>2. \A u \in Number(n) : FromBytes(n, ToBytes(n, u)) = u
  BY LittleIsOneToOne, ReversedTwice DEF FromBytes, ToBytes
<1> QED
  BY <1>1, <1>2 DEF endian_load, endian_store
=============================================================================
