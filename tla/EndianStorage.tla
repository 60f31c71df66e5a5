--------------------------- MODULE EndianStorage ---------------------------
(***************************************************************************)
(* endian_load and endian_store (src/src/endian_storage.hpp), through      *)
(* which every number of the two disk formats passes: unsigned numbers of  *)
(* 2, 4 and 8 bytes, on a machine of either byte order.  A buffer is its   *)
(* bytes in the order of their addresses.                                  *)
(***************************************************************************)
EXTENDS Integers

CONSTANT Native   \* std::endian::native: "little", or else "big"

Base == 256
Byte == 0 .. Base - 1
Widths == {2, 4, 8}   \* sizeof(Ty)
Buffer(n) == [1 .. n -> Byte]

U16 == Base * Base
U32 == U16 * U16
Number(n) == CASE n = 2 -> 0 .. U16 - 1
               [] n = 4 -> 0 .. U32 - 1
               [] n = 8 -> 0 .. U32 * U32 - 1

\* A number's bytes, the least significant one first: those of its lower
\* half, then those of its upper half.
Join(m, a, b) == [i \in 1 .. m + m |-> IF i <= m THEN a[i] ELSE b[i - m]]
Little2(v) == [i \in 1 .. 2 |-> IF i = 1 THEN v % Base ELSE v \div Base]
Little4(v) == Join(2, Little2(v % U16), Little2(v \div U16))
Little(n, v) == CASE n = 2 -> Little2(v)
                  [] n = 4 -> Little4(v)
                  [] n = 8 -> Join(4, Little4(v % U32), Little4(v \div U32))

\* The number that bytes i, i + 1, ... stand for in this order.
Value2(b, i) == b[i] + Base * b[i + 1]
Value4(b, i) == Value2(b, i) + U16 * Value2(b, i + 2)
Value(n, b) == CASE n = 2 -> Value2(b, 1)
                 [] n = 4 -> Value4(b, 1)
                 [] n = 8 -> Value4(b, 1) + U32 * Value4(b, 5)

Reversed(n, b) == [i \in 1 .. n |-> b[n + 1 - i]]

\* std::bit_cast between a number and its bytes in memory.
ToBytes(n, v) ==
  IF Native = "little" THEN Little(n, v) ELSE Reversed(n, Little(n, v))
FromBytes(n, b) ==
  IF Native = "little" THEN Value(n, b) ELSE Value(n, Reversed(n, b))

byteswap(n, v) == Value(n, Reversed(n, Little(n, v)))

endian_load(n, endian, b) ==
  IF endian = Native THEN FromBytes(n, b) ELSE byteswap(n, FromBytes(n, b))

endian_store(n, endian, v) ==
  ToBytes(n, IF endian = Native THEN v ELSE byteswap(n, v))
=============================================================================
