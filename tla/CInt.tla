-------------------------------- MODULE CInt --------------------------------
(***************************************************************************)
(* C++ integer arithmetic on a two's-complement `long long`, as RunCount  *)
(* and DateTime use it: division and remainder truncate toward zero (TLA+ *)
(* \div and % round toward minus infinity), and an operation that leaves  *)
(* the range wraps, which is what the server's builds produce for signed  *)
(* overflow.  LongBits is the width; the code's is 64, TLC's integers are *)
(* 32 bits wide, so a model takes a narrower one that keeps the constants *)
(* the code computes with (1000 milliseconds to a second) inside it.      *)
(***************************************************************************)
EXTENDS Integers

CONSTANT LongBits

ASSUME LongBits \in 2..30

MinLong == -(2^(LongBits - 1))
MaxLong == 2^(LongBits - 1) - 1
Longs == MinLong..MaxLong

\* The value a LongBits-bit register holds after computing x.
Wrap(x) == ((x - MinLong) % 2^LongBits) + MinLong

AbsVal(x) == IF x < 0 THEN -x ELSE x

\* a / b and a % b of C++11: the quotient truncates toward zero.
CDiv(a, b) == IF (a < 0) = (b < 0) THEN AbsVal(a) \div AbsVal(b)
              ELSE -(AbsVal(a) \div AbsVal(b))
CMod(a, b) == a - b * CDiv(a, b)
=============================================================================
