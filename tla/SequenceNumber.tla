--------------------------- MODULE SequenceNumber ---------------------------
(***************************************************************************)
(* sequence_number<NumericType, Max>: the circular counter that numbers    *)
(* every crux packet (detail/sequence_number.hpp).  A number is one of     *)
(* 0 .. Max; ++ wraps from Max to 0; the order and the distance take the   *)
(* shorter way round the circle.                                           *)
(*                                                                         *)
(* Subtractions are done on the unsigned value_type and never underflow:   *)
(* each branch subtracts the smaller number from the larger.               *)
(***************************************************************************)
EXTENDS Integers

CONSTANT Max

\* With Max <= 1 the middle value is 0 and no number comes before another.
ASSUME MaxAssumption == Max \in Nat /\ Max >= 2

Numbers == 0 .. Max

Middle == Max \div 2
-----------------------------------------------------------------------------
(* operator++ and next() *)

Successor(n) == IF n < Max THEN n + 1 ELSE 0

-----------------------------------------------------------------------------
(* operator<: m comes before n iff the way from m up to n, across the wrap *)
(* if need be, is the shorter one.                                         *)

\* Faulty variant: the order of the raw integers.
RawBefore(m, n) == m < n

Before(m, n) ==
    \/ n > m /\ n - m <= Middle
    \/ n < m /\ m - n > Middle

-----------------------------------------------------------------------------
(* m.distance(n): how many increments lead from m to n, negative when n    *)
(* lies behind m.                                                          *)
(*                                                                         *)
(* When Max is odd two numbers can be exactly opposite (Middle + 1 apart   *)
(* both ways).  Both distances are then -(Middle + 1): for Max = 2^w - 1   *)
(* this is the one value whose negation overflows the signed type, and the *)
(* two's complement result is the same -(Middle + 1).                      *)

\* Faulty variant: the second branch forgets that the way back crosses zero.
NoWrapDistance(m, n) ==
    IF n > m /\ n - m > Middle THEN - (Max - (n - m) + 1) ELSE n - m

Distance(m, n) ==
    IF n > m
    THEN LET diff == n - m
         IN  IF diff > Middle THEN - (Max - diff + 1) ELSE diff
    ELSE LET diff == m - n
             v    == Max - diff + 1
         IN  IF diff <= Middle THEN - diff
             ELSE IF v > Middle THEN - v ELSE v

Opposite(m, n) == m - n = Middle + 1 \/ n - m = Middle + 1
=============================================================================
