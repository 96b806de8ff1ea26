------------------------------- MODULE Money -------------------------------
(***************************************************************************)
(* Amounts of loyalty points as the DECIMAL(10,2) columns of the migrations *)
(* keep them.  An amount is an integer number of HALF kopecks: a column     *)
(* holds whole kopecks, that is even amounts, while a request or an answer  *)
(* of the accrual system is a JSON number that may fall between two column  *)
(* values.  Half a kopeck is the smallest step at which PostgreSQL's        *)
(* rounding to a column has a tie to break; amounts strictly nearer to one  *)
(* kopeck than to the next behave like that kopeck.                         *)
(***************************************************************************)
EXTENDS Integers

\* An amount a DECIMAL(10,2) column can hold without rounding.
Whole(x) == x % 2 = 0

CONSTANT MaxAmount  \* the largest value of a DECIMAL(10,2) column

ASSUME MaxAmountAssumption == MaxAmount \in Nat /\ Whole(MaxAmount)

\* Mutant: a column that keeps what it is given.
Unrounded(x) == x

\* What PostgreSQL stores for a decimal it is given exactly, or computes
\* itself: the nearest column value, a tie rounded away from zero.
Stored(x) == IF Whole(x) THEN x ELSE IF x > 0 THEN x + 1 ELSE x - 1

\* What PostgreSQL may store for a float64 that Go computed: the error of the
\* floating point operation moves a tie to either side.
StoredFloats(x) == {y \in {x - 1, x, x + 1} : Whole(y)}

\* No "numeric field overflow".
Fits(x) == -MaxAmount <= x /\ x <= MaxAmount

Amount == {x \in -MaxAmount..MaxAmount : Whole(x)}
=============================================================================
