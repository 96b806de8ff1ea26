---------------------------- MODULE OrderNumber ----------------------------
(***************************************************************************)
(* utils.OrderNumberCheck, the check of Luhn on an order number.  A number  *)
(* is a sequence of characters: the digits 0..9 and one more that stands    *)
(* for whatever strconv.Atoi refuses.  The behaviours type every number of  *)
(* at most MaxLength characters.                                            *)
(***************************************************************************)
EXTENDS Integers, Sequences, FiniteSets

CONSTANT MaxLength  \* bound: longer numbers are not tried

ASSUME MaxLengthAssumption == MaxLength \in Nat

Digits   == 0..9
NotDigit == 10

VARIABLE number

\* Mutant: a digit above 9 is kept.
NotReduced(digit, place) == IF place % 2 = 0 THEN 2 * digit ELSE digit

\* Mutant: the parity is counted from the left.
FromLeft(digit, place) ==
  IF (Len(number) - place) % 2 = 1
  THEN IF 2 * digit > 9 THEN 2 * digit - 9 ELSE 2 * digit
  ELSE digit

\* What the digit at a place counts; the last place is 1.
Weighted(digit, place) ==
  IF place % 2 = 0
  THEN IF 2 * digit > 9 THEN 2 * digit - 9 ELSE 2 * digit
  ELSE digit

\* The sum of f over S, as the number of points under its graph: no digit counts
\* more than twice 9.
Total(f, S) == Cardinality({p \in S \X (1..18) : p[2] <= f[p[1]]})

Weights(n) == [i \in 1..Len(n) |-> Weighted(n[i], Len(n) - i + 1)]

OrderNumberCheck(n) ==
  /\ n # <<>>
  /\ \A i \in 1..Len(n) : n[i] \in Digits
  /\ Total(Weights(n), 1..Len(n)) % 10 = 0

Init == number = <<>>

Type == /\ Len(number) < MaxLength
        /\ \E c \in Digits \cup {NotDigit} : number' = Append(number, c)

Spec == Init /\ [][Type]_number
-----------------------------------------------------------------------------
\* A number is accepted when its last digit is the check digit of the rest, as
\* ISO/IEC 7812 defines it: what the digits of the rest, every other one from
\* the right replaced by the digit sum of its double, lack to a multiple of 10.
CheckDigit(rest) ==
  LET DigitSumOfDouble == <<0, 2, 4, 6, 8, 1, 3, 5, 7, 9>>
      FromRight(i) == Len(rest) - i
      Counted(i) == IF FromRight(i) % 2 = 0 THEN DigitSumOfDouble[rest[i] + 1] ELSE rest[i]
      Sum == Total([i \in 1..Len(rest) |-> Counted(i)], 1..Len(rest))
  IN  CHOOSE d \in Digits : (Sum + d) % 10 = 0

AcceptsCheckDigit ==
  number # <<>> /\ (\A i \in 1..Len(number) : number[i] \in Digits) =>
    LET rest == SubSeq(number, 1, Len(number) - 1)
    IN  OrderNumberCheck(number) <=> number[Len(number)] = CheckDigit(rest)

\* An accepted number with one digit mistyped, or with two neighbours swapped
\* that are not 0 and 9, is refused: a client cannot upload or pay a neighbour
\* of the order it means.
TyposAreRefused ==
  OrderNumberCheck(number) =>
    /\ \A i \in 1..Len(number), d \in Digits \cup {NotDigit} :
         d # number[i] => ~OrderNumberCheck([number EXCEPT ![i] = d])
    /\ \A i \in 1..(Len(number) - 1) :
         /\ number[i] # number[i + 1]
         /\ {number[i], number[i + 1]} # {0, 9}
         => ~OrderNumberCheck([number EXCEPT ![i] = number[i + 1],
                                             ![i + 1] = number[i]])
=============================================================================
