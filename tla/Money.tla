------------------------------- MODULE Money --------------------------------
(***************************************************************************)
(* The Money value object over integers of a bounded width, next to the    *)
(* same calculation over the integers.  A behaviour reads an external      *)
(* amount digit by digit, as parseMinorUnits does, or starts from a stored *)
(* one, as New does, and goes on with movements until one is refused.      *)
(*                                                                         *)
(* Go evaluates the guards with the arithmetic they are there to protect:  *)
(* every sum, difference and product below is wrapped.                     *)
(***************************************************************************)
EXTENDS Integers

CONSTANT MaxInt   \* math.MaxInt64

VARIABLES
    stage,   \* "parsing", "money", or the error
    units,   \* minorUnits
    read,    \* digits of the amount read so far
    exact    \* history: what unbounded arithmetic gives

moneyVars == <<stage, units, read, exact>>

MinInt == -MaxInt - 1
Int64  == MinInt..MaxInt

\* The amounts a Money may hold: each has its negative.
MoneyUnits == -MaxInt..MaxInt

\* Two's complement.
Wrap(n) == ((n - MinInt) % (2 * (MaxInt + 1))) + MinInt

\* New, for a supported currency.
Accepts(n) == n # MinInt

MoneyInit ==
    /\ units \in Int64
    /\ \/ stage = "parsing" /\ units = 0
       \/ stage = IF Accepts(units) THEN "money" ELSE "OVERFLOW"
    /\ read = 0
    /\ exact = units

-----------------------------------------------------------------------------
(* Parse: a canonical amount has digits, and two after the point.          *)

DigitOverflows(d) == units > Wrap(MaxInt - d) \div 10

\* No digit but the cents follows a leading zero.
ReadDigit(d) ==
    /\ stage = "parsing"
    /\ ~(read >= 3 /\ exact < 100)
    /\ exact' = exact * 10 + d
    /\ read' = read + 1
    /\ IF DigitOverflows(d)
       THEN stage' = "OVERFLOW" /\ UNCHANGED units
       ELSE units' = Wrap(Wrap(units * 10) + d) /\ UNCHANGED stage

\* The last digit was read; New.
Parsed ==
    /\ stage = "parsing"
    /\ read >= 3
    /\ stage' = IF Accepts(units) THEN "money" ELSE "OVERFLOW"
    /\ read' = 0
    /\ UNCHANGED <<units, exact>>

-----------------------------------------------------------------------------
(* Arithmetic on two amounts of one currency.                              *)

AddOverflows(n) ==
    \/ n > 0 /\ units > Wrap(MaxInt - n)
    \/ n < 0 /\ units <= Wrap(MinInt - n)

\* Mutant: the two bounds are swapped.
SubtractOverflowsSwapped(n) ==
    \/ n > 0 /\ units > Wrap(MaxInt - n)
    \/ n < 0 /\ units <= Wrap(MinInt - n)

SubtractOverflows(n) ==
    \/ n > 0 /\ units <= Wrap(MinInt + n)
    \/ n < 0 /\ units > Wrap(MaxInt + n)

Becomes(refused, n, sum) ==
    /\ stage = "money"
    /\ exact' = sum
    /\ IF refused THEN stage' = "OVERFLOW" /\ UNCHANGED units
       ELSE units' = Wrap(n) /\ UNCHANGED stage
    /\ UNCHANGED read

Add(n)      == Becomes(AddOverflows(n), units + n, exact + n)
Subtract(n) == Becomes(SubtractOverflows(n), units - n, exact - n)
Negate      == Becomes(units = MinInt, -units, -exact)

MoneyNext ==
    \/ \E d \in 0..9 : ReadDigit(d)
    \/ Parsed
    \/ \E n \in MoneyUnits : Add(n) \/ Subtract(n)
    \/ Negate

MoneySpec == MoneyInit /\ [][MoneyNext]_moneyVars

-----------------------------------------------------------------------------
\* The parts of the external representation: sign, uint64 magnitude / 100 and
\* magnitude % 100.
Decimal(n) ==
    LET magnitude == (IF n < 0 THEN Wrap(-n) ELSE n) % (2 * (MaxInt + 1))
    IN [negative |-> n < 0, major |-> magnitude \div 100, cents |-> magnitude % 100]

ASSUME WidthAssumption == MaxInt \in Nat /\ MaxInt > 9

\* No sequence of digits and movements, however close to the limits, ends in a
\* wrong amount: what is not refused is what exact arithmetic gives, and it can
\* be negated.
AmountsAreExact ==
    /\ stage = "parsing" => units = exact /\ units \in 0..MaxInt
    /\ stage = "money" => units = exact /\ units \in MoneyUnits

\* Nothing is refused that could have been represented: the limits of the guards
\* are those of the type, to the unit.
OnlyOverflowsAreRefused == stage = "OVERFLOW" => exact \notin MoneyUnits

\* The decimal that leaves the service denotes the stored amount, with its sign.
DecimalDenotesAmount ==
    stage = "money" =>
        LET d == Decimal(units)
        IN /\ d.cents \in 0..99
           /\ units = (IF d.negative THEN -1 ELSE 1) * (100 * d.major + d.cents)

\* All three: an amount is read, moved and written exactly, or refused because no
\* Money could hold it.
MoneyIsExact == AmountsAreExact /\ OnlyOverflowsAreRefused /\ DecimalDenotesAmount
=============================================================================
