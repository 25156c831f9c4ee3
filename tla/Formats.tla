------------------------------- MODULE Formats -------------------------------
(***************************************************************************)
(* common/format.c and the printing the screens are made with.  A text is  *)
(* the sequence of its characters, without the zero that ends it in an     *)
(* array; arrays are cleared before they are written.                      *)
(***************************************************************************)
EXTENDS Integers, Sequences

Zero == 48    \* '0'
Point == 46   \* '.'
Minus == 45   \* '-'

\* The digits of n, each behind those that are left when it is taken off, and their number.
Digits[n \in Nat] ==
    IF n <= 9 THEN <<Zero + n>> ELSE Append(Digits[n \div 10], Zero + (n % 10))
Decimal(n) == Digits[n]
DigitsOf(n) == Len(Decimal(n))

Repeat(c, n) == [k \in 1..n |-> c]

NoText == [ok |-> FALSE, text |-> <<>>]
Formatted(text) == [ok |-> TRUE, text |-> text]

\* An array for more than one digit, which is all there are.
format_u64(out_len, n) ==
    IF DigitsOf(n) + 1 > out_len THEN NoText ELSE Formatted(Decimal(n))

\* Mutant: the zeros behind the point are one too few.
FractionTooShort(dst_len, digits, decimals) ==
    IF dst_len <= 2 + decimals - Len(digits) THEN NoText
    ELSE Formatted(<<Zero, Point>> \o Repeat(Zero, decimals - Len(digits) - 1) \o digits)

\* A number below 1: strncpy copies the digits, or as many as there is room for.
Fraction(dst_len, digits, decimals) ==
    LET before == 2 + decimals - Len(digits)
    IN  IF dst_len <= before THEN NoText
        ELSE Formatted(<<Zero, Point>> \o Repeat(Zero, decimals - Len(digits))
                       \o SubSeq(digits, 1, IF dst_len - before < Len(digits)
                                            THEN dst_len - before ELSE Len(digits)))

\* Mutant: one more character is asked for than there is an array for.
RoomForOneMore(dst_len, digits, decimals) == dst_len > digits + 2 + decimals

\* The room that is asked for counts the digits behind the point twice.
Room(dst_len, digits, decimals) == dst_len > digits + 1 + decimals

\* Mutant: without decimals there is nothing behind the point.
NothingBehind(dst_len, digits, decimals) ==
    LET shift == Len(digits) - decimals
    IN  IF ~Room(dst_len, Len(digits), decimals) THEN NoText
        ELSE Formatted(SubSeq(digits, 1, shift) \o <<Point>>
                       \o SubSeq(digits, shift + 1, Len(digits)))

\* Other numbers; without decimals there is a zero behind the point.
WholeAndFraction(dst_len, digits, decimals) ==
    LET shift == Len(digits) - decimals
    IN  IF ~Room(dst_len, Len(digits), decimals) THEN NoText
        ELSE Formatted(SubSeq(digits, 1, shift) \o <<Point>>
                       \o (IF decimals = 0 THEN <<Zero>>
                           ELSE SubSeq(digits, shift + 1, Len(digits))))

\* buffer_len is the size of the array for the digits, 21.
format_fpu64(buffer_len, dst_len, n, decimals) ==
    LET digits == format_u64(buffer_len, n)
    IN  IF ~digits.ok THEN NoText
        ELSE IF Len(digits.text) <= decimals THEN Fraction(dst_len, digits.text, decimals)
        ELSE WholeAndFraction(dst_len, digits.text, decimals)

\* Mutant: there is no room for the zero at the end.
TextWithoutZero(len, text) == SubSeq(text, 1, IF Len(text) < len THEN Len(text) ELSE len)

\* snprintf: what fits, with the zero at its end.
snprintf(len, text) == SubSeq(text, 1, IF Len(text) < len THEN Len(text) ELSE len - 1)

\* %d of an unsigned number: its bits as a signed one.
AsSigned(v, values) == IF 2 * v < values THEN v ELSE v - values
PercentD(v, values) ==
    LET n == AsSigned(v, values)
    IN  IF n < 0 THEN <<Minus>> \o Decimal(-n) ELSE Decimal(n)
=============================================================================
