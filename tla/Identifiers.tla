---------------------------- MODULE Identifiers ----------------------------
(***************************************************************************)
(* The check digits of asset identifiers, primitives/src/asset_identifier.rs, *)
(* as typing errors meet them.  A character is a number: its CUSIP value,   *)
(* 0..9 for digits, 10..35 for capitals, 36..38 for * @ #; 110..135 for     *)
(* small letters; Strange for anything else.                                *)
(***************************************************************************)
EXTENDS Naturals, Sequences
LOCAL INSTANCE SequencesExt

CONSTANTS
    Samples,   \* identifiers to start from: [kind, chars]
    MaxTypos

VARIABLES ident, typos
identVars == <<ident, typos>>

Strange == 200
IsDigit(c) == c \in 0..9
IsAlphabetic(c) == c \in 10..35 \/ c \in 110..135
IsAlphanumeric(c) == IsDigit(c) \/ IsAlphabetic(c)
Known(c) == IsAlphanumeric(c) \/ c \in 36..38
ByteValue(c) == IF c >= 110 THEN c - 100 ELSE c

----------------------------------------------------------------------------
(* The check digits.                                                       *)

\* Mutant: a doubled value is not reduced to the sum of its digits.
MutDigitSum(v) == v

DigitSum(v) == (v \div 10) + (v % 10)

\* Every other value counts twice; positions count from 0 in the code.
CusipCheckDigit(chars) ==
    LET Weighted(i) == IF i % 2 = 0 THEN 2 * ByteValue(chars[i]) ELSE ByteValue(chars[i])
        values == [i \in 1..Len(chars) |-> DigitSum(Weighted(i))]
        sum == FoldLeft(LAMBDA x, y : x + y, 0, values)
    IN  (10 - (sum % 10)) % 10

ValidateCusip(b) ==
    /\ IsDigit(b[9])
    /\ \A i \in 1..8 : Known(b[i])
    /\ CusipCheckDigit(SubSeq(b, 1, 8)) = b[9]

\* Letters become two digits; then the Luhn test, from the right.
IsinDigits(b) ==
    FlattenSeq([i \in 1..Len(b) |->
        LET v == ByteValue(b[i]) IN IF v >= 10 THEN <<v \div 10, v % 10>> ELSE <<v>>])
LuhnSum(digits) ==
    FoldLeft(LAMBDA x, y : x + y, 0,
             [i \in 1..Len(digits) |->
                IF (Len(digits) - i) % 2 = 0 THEN digits[i]
                ELSE 2 * digits[i] - (IF digits[i] >= 5 THEN 9 ELSE 0)])
ValidateIsin(b) ==
    /\ IsAlphabetic(b[1]) /\ IsAlphabetic(b[2]) /\ IsDigit(b[12])
    /\ \A i \in 3..11 : IsAlphanumeric(b[i])
    /\ LuhnSum(IsinDigits(b)) % 10 = 0

\* The sum modulo 97 of the values, each at its power of ten: u128 holds the sum
\* itself.  From the right; a letter takes two places.
LeiChecksum(chars) ==
    LET Add(v, acc) == [sum |-> (acc.sum + v * acc.power) % 97,
                        power |-> (acc.power * (IF v > 9 THEN 100 ELSE 10)) % 97]
        total == FoldRight(Add, [i \in 1..Len(chars) |-> ByteValue(chars[i])],
                           [sum |-> 0, power |-> 1])
    IN  98 - ((total.sum * 100) % 97)
ValidateLei(b) ==
    /\ \A i \in 1..18 : IsAlphanumeric(b[i])
    /\ IsDigit(b[19]) /\ IsDigit(b[20])
    /\ b[19] * 10 + b[20] = LeiChecksum(SubSeq(b, 1, 18))

\* BS BM GG GB GH KY VG, in capitals.
ForbiddenPrefixes == {<<11, 28>>, <<11, 22>>, <<16, 16>>, <<16, 11>>, <<16, 17>>, <<20, 34>>, <<31, 16>>}
ValidateFigi(b) ==
    /\ b[3] = 16
    /\ \A i \in 4..11 : IsAlphanumeric(b[i])
    /\ IsDigit(b[12])
    /\ SubSeq(b, 1, 2) \notin ForbiddenPrefixes
    /\ Known(b[1]) /\ Known(b[2])
    /\ CusipCheckDigit(SubSeq(b, 1, 11)) = b[12]

IsValid(id) ==
    CASE id.kind \in {"CUSIP", "CINS"} -> ValidateCusip(id.chars)
      [] id.kind = "ISIN" -> ValidateIsin(id.chars)
      [] id.kind = "LEI" -> ValidateLei(id.chars)
      [] id.kind = "FIGI" -> ValidateFigi(id.chars)

----------------------------------------------------------------------------
(* Typing.                                                                 *)
InitIdentifiers == ident \in Samples /\ typos = 0

Mistype(i, c) ==
    /\ typos < MaxTypos
    /\ ident' = [ident EXCEPT !.chars[i] = c]
    /\ typos' = typos + 1

TransposeTwo(i) ==
    /\ typos < MaxTypos
    /\ ident' = [ident EXCEPT !.chars = [@ EXCEPT ![i] = ident.chars[i + 1], ![i + 1] = ident.chars[i]]]
    /\ typos' = typos + 1

\* As in the samples: digits are mistaken for digits, now and then for a
\* character no identifier has.
IdentifiersNext ==
    \/ \E i \in 1..Len(ident.chars) :
          \E c \in IF IsDigit(ident.chars[i]) THEN 0..9 \cup {Strange} ELSE {Strange} : Mistype(i, c)
    \/ \E i \in 1..(Len(ident.chars) - 1) : TransposeTwo(i)

----------------------------------------------------------------------------
\* A valid identifier with one digit mistyped is not valid (is_valid), whatever
\* its kind and wherever the digit is, and an LEI with two neighbouring digits
\* swapped is not valid either.  A valid LEI is 1 modulo 97 as one number, the
\* check digits included (the standard's definition).
TyposDetected ==
    [][ident' # ident /\ IsValid(ident) =>
        LET old == ident.chars
            new == ident'.chars
            changed == {i \in 1..Len(old) : old[i] # new[i]}
        IN  /\ ident.kind = "LEI" =>
                 FoldLeft(LAMBDA n, d : (n * 10 + d) % 97, 0, IsinDigits(old)) = 1
            /\ (\E i \in changed : changed = {i} /\ IsDigit(old[i])) => ~IsValid(ident')
            /\ ident.kind = "LEI" /\ changed # {} /\ (\A i \in changed : IsDigit(old[i]))
               /\ (\E i \in changed : changed = {i, i + 1} /\ new[i] = old[i + 1])
                 => ~IsValid(ident')]_identVars
=============================================================================
