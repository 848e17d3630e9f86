----------------------------- MODULE NumberText -----------------------------
(***************************************************************************)
(* The conversions between numbers and text of src/src/util.c:             *)
(* malloc_strtoumax, u2s, d2s, o2s and x2s.  A text is a sequence of       *)
(* one-character strings; its terminating "NUL" is not part of it.         *)
(***************************************************************************)
EXTENDS Integers, SequencesExt

CONSTANTS
  IntBits,          \* the width of int
  MaxBits           \* the width of intmax_t, uintmax_t, long and pointers

ASSUME BitsAssumption == IntBits \in 2 .. MaxBits /\ MaxBits \in Nat

UINTMAX_MAX == 2 ^ MaxBits - 1

\* Conversions to an unsigned and to a signed type of the given width.
ToUnsigned(x, bits) == x % 2 ^ bits
ToSigned(x, bits) ==
  IF ToUnsigned(x, bits) >= 2 ^ (bits - 1)
  THEN ToUnsigned(x, bits) - 2 ^ bits ELSE ToUnsigned(x, bits)

LowerDigits == <<"0", "1", "2", "3", "4", "5", "6", "7", "8", "9",
                 "a", "b", "c", "d", "e", "f">>
UpperDigits == <<"0", "1", "2", "3", "4", "5", "6", "7", "8", "9",
                 "A", "B", "C", "D", "E", "F">>
Blanks == {" ", "\t", "\n", "VT", "\f", "\r"}

\* The character at place k of a C string.
At(s, k) == IF k <= Len(s) THEN s[k] ELSE "NUL"

\* What a character counts as a digit; 99 is no digit of any base.
DigitValue(c) ==
  LET Places == {d \in 1 .. 16 : c \in {LowerDigits[d], UpperDigits[d]}}
  IN  IF Places = {} THEN 99 ELSE (CHOOSE d \in Places : TRUE) - 1

-----------------------------------------------------------------------------
\* The first place of a text that is not blank.
NonBlank(s) == CHOOSE k \in 1 .. Len(s) + 1 :
                 At(s, k) \notin Blanks /\ \A j \in 1 .. k - 1 : s[j] \in Blanks

\* One digit more: overflow is seen by the sum being less than before.
TakeDigit(acc, c, b) ==
  LET ret == ToUnsigned(acc.ret * b + DigitValue(c), MaxBits)
  IN  IF acc.stop \/ DigitValue(c) >= b THEN [acc EXCEPT !.stop = TRUE]
      ELSE IF ret < acc.ret
           THEN [acc EXCEPT !.ret = UINTMAX_MAX, !.stop = TRUE, !.over = TRUE]
           ELSE [acc EXCEPT !.ret = ret, !.n = @ + 1]

TakeDigits(s, p, b) ==
  FoldLeft(LAMBDA acc, c : TakeDigit(acc, c, b),
           [ret |-> 0, n |-> 0, stop |-> FALSE, over |-> FALSE],
           SubSeq(s, p, Len(s)))

\* Mutant: x is enough, whatever follows it.
ExAhead(s, p) == At(s, p) = "0" /\ At(s, p + 1) \in {"x", "X"}

\* A hexadecimal number is ahead.
HexAhead(s, p) == /\ At(s, p) = "0" /\ At(s, p + 1) \in {"x", "X"}
                  /\ DigitValue(At(s, p + 2)) < 16

\* The base in effect and the place of the first digit; a 0 that no octal
\* digit and no x follows ends the number.
Prefix(s, p, base) ==
  LET zero  == At(s, p) = "0"
      octal == zero /\ DigitValue(At(s, p + 1)) < 8
      b     == CASE base # 0 -> base
                 [] base = 0 /\ octal -> 8
                 [] base = 0 /\ HexAhead(s, p) -> 16
                 [] OTHER -> 10
  IN  [b    |-> b,
       p    |-> CASE octal /\ b = 8 -> p + 1
                  [] HexAhead(s, p) /\ b = 16 -> p + 2
                  [] OTHER -> p,
       zero |-> zero /\ ~octal /\ At(s, p + 1) \notin {"x", "X"}]

\* malloc_strtoumax: the value, the characters read and the error.
Strtoumax(s, base) ==
  LET p0  == NonBlank(s)
      ns  == IF At(s, p0) \in {"-", "+"} THEN p0 + 1 ELSE p0
      pre == Prefix(s, ns, base)
      acc == TakeDigits(s, pre.p, pre.b)
      end == pre.p + acc.n - 1
  IN  IF base < 0 \/ base = 1 \/ base > 36
        THEN [ret |-> UINTMAX_MAX, end |-> 0, errno |-> "EINVAL"]
      ELSE IF pre.zero THEN [ret |-> 0, end |-> ns, errno |-> "none"]
      ELSE IF acc.over THEN [ret |-> UINTMAX_MAX, end |-> end, errno |-> "ERANGE"]
      ELSE IF end = ns - 1
        THEN [ret |-> UINTMAX_MAX, end |-> 0, errno |-> "EINVAL"]
      ELSE [ret |-> ToUnsigned(IF At(s, p0) = "-" THEN -acc.ret ELSE acc.ret, MaxBits),
            end |-> end, errno |-> "none"]

-----------------------------------------------------------------------------
\* u2s: digits from the last to the first.
U2s(x, base, uppercase) ==
  LET digits == IF uppercase THEN UpperDigits ELSE LowerDigits
      text[n \in 0 .. x] == IF n < base THEN <<digits[n + 1]>>
                            ELSE Append(text[n \div base], digits[(n % base) + 1])
  IN  text[x]

\* d2s: sign is what goes before a number that is not negative, "-" for
\* nothing.  The least number is its own negative.
D2s(x, sign) ==
  LET text == U2s(ToUnsigned(ToSigned(IF x < 0 THEN -x ELSE x, MaxBits), MaxBits),
                  10, FALSE)
  IN  IF x < 0 THEN <<"-">> \o text
      ELSE IF sign = "-" THEN text ELSE <<sign>> \o text

O2s(x, alt_form) ==
  LET text == U2s(x, 8, FALSE)
  IN  IF alt_form /\ Head(text) # "0" THEN <<"0">> \o text ELSE text

X2s(x, alt_form, uppercase) ==
  (IF ~alt_form THEN <<>> ELSE IF uppercase THEN <<"0", "X">> ELSE <<"0", "x">>)
    \o U2s(x, 16, uppercase)

-----------------------------------------------------------------------------
(***************************************************************************)
(* References, written from what the C library promises of strtoumax and   *)
(* of the conversions of printf, without the code's loops.                 *)
(***************************************************************************)
Value(ds, b) == FoldLeft(LAMBDA n, d : n * b + d, 0, ds)

\* The digits of x in base b: the only ones with its value and no 0 in front.
Numeral(x, b) ==
  CHOOSE ds \in UNION {[1 .. n -> 0 .. b - 1] : n \in 1 .. 3} :
    Value(ds, b) = x /\ (Len(ds) > 1 => ds[1] # 0)

HexPrefixed(s, p) == \E q \in {"x", "X"}, d \in 0 .. 15 :
                       \E c \in {LowerDigits[d + 1], UpperDigits[d + 1]} :
                         IsPrefix(<<"0", q, c>>, SubSeq(s, p, Len(s)))

\* How many digits of base b are at place p.
DigitsFrom(s, p, b) ==
  CHOOSE n \in 0 .. Len(s) :
    /\ \A k \in p .. p + n - 1 : DigitValue(At(s, k)) < b
    /\ DigitValue(At(s, p + n)) >= b

BaseOf(s, p, base) == IF base # 0 THEN base
                      ELSE IF HexPrefixed(s, p) THEN 16
                      ELSE IF At(s, p) = "0" THEN 8 ELSE 10

\* The number that follows place p: its value and where it ends.
NumberAt(s, p, base) ==
  LET b     == BaseOf(s, p, base)
      first == IF b = 16 /\ HexPrefixed(s, p) THEN p + 2 ELSE p
      n     == DigitsFrom(s, first, b)
  IN  [value |-> Value([k \in 1 .. n |-> DigitValue(s[first + k - 1])], b),
       n |-> n, end |-> first + n - 1]

FirstDigitPlace(s) ==
  LET p == NonBlank(s) IN IF At(s, p) \in {"-", "+"} THEN p + 1 ELSE p

\* Where the code reads otherwise: a 0 followed by a digit
\* above 7 is read as 0 and the rest is left.
StopsAtZero(s, base) ==
  LET p == FirstDigitPlace(s)
  IN  /\ At(s, p) = "0"
      /\ DigitValue(At(s, p + 1)) \in 8 .. BaseOf(s, p, base) - 1
=============================================================================
