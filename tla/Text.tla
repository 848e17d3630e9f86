-------------------------------- MODULE Text --------------------------------
(***************************************************************************)
(* malloc_vsnprintf and its callers malloc_snprintf and malloc_vcprintf    *)
(* (src/src/util.c), which the library writes its errors and its tests     *)
(* their failures with, and malloc_strtoumax, which reads widths.          *)
(*                                                                         *)
(* A format is scanned character by character; a directive goes through    *)
(* the labels of the code, flags, width, separator, precision, length and  *)
(* conversion, each taking its arguments off the list.                     *)
(***************************************************************************)
EXTENDS NumberText

CONSTANTS
  Items,            \* what formats are made of: see Item
  MaxItems,         \* bound: the items of a format
  Sizes,            \* bound: the sizes of the caller's buffer
  Spare,            \* bytes behind the buffer
  Numbers,          \* bound: the texts given to malloc_strtoumax
  Bases             \* and the bases

\* A buffer of size 0 would be written to at its place -1.
ASSUME SizesAssumption == Sizes \subseteq Nat \ {0} /\ Spare \in Nat

VARIABLES
  call,             \* the arguments of the call
  pc,               \* the label the scanner is at
  f,                \* format, counted from 1
  dir,              \* the locals of a directive
  ap,               \* the arguments not yet taken
  out,              \* str and i
  answer            \* what the caller gets

vars == <<call, pc, f, dir, ap, out, answer>>

NoDir == [alt_form |-> FALSE, left_justify |-> FALSE, plus_space |-> FALSE,
          plus_plus |-> FALSE, prec |-> -1, width |-> -1, len |-> "?"]

FormatOf(items) == FlattenSeq([k \in DOMAIN items |-> items[k].format])
ArgsOf(items) == FlattenSeq([k \in DOMAIN items |-> items[k].args])

Init ==
  /\ f = 1 /\ dir = NoDir /\ answer = [kind |-> "none"]
  /\ \/ \E n \in 0 .. MaxItems, size \in Sizes : \E items \in [1 .. n -> Items] :
          /\ call = [items |-> items, format |-> FormatOf(items), size |-> size]
          /\ pc = "text"
          /\ ap = ArgsOf(items)
          /\ out = [i |-> 0, str |-> [k \in 0 .. size + Spare - 1 |-> "old"]]
     \/ \E nptr \in Numbers, base \in Bases :
          /\ call = [nptr |-> nptr, base |-> base]
          /\ pc = "number"
          /\ ap = <<>>
          /\ out = [i |-> 0, str |-> <<>>]

\* malloc_vsnprintf is called, and not malloc_strtoumax.
Formatting == "items" \in DOMAIN call

Here == At(call.format, f)

\* The scanner goes on at a label, n characters further.
Goto(from, to, n) == pc = from /\ pc' = to /\ f' = f + n /\ UNCHANGED <<call, answer>>

-----------------------------------------------------------------------------
AppendC(o, c) ==
  [i |-> o.i + 1,
   str |-> IF o.i < call.size THEN [o.str EXCEPT ![o.i] = c] ELSE o.str]

\* Mutant: the copy is not cut at the end of the buffer.
AppendUncut(o, s, slen) ==
  [i |-> o.i + slen,
   str |-> [k \in DOMAIN o.str |->
              IF o.i < call.size /\ k \in o.i .. o.i + slen - 1
              THEN s[k - o.i + 1] ELSE o.str[k]]]

AppendS(o, s, slen) ==
  LET cpylen == IF slen <= call.size - o.i THEN slen ELSE call.size - o.i
  IN  [i |-> o.i + slen,
       str |-> [k \in DOMAIN o.str |->
                  IF o.i < call.size /\ k \in o.i .. o.i + cpylen - 1
                  THEN s[k - o.i + 1] ELSE o.str[k]]]

\* n times APPEND_C(' ') is a copy of n spaces.
Spaces(n) == [k \in 1 .. n |-> " "]

AppendPadded(o, s, slen) ==
  LET width == ToUnsigned(dir.width, MaxBits)       \* (size_t)width
      pad   == IF dir.width # -1 /\ slen < width THEN width - slen ELSE 0
  IN  IF dir.left_justify
      THEN AppendS(AppendS(o, s, slen), Spaces(pad), pad)
      ELSE AppendS(AppendS(o, Spaces(pad), pad), s, slen)

\* GET_ARG_NUMERIC: int for '?', all other lengths are MaxBits wide.
GetArg(signed) ==
  LET bits == IF dir.len = "?" THEN IntBits ELSE MaxBits
  IN  IF signed THEN ToSigned(Head(ap), bits) ELSE ToUnsigned(Head(ap), bits)

-----------------------------------------------------------------------------
Literal == /\ Here \notin {"NUL", "%"}
           /\ Goto("text", "text", 1)
           /\ out' = AppendC(out, Here)
           /\ UNCHANGED <<dir, ap>>

Directive == /\ Here = "%"
             /\ Goto("text", "flags", 1)
             /\ dir' = NoDir
             /\ UNCHANGED <<ap, out>>

FlagName == [c \in {"#", "-", " ", "+"} |->
               CASE c = "#" -> "alt_form"   [] c = "-" -> "left_justify"
                 [] c = " " -> "plus_space" [] c = "+" -> "plus_plus"]

\* A failed assertion, or not_reached: abort().
Abort == pc' = "aborted" /\ UNCHANGED <<call, f, dir, ap, out, answer>>

\* The assertions refuse a flag that is given twice.
Flag == \/ /\ Here \in DOMAIN FlagName /\ ~dir[FlagName[Here]]
           /\ Goto("flags", "flags", 1)
           /\ dir' = [dir EXCEPT ![FlagName[Here]] = TRUE]
           /\ UNCHANGED <<ap, out>>
        \/ /\ pc = "flags" /\ Here \in DOMAIN FlagName /\ dir[FlagName[Here]]
           /\ Abort
        \/ /\ Here \notin DOMAIN FlagName
           /\ Goto("flags", "width", 0)
           /\ UNCHANGED <<dir, ap, out>>

\* The number a width or a precision is given as, and its length.
Digits == Strtoumax(SubSeq(call.format, f, Len(call.format)), 10)

Width ==
  /\ \/ /\ Here = "*"
        /\ LET width == ToSigned(Head(ap), IntBits)
           IN  dir' = IF width < 0
                      THEN [dir EXCEPT !.left_justify = TRUE, !.width = -width]
                      ELSE [dir EXCEPT !.width = width]
        /\ ap' = Tail(ap)
        /\ Goto("width", "separator", 1)
     \/ /\ DigitValue(Here) < 10
        /\ Digits.errno # "ERANGE"
        /\ dir' = [dir EXCEPT !.width = ToSigned(Digits.ret, IntBits)]
        /\ Goto("width", "separator", Digits.end)
        /\ UNCHANGED ap
     \/ /\ Here # "*" /\ DigitValue(Here) >= 10
        /\ Goto("width", "separator", 0)
        /\ UNCHANGED <<dir, ap>>
  /\ UNCHANGED out

\* The assertions after malloc_strtoumax: the number does not fit.
TooLong == /\ pc \in {"width", "precision"} /\ DigitValue(Here) < 10
           /\ Digits.errno = "ERANGE"
           /\ Abort

Separator == /\ IF Here = "." THEN Goto("separator", "precision", 1)
                ELSE Goto("separator", "length", 0)
             /\ UNCHANGED <<dir, ap, out>>

PrecisionArg ==
  /\ Here = "*" /\ Goto("precision", "length", 1)
  /\ dir' = [dir EXCEPT !.prec = ToSigned(Head(ap), IntBits)]
  /\ ap' = Tail(ap)
  /\ UNCHANGED out

PrecisionDigits ==
  /\ IF DigitValue(Here) < 10
     THEN /\ Digits.errno # "ERANGE"
          /\ dir' = [dir EXCEPT !.prec = ToSigned(Digits.ret, IntBits)]
          /\ Goto("precision", "length", Digits.end)
     ELSE /\ Here # "*"
          /\ Goto("precision", "length", 0)
          /\ UNCHANGED dir
  /\ UNCHANGED <<ap, out>>

\* Mutant: the second l of ll is not passed over.
LengthShort ==
  /\ LET two == Here = "l" /\ At(call.format, f + 1) = "l"
     IN  IF Here \in {"l", "q", "j", "t", "z"}
         THEN /\ dir' = [dir EXCEPT !.len = IF two THEN "q" ELSE Here]
              /\ Goto("length", "convert", 1)
         ELSE Goto("length", "convert", 0) /\ UNCHANGED dir
  /\ UNCHANGED <<ap, out>>

\* ll is kept as q.
Length ==
  /\ LET two == Here = "l" /\ At(call.format, f + 1) = "l"
     IN  IF Here \in {"l", "q", "j", "t", "z"}
         THEN /\ dir' = [dir EXCEPT !.len = IF two THEN "q" ELSE Here]
              /\ Goto("length", "convert", IF two THEN 2 ELSE 1)
         ELSE Goto("length", "convert", 0) /\ UNCHANGED dir
  /\ UNCHANGED <<ap, out>>

Percent == /\ Here = "%"
           /\ Goto("convert", "text", 1)
           /\ out' = AppendC(out, "%")
           /\ UNCHANGED <<dir, ap>>

\* A conversion writes s and takes one argument.
Converted(s, slen) == /\ Goto("convert", "text", 1)
                      /\ out' = AppendPadded(out, s, slen)
                      /\ ap' = Tail(ap)
                      /\ UNCHANGED dir

Signed ==
  /\ Here \in {"d", "i"}
  /\ LET s == D2s(GetArg(TRUE), IF dir.plus_plus THEN "+"
                                ELSE IF dir.plus_space THEN " " ELSE "-")
     IN  Converted(s, Len(s))

\* There is no unsigned ptrdiff_t.
Unsigned ==
  /\ Here \in {"o", "u", "x", "X"} /\ dir.len # "t"
  /\ LET s == CASE Here = "o" -> O2s(GetArg(FALSE), dir.alt_form)
                [] Here = "u" -> U2s(GetArg(FALSE), 10, FALSE)
                [] OTHER -> X2s(GetArg(FALSE), dir.alt_form, Here = "X")
     IN  Converted(s, Len(s))

\* A long character or string is reported as not implemented, and written
\* as one that is not long.
Character == /\ Here = "c" /\ dir.len \in {"?", "l"}
             /\ Converted(<<Head(ap)>>, 1)

String == /\ Here = "s" /\ dir.len \in {"?", "l"}
          /\ Converted(Head(ap), IF dir.prec < 0 THEN Len(Head(ap)) ELSE dir.prec)

Pointer == /\ Here = "p"
           /\ LET s == X2s(ToUnsigned(Head(ap), MaxBits), TRUE, FALSE)
              IN  Converted(s, Len(s))

Unreachable ==
  /\ pc = "convert"
  /\ \/ Here \in {"o", "u", "x", "X"} /\ dir.len = "t"
     \/ Here \in {"c", "s"} /\ dir.len \notin {"?", "l"}
     \/ Here \notin {"%", "d", "i", "o", "u", "x", "X", "c", "s", "p"}
  /\ Abort

\* str[i], or the last byte of the buffer, becomes NUL.
Terminated == IF out.i < call.size THEN [out.str EXCEPT ![out.i] = "NUL"]
              ELSE [out.str EXCEPT ![call.size - 1] = "NUL"]

\* malloc_snprintf returns the length of the whole text.
Snprintf == /\ Here = "NUL"
            /\ pc = "text" /\ pc' = "returned"
            /\ out' = [out EXCEPT !.str = Terminated]
            /\ answer' = [kind |-> "ret", ret |-> out.i]
            /\ UNCHANGED <<call, f, dir, ap>>

\* The string a buffer holds.
CString(str) ==
  LET end == CHOOSE k \in DOMAIN str : str[k] = "NUL"
                                       /\ \A j \in 0 .. k - 1 : str[j] # "NUL"
  IN  [k \in 1 .. end |-> str[k - 1]]

\* malloc_vcprintf passes its buffer on: to write_cb if there is one, else
\* to je_malloc_message if the program has set it, else to wrtmessage.
Vcprintf ==
  /\ Here = "NUL"
  /\ pc = "text" /\ pc' = "returned"
  /\ out' = [out EXCEPT !.str = Terminated]
  /\ \E write_cb, hook \in BOOLEAN :
       answer' = [kind |-> "written", text |-> CString(Terminated),
                  to |-> CASE write_cb -> "write_cb"
                           [] ~write_cb /\ hook -> "je_malloc_message"
                           [] ~write_cb /\ ~hook -> "wrtmessage"]
  /\ UNCHANGED <<call, f, dir, ap>>

\* A call of malloc_strtoumax.
Number == /\ pc = "number" /\ pc' = "returned"
          /\ answer' = [kind |-> "number", number |-> Strtoumax(call.nptr, call.base)]
          /\ UNCHANGED <<call, f, dir, ap, out>>

Ended == pc \in {"returned", "aborted"} /\ UNCHANGED vars

Scan == \/ Literal \/ Directive \/ Flag \/ Width \/ TooLong
        \/ Separator \/ PrecisionArg \/ PrecisionDigits \/ Length
        \/ Percent \/ Signed \/ Unsigned \/ Character \/ String \/ Pointer
        \/ Unreachable

Next == \/ Formatting /\ (Scan \/ Snprintf \/ Vcprintf)
        \/ Number
        \/ Ended

Spec == Init /\ [][Next]_vars

-----------------------------------------------------------------------------
(***************************************************************************)
(* What a format means, written from what C says of printf: an item is a   *)
(* piece of a format, its arguments, and the text they stand for.          *)
(***************************************************************************)
Plain(c) == [format |-> <<c>>, args |-> <<>>, text |-> <<c>>, supported |-> TRUE]

\* A directive that the code aborts at.
Refused(chars, args) ==
  [format |-> <<"%">> \o chars, args |-> args, text |-> <<>>, supported |-> FALSE]

InWidth(text, left, n) ==
  IF n <= Len(text) THEN text
  ELSE IF left THEN text \o Spaces(n - Len(text)) ELSE Spaces(n - Len(text)) \o text

Digit(d, upper) == IF upper THEN UpperDigits[d + 1] ELSE LowerDigits[d + 1]
NumeralText(x, b, upper) ==
  LET ds == Numeral(x, b) IN [k \in DOMAIN ds |-> Digit(ds[k], upper)]

\* The text of a number: # puts 0x before a hexadecimal number, also before
\* 0, and a 0 before an octal one that has none.
NumberBody(flags, bits, conv, arg) ==
  LET x == ToSigned(arg, bits)
      u == ToUnsigned(arg, bits)
  IN  CASE conv \in {"d", "i"} ->
             (IF x < 0 THEN <<"-">> ELSE IF "+" \in flags THEN <<"+">>
              ELSE IF " " \in flags THEN <<" ">> ELSE <<>>)
               \o NumeralText(IF x < 0 THEN -x ELSE x, 10, FALSE)
        [] conv = "u" -> NumeralText(u, 10, FALSE)
        [] conv = "o" -> (IF "#" \in flags /\ u # 0 THEN <<"0">> ELSE <<>>)
                           \o NumeralText(u, 8, FALSE)
        [] conv = "x" -> (IF "#" \in flags THEN <<"0", "x">> ELSE <<>>)
                           \o NumeralText(u, 16, FALSE)
        [] conv = "X" -> (IF "#" \in flags THEN <<"0", "X">> ELSE <<>>)
                           \o NumeralText(u, 16, TRUE)
        [] conv = "p" -> <<"0", "x">> \o NumeralText(u, 16, FALSE)

\* A width: how it is written, its argument, and what it asks for.
NoWidth == [format |-> <<>>, args |-> <<>>, n |-> 0, left |-> FALSE]
WidthOf(n) == [NoWidth EXCEPT !.format = NumeralText(n, 10, FALSE), !.n = n]
StarWidth(n) == [format |-> <<"*">>, args |-> <<n>>,
                 n |-> IF n < 0 THEN -n ELSE n, left |-> n < 0]

Item(flags, w, prec, len, conv, args, body) ==
  [format |-> <<"%">> \o flags \o w.format \o prec \o len \o <<conv>>,
   args |-> w.args \o args,
   text |-> InWidth(body, w.left \/ "-" \in ToSet(flags), w.n),
   supported |-> TRUE]

NumberItem(flags, w, len, conv, arg) ==
  LET bits == IF len = <<>> /\ conv # "p" THEN IntBits ELSE MaxBits
  IN  Item(flags, w, <<>>, len, conv, <<arg>>,
           NumberBody(ToSet(flags), bits, conv, arg))

\* A string with the precision n, at most its length, or without one.
StringItem(flags, w, s, prec, args, n) ==
  Item(flags, w, prec, <<>>, "s", args \o <<s>>, SubSeq(s, 1, n))

\* The whole text of the first n items.
Expansion(n) == FlattenSeq([k \in 1 .. n |-> call.items[k].text])
Least(a, b) == IF a <= b THEN a ELSE b

(***************************************************************************)
(* The buffer gets as much of the text as it has room for and a NUL, not a *)
(* byte behind the NUL is touched, and the answer is the length of the     *)
(* whole text, or the text passed on to the one that writes it.            *)
(***************************************************************************)
Expanded ==
  Formatting /\ pc = "returned" =>
    LET text == Expansion(Len(call.items))
        kept == Least(Len(text), call.size - 1)
    IN  /\ out.str = [k \in DOMAIN out.str |->
                        IF k < kept THEN text[k + 1]
                        ELSE IF k = kept THEN "NUL" ELSE "old"]
        /\ CASE answer.kind = "ret" -> answer.ret = Len(text)
             [] answer.kind = "written" -> answer.text = SubSeq(text, 1, kept)

(***************************************************************************)
(* Format, arguments and output stay in step: whenever the scanner is      *)
(* between two items, it has written the texts of those before it and left *)
(* the arguments of those after it; it never reads behind the NUL of the   *)
(* format, and aborts at an item it does not support, only there.          *)
(***************************************************************************)
ScanInStep ==
  Formatting =>
    /\ f <= Len(call.format) + 1
    /\ pc \in {"text", "returned"} =>
         \E n \in 0 .. Len(call.items) :
           /\ \A k \in 1 .. n : call.items[k].supported
           /\ f = Len(FormatOf(SubSeq(call.items, 1, n))) + 1
           /\ ap = ArgsOf(SubSeq(call.items, n + 1, Len(call.items)))
           /\ out.i = Len(Expansion(n))
    /\ pc = "aborted" => \E k \in DOMAIN call.items : ~call.items[k].supported

(***************************************************************************)
(* malloc_strtoumax reads what strtoumax reads: blanks, a sign, 0x where   *)
(* it belongs, and all digits of the base, and reports where it stopped.   *)
(* Two cases are left out, in which it does not: a number too long for a   *)
(* uintmax_t, and 0 followed by a digit above 7.                           *)
(***************************************************************************)
NumbersRead ==
  answer.kind = "number" =>
    LET s == call.nptr
        p == FirstDigitPlace(s)
        number == NumberAt(s, p, call.base)
        neg == p > 1 /\ At(s, p - 1) = "-"
    IN  IF call.base = 1 \/ number.n = 0
        THEN answer.number = [ret |-> UINTMAX_MAX, end |-> 0, errno |-> "EINVAL"]
        ELSE number.value <= UINTMAX_MAX /\ ~StopsAtZero(s, call.base) =>
               answer.number =
                 [ret |-> ToUnsigned(IF neg THEN -number.value ELSE number.value, MaxBits),
                  end |-> number.end, errno |-> "none"]
=============================================================================
