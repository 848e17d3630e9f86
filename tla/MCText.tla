------------------------------- MODULE MCText -------------------------------
(* Formats of two items: every conversion with the flags, widths and       *)
(* lengths that change it, numbers at the ends of their ranges, and the    *)
(* directives the code refuses.  Texts of four characters for strtoumax.   *)
EXTENDS Text
MCInts == {0, 7, 8, 15}
MCLongs == {0, 9, 31, 32, 63}
MCItems ==
  {Plain("a"), [Plain("%") EXCEPT !.format = <<"%", "%">>]}
  \cup {NumberItem(flags, w, <<>>, "d", x) :
         flags \in {<<>>, <<"-">>, <<"+">>, <<" ">>},
         w \in {NoWidth, WidthOf(4), StarWidth(-3)}, x \in MCInts}
  \cup {NumberItem(<<>>, NoWidth, len, conv, x) :
         len \in {<<"l">>, <<"l", "l">>, <<"z">>}, conv \in {"i", "u", "x"}, x \in MCLongs}
  \cup {NumberItem(<<>>, NoWidth, <<"t">>, "d", 32), NumberItem(<<>>, NoWidth, <<>>, "p", 42)}
  \cup {NumberItem(<<"#">>, w, <<>>, conv, x) :
         w \in {NoWidth, StarWidth(5)}, conv \in {"o", "x", "X"}, x \in MCInts}
  \cup {Item(<<>>, w, <<>>, <<>>, "c", <<"k">>, <<"k">>) : w \in {NoWidth, WidthOf(2)}}
  \cup {StringItem(<<>>, w, <<"u", "v">>, <<>>, <<>>, 2) :
         w \in {NoWidth, WidthOf(3), StarWidth(-4)}}
  \cup {StringItem(<<>>, NoWidth, <<"u", "v">>, <<".", "*">>, <<1>>, 1),
        StringItem(<<>>, NoWidth, <<"u", "v">>, <<".", "*">>, <<-1>>, 2),
        StringItem(<<>>, WidthOf(3), <<"u", "v">>, <<".", "1">>, <<>>, 1),
        StringItem(<<>>, NoWidth, <<"u", "v">>, <<".">>, <<>>, 2)}
  \cup {Refused(<<"-", "-", "d">>, <<1>>), Refused(<<"t", "u">>, <<1>>),
        Refused(<<"z", "s">>, <<"u">>), Refused(<<"y">>, <<>>),
        Refused(<<"7", "0", "d">>, <<1>>), Refused(<<".", "7", "0", "s">>, <<"u">>)}
MCChars == {" ", "-", "0", "1", "9", "x", "a", "y"}
MCNumbers == UNION {[1 .. n -> MCChars] : n \in 0 .. 4}
=============================================================================
