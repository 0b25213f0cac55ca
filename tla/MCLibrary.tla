------------------------------ MODULE MCLibrary -------------------------------
EXTENDS Library

(* One character at a time, more text than the screen holds, and a text    *)
(* that goes back over the start of a row.                                 *)
MCTexts ==
  {<<"a">>, <<"LF">>, <<"CR">>, <<"TAB">>, <<"BS">>,
   [i \in 1 .. (width * height + 2) |-> IF i % 3 = 0 THEN " " ELSE "a"],
   <<"a", "LF", "BS", "BS", "a">>}

(* Every number in every numeric conversion; strings, characters, percent  *)
(* signs, an unknown conversion, a percent sign at the end, alone and      *)
(* behind each other.                                                      *)
Item(conv, arg) == <<conv, arg>>
Numbers == {Item(c, n) : c \in {"d", "u", "x", "X", "o", "p"}, n \in 0 .. (UINT_SIZE - 1)}
Others == {Item("lit", "z"), Item("c", "y"), Item("s", <<>>), Item("s", <<"v", "w">>),
           Item("s", NULLSTRING), Item("%", NUL_CHAR), Item("q", NUL_CHAR), Item("i", UINT_SIZE \div 2)}
MCFormats ==
  {<<>>, <<Item("end", NUL_CHAR)>>} \cup {<<i>> : i \in Numbers \cup Others}
    \cup {<<i, j>> : i, j \in Others}
    \cup {<<i, Item("d", UINT_SIZE - 1), Item("end", NUL_CHAR)>> : i \in Others}

MCMessage == {<<"a">>, <<"b", "c">>, <<"a", "b", "c", "d">>}
MCPanic  == <<"p">>
MCHalted == <<"h", "a">>

=============================================================================
