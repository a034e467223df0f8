--------------------------- MODULE MCHttpHeaders ---------------------------
EXTENDS HttpHeaders

\* Header lines with spaces around the value and inside it, with an empty value and with
\* a "\r" in it, ended by "\r\n" and by "\n".
Lines ==
  {<<"token", "colon", "space", "token", "space", "token", "space", "cr", "lf">>,
   <<"token", "token", "colon", "token", "cr", "lf">>,
   <<"token", "colon", "space", "cr", "lf">>,
   <<"token", "colon", "lf">>,
   <<"token", "colon", "token", "cr", "token", "lf">>}

\* Messages of two and of three header lines, and what follows the empty line; and of one
\* line more than the parser allows.
TwoLines == {a \o b \o <<"cr", "lf", "token">> : a, b \in Lines}
ThreeLines == {a \o b \o c \o <<"lf">> : a, b, c \in Lines}
FourLines == {a \o a \o b \o b \o <<"lf">> : a, b \in Lines}

Various == TwoLines \cup ThreeLines \cup FourLines
=============================================================================
