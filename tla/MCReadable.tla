----------------------------- MODULE MCReadable -----------------------------
EXTENDS Readable

\* An empty line, lines ended by "\r\n" and by "\n", a lone "\r", and a line that
\* exceeds a capacity of 4.
Lines == <<"lf", "other", "cr", "lf", "cr", "lf", "other", "cr", "other", "other",
           "other", "lf", "other">>
=============================================================================
