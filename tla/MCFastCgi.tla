----------------------------- MODULE MCFastCgi -----------------------------
(* An instance of FastCgi for TLC: four for 2^16, and lengths on both      *)
(* sides of every limit.                                                   *)
EXTENDS FastCgi

MCPair == { [name |-> 1, value |-> 0], [name |-> 3, value |-> 0] }
MCStdinLength == {4, 6}

\* php's output: nothing, part of a page, one whose first line is followed by
\* another and one whose first line ends the head.
MCOutput == { <<>>, <<1>>, <<CR, LF, 2>>, <<2, CR, LF, CR, LF, 1>> }
MCError == { <<4>> }

\* Nothing, and a body that RecvRecord takes for the header of END_REQUEST, and in
\* which the next header is not where it seems.
MCForeign == { <<>>, <<END>> }
MCPadding == {0, 1}
=============================================================================
