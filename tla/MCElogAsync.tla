---------------------------- MODULE MCElogAsync -----------------------------
EXTENDS ElogAsync

\* A log with the newline sign, and a raw one without it.
MCLogs == {<<"x", "r", "n">>, <<"y">>}
MCNewline == <<"r", "n">>
=============================================================================
