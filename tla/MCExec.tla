------------------------------- MODULE MCExec -------------------------------
EXTENDS Exec

Pieces == {<<"char">>, <<"newline">>, <<"newline", "newline">>, <<"newline", "char">>}

=============================================================================
