----------------------------- MODULE MCArchives -----------------------------
EXTENDS Archives, TLC

CONSTANTS a1, a2, a3, a4, f1, f2

\* Two archives of the same file, one of two files, and a torn one.
MCContent == a1 :> {f1} @@ a2 :> {f1} @@ a3 :> {f1, f2} @@ a4 :> {f2}
MCBase == f1 :> "x" @@ f2 :> "y"
=============================================================================
