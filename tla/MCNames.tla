------------------------------ MODULE MCNames ------------------------------
EXTENDS Names, TLC

CONSTANTS c1, c2, n1, n2

\* n2 is a name with a "-", and what follows the last one is n1.
MCLastPart == n2 :> n1

\* Handler goroutines are interchangeable.
MCSymmetry == Permutations(Request)
=============================================================================
