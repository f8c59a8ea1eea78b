------------------------------ MODULE MCTrieLog ------------------------------
(***************************************************************************)
(* A small instance of TrieLog for TLC.                                    *)
(***************************************************************************)
EXTENDS TrieLog

CONSTANTS v1, v2

\* In the order of their bytes, the rows of the second key lie between the two
\* rows of the first.
TwoKeys == {[variant |-> 0, bytes |-> <<7>>], [variant |-> 0, bytes |-> <<7, 0, 0>>]}

TwoValues == {v1, v2}
=============================================================================
