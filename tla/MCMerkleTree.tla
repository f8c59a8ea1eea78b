---------------------------- MODULE MCMerkleTree ----------------------------
(***************************************************************************)
(* Small instances of MerkleTree for TLC.                                  *)
(***************************************************************************)
EXTENDS MerkleTree

\* Height 2: all four keys.
AllKeys == Key

\* Height 4: two sibling leaves, a key that leaves them in the middle of an
\* edge and one that shares nothing with them.  Edges of every length are
\* split, extended upwards and merged downwards.
FourKeys == {<<0, 0, 0, 0>>, <<0, 0, 1, 0>>, <<0, 0, 1, 1>>, <<1, 0, 1, 0>>}

\* Height 3, the same in small.
ThreeKeys == {<<0, 0, 0>>, <<0, 0, 1>>, <<1, 0, 0>>}

OneValue == {<<5>>}

TwoValues == {<<5>>, <<6>>}
=============================================================================
