---------------------------- MODULE MCMultiProof ----------------------------
(***************************************************************************)
(* A small instance of MultiProof for TLC.                                 *)
(***************************************************************************)
EXTENDS MultiProof

\* Height 4: two sibling leaves and a key that leaves them in the middle of
\* an edge.
DeepKeys == {<<0, 0, 0, 0>>, <<0, 0, 1, 0>>, <<0, 0, 1, 1>>}

\* The same, a key that diverges from the last edge, and one too short.
DeepAskedKeys == DeepKeys \cup {<<0, 0, 0, 1>>, <<0, 0>>}

OneValue == {<<5>>}
=============================================================================
