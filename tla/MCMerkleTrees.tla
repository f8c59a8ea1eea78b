---------------------------- MODULE MCMerkleTrees ----------------------------
(***************************************************************************)
(* Small instances of MerkleTrees for TLC.  A byte has two bits, so that a *)
(* path of one bit is padded, and a key of three bits takes two bytes.     *)
(***************************************************************************)
EXTENDS MerkleTrees

OneValue == {<<5>>}

\* The identifier of the examples, and another one, whose bytes are also those
\* of a path of two bits.
EmptyAndOther == {<< >>, <<2, 3>>}

\* Two keys below the same child of the root, and one below the other: an edge
\* that is not the root is split, and merged again.
KeysOfTrees == [i \in Identifiers |->
    {<<0, 0, 0>>, <<0, 1, 1>>} \cup IF i = <<2, 3>> THEN {<<1, 0, 1>>} ELSE {}]

\* The same with keys of one byte: the node at <<0>> is an edge with one of the
\* first two, and a binary node with both.
ShortKeys == [i \in Identifiers |->
    {<<0, 0>>, <<0, 1>>} \cup IF i = <<2, 3>> THEN {<<1, 0>>} ELSE {}]
=============================================================================
