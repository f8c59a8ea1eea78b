---------------------------- MODULE MCKeyValueDB ----------------------------
(***************************************************************************)
(* Small instances of KeyValueDB for TLC.                                  *)
(***************************************************************************)
EXTENDS KeyValueDB

CONSTANTS k1, v1, v2

OneKey == {k1}

OneValue == {v1}

TwoValues == {v1, v2}
=============================================================================
