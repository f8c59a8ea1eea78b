------------------------------- MODULE LeafMap -------------------------------
(***************************************************************************)
(* What a tree promises, without nodes, hashes or a database: a map from   *)
(* keys to values that a call changes at the one key it was given, and a   *)
(* committed copy of it that only a commit changes, to exactly what was    *)
(* written (`insert`, `remove` and `commit` of src/lib.rs).                *)
(***************************************************************************)
CONSTANTS
    Key, Value, None,
    MayRefuse    \* TRUE if a write may return an error

VARIABLES
    committed,   \* the map as of the last commit
    pending,     \* the map with the writes made since
    call         \* the call under way

map_vars == <<committed, pending, call>>

NoCall == [op |-> "none"]

Calls ==
    [op : {"write"}, key : Key, value : Value \cup {None}] \cup {[op |-> "commit"]}

Init ==
    /\ committed = [k \in Key |-> None]
    /\ pending = committed
    /\ call = NoCall

\* A call, unless it is one that returns at once with nothing to do.
Begin ==
    /\ call = NoCall
    /\ call' \in Calls
    /\ UNCHANGED <<committed, pending>>

\* insert, or remove with the value None.
Write ==
    /\ call.op = "write"
    /\ pending' = [pending EXCEPT ![call.key] = call.value]
    /\ call' = NoCall
    /\ UNCHANGED committed

\* The write returns an error: nothing has changed.
Refuse ==
    /\ MayRefuse
    /\ call.op = "write"
    /\ call' = NoCall
    /\ UNCHANGED <<committed, pending>>

Commit ==
    /\ call.op = "commit"
    /\ committed' = pending
    /\ call' = NoCall
    /\ UNCHANGED pending

\* The writes since the last commit are given up.
Forget ==
    /\ pending' = committed
    /\ call' = NoCall
    /\ UNCHANGED committed

CommitRefused == call.op = "commit" /\ Forget

\* What the calls do, if the program is not restarted meanwhile.
CallStep == [Begin \/ Write \/ Refuse \/ Commit \/ CommitRefused]_map_vars

Next == Begin \/ Write \/ Refuse \/ Commit \/ Forget

Spec == Init /\ [][Next]_map_vars
=============================================================================
