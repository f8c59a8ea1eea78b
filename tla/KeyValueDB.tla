----------------------------- MODULE KeyValueDB -----------------------------
(***************************************************************************)
(* Commits, trie logs, snapshots and transactions: BonsaiStorage::commit   *)
(* (src/lib.rs), MerkleTrees::commit (src/trie/trees.rs), KeyValueDB       *)
(* (src/key_value_db.rs), ChangeBatch (src/changes.rs) and the snapshots   *)
(* of the databases (src/databases/).                                      *)
(*                                                                         *)
(* A commit is four writes, each atomic, with a possible error or crash    *)
(* between any two: the batch of the tries' updates, the rows of the trie  *)
(* log, the removal of the log that falls out of the window, and the       *)
(* snapshot.  What the tries store is abstract here: a key of DBKey is any *)
(* key of the Trie and Flat columns.                                       *)
(***************************************************************************)
EXTENDS Integers, FiniteSets

CONSTANTS
    DBKey, DBValue,
    None,               \* Option::None
    Keep,               \* a key a batch does not touch
    MaxId,              \* bound: the largest commit id
    MaxSavedTrieLogs,   \* KeyValueDBConfig::max_saved_trie_logs, or None
    SnapshotInterval,   \* KeyValueDBConfig::snapshot_interval
    BackendMaxSnapshots,\* RocksDBConfig::max_saved_snapshots; None: HashMapDb
    IdGaps,             \* TRUE if commit ids may skip values
    Failures            \* TRUE if writes may fail and the process may crash

ASSUME MaxIdAssumption == MaxId \in Nat
ASSUME LimitsAssumption ==
    /\ MaxSavedTrieLogs \in Nat \/ MaxSavedTrieLogs = None
    /\ BackendMaxSnapshots \in Nat \/ BackendMaxSnapshots = None
    /\ SnapshotInterval \in Nat \ {0}
ASSUME NoneAssumption ==
    /\ None \notin DBValue /\ None \notin Nat
    /\ None \notin [DBKey -> DBValue \cup {None}]
ASSUME KeepAssumption == Keep \notin DBValue \cup {None}
ASSUME SwitchesAssumption == IdGaps \in BOOLEAN /\ Failures \in BOOLEAN

VARIABLES
    db,               \* the Trie and Flat columns
    trie_log,         \* the TrieLog column: the rows of each id
    current_changes,  \* ChangeStore::current_changes
    snapshots,        \* the database's snapshots by id, in memory
    pc,               \* the next write of the running commit, or "Idle"
    last_id,          \* the id of the last commit call, -1 before the first
    before, after,    \* ghosts: the database around the batch of each commit
    logged,           \* ghost: ids whose log rows were written
    ok,               \* ghost: ids whose commit returned Ok
    torn,             \* ghost: ids whose batch was written but not their log
    opened            \* ghost: last_id when the process was started

ghosts == <<before, after, logged, ok, torn, opened>>
vars == <<db, trie_log, current_changes, snapshots, pc, last_id, ghosts>>

Id == 0..MaxId

State == [DBKey -> DBValue \cup {None}]

Change == [old_value : DBValue \cup {None}, new_value : DBValue \cup {None}]

\* No entry for a key, and no row in a log.  An entry without an old and a new
\* value (the removal of an absent key) behaves the same everywhere.
NoChange == [old_value |-> None, new_value |-> None]

NoChanges == [k \in DBKey |-> NoChange]

Empty == [k \in DBKey |-> None]

Init ==
    /\ db = Empty
    /\ trie_log = [i \in Id |-> NoChanges]
    /\ current_changes = NoChanges
    /\ snapshots = [i \in Id |-> None]
    /\ pc = "Idle" /\ last_id = -1
    /\ before = [i \in Id |-> Empty] /\ after = [i \in Id |-> Empty]
    /\ logged = {} /\ ok = {} /\ torn = {} /\ opened = -1

TypeOK ==
    /\ db \in State
    /\ trie_log \in [Id -> [DBKey -> Change]]
    /\ current_changes \in [DBKey -> Change]
    /\ snapshots \in [Id -> State \cup {None}]
    /\ pc \in {"Idle", "Log", "Prune", "Snapshot"}
    /\ last_id \in Id \cup {-1} /\ (pc # "Idle" => last_id \in Id)
    /\ before \in [Id -> State] /\ after \in [Id -> State]
    /\ logged \subseteq Id /\ ok \subseteq Id /\ torn \subseteq Id
    /\ opened \in Id \cup {-1}

(***************************************************************************)
(* MerkleTrees::commit: the updates of the trees go into one batch, each   *)
(* recorded in current_changes with the value it replaces.                 *)
(***************************************************************************)
\* Mutant of InsertInPlace: the first new value wins.
InsertInPlaceFirst(entry, change) ==
    [old_value |-> IF entry.old_value = None THEN change.old_value ELSE entry.old_value,
     new_value |-> IF entry.new_value = None THEN change.new_value ELSE entry.new_value]

\* ChangeBatch::insert_in_place
InsertInPlace(entry, change) ==
    [old_value |-> IF entry.old_value = None THEN change.old_value ELSE entry.old_value,
     new_value |-> change.new_value]

\* KeyValueDB::insert and ::remove, for the keys of a batch.
Record(keys, batch) ==
    current_changes' =
        [k \in DBKey |->
            IF k \in keys
            THEN InsertInPlace(current_changes[k],
                               [old_value |-> db[k], new_value |-> batch[k]])
            ELSE current_changes[k]]

Batches == [DBKey -> DBValue \cup {None, Keep}]

Touched(batch) == {k \in DBKey : batch[k] # Keep}

Apply(batch, s) == [k \in DBKey |-> IF batch[k] = Keep THEN s[k] ELSE batch[k]]

\* Ids are strictly increasing; a builder hands out consecutive ones.
StartCommit(id) ==
    /\ pc = "Idle"
    /\ IF IdGaps THEN id > last_id ELSE id = last_id + 1
    /\ last_id' = id

CommitTries(id, batch) ==
    /\ StartCommit(id)
    /\ Record(Touched(batch), batch)
    /\ db' = Apply(batch, db)
    /\ pc' = "Log"
    /\ before' = [before EXCEPT ![id] = db]
    /\ after' = [after EXCEPT ![id] = db']
    /\ UNCHANGED <<trie_log, snapshots, logged, ok, torn, opened>>

\* Mutant of CommitTriesFails: values written one by one, outside the batch.
CommitTriesFailsUnbatched(id, batch, recorded) ==
    /\ Failures
    /\ StartCommit(id)
    /\ db' = [k \in DBKey |-> IF k \in recorded THEN batch[k] ELSE db[k]]
    /\ UNCHANGED <<current_changes, trie_log, snapshots, pc, ghosts>>

\* An error on the way, or from write_batch: what was recorded so far stays in
\* current_changes although the batch is dropped.
CommitTriesFails(id, batch, recorded) ==
    /\ Failures
    /\ StartCommit(id)
    /\ Record(recorded, batch)
    /\ UNCHANGED <<db, trie_log, snapshots, pc, ghosts>>

(***************************************************************************)
(* KeyValueDB::commit: current_changes are taken and written as log rows,  *)
(* unless logs are disabled; then the log that leaves the window goes.     *)
(***************************************************************************)
\* ChangeBatch::serialize: no rows for a key that did not change.
Serialize(change) ==
    IF change.old_value = change.new_value THEN NoChange ELSE change

LogsDisabled == MaxSavedTrieLogs = 0

CommitLog ==
    /\ pc = "Log"
    /\ current_changes' = NoChanges
    /\ IF LogsDisabled
       THEN pc' = "Snapshot" /\ UNCHANGED <<trie_log, logged>>
       ELSE /\ trie_log' = [trie_log EXCEPT ![last_id] =
                              [k \in DBKey |-> Serialize(current_changes[k])]]
            /\ logged' = logged \cup {last_id}
            /\ pc' = "Prune"
    /\ UNCHANGED <<db, snapshots, last_id, before, after, ok, torn, opened>>

CommitLogFails ==
    /\ Failures /\ ~LogsDisabled
    /\ pc = "Log"
    /\ current_changes' = NoChanges
    /\ pc' = "Idle"
    /\ torn' = torn \cup {last_id}
    /\ UNCHANGED <<db, trie_log, snapshots, last_id, before, after, logged, ok, opened>>

\* Mutants of Expired: the window is one too short, or one too long.
ExpiredEarly == IF MaxSavedTrieLogs = None THEN {} ELSE {last_id - MaxSavedTrieLogs + 1} \cap Id

ExpiredLate == IF MaxSavedTrieLogs = None THEN {} ELSE {last_id - MaxSavedTrieLogs - 1} \cap Id

\* id.checked_sub(max_saved_trie_logs): the one log to remove, if any.
Expired == IF MaxSavedTrieLogs = None THEN {} ELSE {last_id - MaxSavedTrieLogs} \cap Id

PruneLog ==
    /\ pc = "Prune"
    /\ trie_log' = [i \in Id |-> IF i \in Expired THEN NoChanges ELSE trie_log[i]]
    /\ pc' = "Snapshot"
    /\ UNCHANGED <<db, current_changes, snapshots, last_id, ghosts>>

PruneLogFails ==
    /\ Failures
    /\ pc = "Prune"
    /\ pc' = "Idle"
    /\ UNCHANGED <<db, trie_log, current_changes, snapshots, last_id, ghosts>>

(***************************************************************************)
(* create_snapshot, and the end of the commit.                             *)
(***************************************************************************)
Saved(snaps) == {i \in Id : snaps[i] # None}

\* Mutant of KeepNewest: a snapshot too many is popped.
KeepFewer(snaps) ==
    [i \in Id |->
        IF /\ BackendMaxSnapshots # None
           /\ Cardinality({j \in Saved(snaps) : j >= i}) >= BackendMaxSnapshots
        THEN None ELSE snaps[i]]

\* RocksDB pops its first snapshots while it has more than it may keep.
KeepNewest(snaps) ==
    [i \in Id |->
        IF /\ BackendMaxSnapshots # None
           /\ Cardinality({j \in Saved(snaps) : j >= i}) > BackendMaxSnapshots
        THEN None ELSE snaps[i]]

SnapshotDue == last_id % SnapshotInterval = 0

CreateSnapshot ==
    /\ pc = "Snapshot"
    /\ snapshots' = IF SnapshotDue THEN KeepNewest([snapshots EXCEPT ![last_id] = db])
                                   ELSE snapshots
    /\ pc' = "Idle"
    /\ ok' = ok \cup {last_id}
    /\ UNCHANGED <<db, trie_log, current_changes, last_id, before, after, logged, torn,
                   opened>>

(***************************************************************************)
(* The process stops and the database is opened again: the columns are on  *)
(* disk, current_changes and the snapshots are not.                        *)
(***************************************************************************)
Crash ==
    /\ Failures
    /\ current_changes' = NoChanges
    /\ snapshots' = [i \in Id |-> None]
    /\ torn' = IF pc = "Log" THEN torn \cup {last_id} ELSE torn
    /\ opened' = last_id
    /\ pc' = "Idle"
    /\ UNCHANGED <<db, trie_log, last_id, before, after, logged, ok>>

Next ==
    \/ \E id \in Id, batch \in Batches :
          \/ CommitTries(id, batch)
          \/ \E recorded \in SUBSET Touched(batch) : CommitTriesFails(id, batch, recorded)
    \/ CommitLog \/ CommitLogFails
    \/ PruneLog \/ PruneLogFails
    \/ CreateSnapshot
    \/ Crash

Spec == Init /\ [][Next]_vars

(***************************************************************************)
(* Reading the logs                                                        *)
(***************************************************************************)
\* A log applied backwards (get_transaction; revert_to did the same).  TrieLog
\* shows that this is what reading its rows amounts to, in any order.
UndoKey(change, value) ==
    IF change.old_value # None THEN change.old_value
    ELSE IF change.new_value # None THEN None ELSE value

Undo(log, s) == [k \in DBKey |-> UndoKey(log[k], s[k])]

\* The state after undoing every log newer than id, newest first.
RevertTo(id) ==
    LET state[i \in Id] == IF i >= last_id THEN db
                           ELSE Undo(trie_log[i + 1], state[i + 1])
    IN  state[id]

\* transaction(id): the first snapshot of `range(..&id)`, the oldest one.
OldestSnapshot(id) ==
    CHOOSE i \in Saved(snapshots) : \A j \in Saved(snapshots) : i <= j

HasTransaction(id) == \E i \in Saved(snapshots) : i < id

\* get_transaction: the logs from the snapshot's id up to id - 1 are applied
\* backwards on top of the snapshot; the last one to write a key wins.
Transaction(id) ==
    LET snap == OldestSnapshot(id)
        state[i \in snap..id] == IF i = snap THEN snapshots[snap]
                                 ELSE Undo(trie_log[i - 1], state[i - 1])
    IN  state[id]

(***************************************************************************)
(* Properties                                                              *)
(***************************************************************************)
\* The log of id is within the window max_saved_trie_logs keeps.
InWindow(id) == MaxSavedTrieLogs = None \/ id + MaxSavedTrieLogs > last_id

\* What current_changes hold: between commits, leftovers of failed commits
\* whose old values are still those of the database; when the log is about to
\* be written, what it takes to undo the batch.
PendingChangesMatch ==
    /\ pc = "Idle" =>
          \A k \in DBKey : \/ current_changes[k] = NoChange
                           \/ current_changes[k].old_value = db[k]
    /\ pc = "Log" =>
          \A k \in DBKey :
              UndoKey(Serialize(current_changes[k]), db[k]) = before[last_id][k]
    /\ pc \in {"Prune", "Snapshot"} => current_changes = NoChanges

\* Logs belong to past ids, the running commit's batch is in the database.
LogsArePast ==
    /\ \A id \in logged : id <= last_id
    /\ pc = "Log" => last_id \notin logged /\ after[last_id] = db

\* The log of every commit in the window undoes exactly that commit, even if
\* an earlier commit failed and left its changes in current_changes, and
\* whatever other logs were pruned.
LogUndoes ==
    \A id \in logged : InWindow(id) => Undo(trie_log[id], after[id]) = before[id]

\* The inductive invariant behind LogUndoes.
LogInv == TypeOK /\ PendingChangesMatch /\ LogsArePast /\ LogUndoes

\* Undoing the logs from the newest on leads back to any commit of the window
\* that returned Ok, as long as no batch since was written without its log.
RevertWindow ==
    pc = "Idle" =>
        \A id \in ok : InWindow(id + 1) /\ (\A t \in torn : t < id) =>
                           RevertTo(id) = after[id]

\* README: "Trie Logs that allow efficiently reverting the collection state
\* back to a given commit".
RevertReachesCommit ==
    pc = "Idle" => \A id \in ok : InWindow(id + 1) => RevertTo(id) = after[id]

\* A log is gone for good once the commit that comes max_saved_trie_logs ids
\* later has returned Ok.  Only if that commit failed, stopped half way or was
\* skipped, is it left behind, as no later commit looks for it.
LogsExpire ==
    MaxSavedTrieLogs # None =>
        \A id \in Id : trie_log[id] # NoChanges => id + MaxSavedTrieLogs \notin ok

\* lib.rs: "Maximal number of trie logs saved."  So there are no more logs than
\* that after a commit if ids are consecutive and nothing fails.
LogBound ==
    pc = "Idle" /\ MaxSavedTrieLogs # None =>
        Cardinality({id \in Id : trie_log[id] # NoChanges}) <= MaxSavedTrieLogs

\* The newest snapshots that were due since the process was started are kept,
\* up to the backend's limit, whatever commits failed in between, and each is
\* the database as of its commit.
SnapshotsKept ==
    LET due == {id \in ok : id > opened /\ id % SnapshotInterval = 0}
    IN  pc = "Idle" =>
          /\ Saved(snapshots) =
                {id \in due : \/ BackendMaxSnapshots = None
                              \/ Cardinality({j \in due : j >= id}) <= BackendMaxSnapshots}
          /\ \A id \in Saved(snapshots) : snapshots[id] = after[id]

\* lib.rs: "Get a transactional state of the trie at a specific commit ID.
\* Transactional state allow you to fetch a point-in-time state of the trie."
TransactionIsPointInTime ==
    pc = "Idle" => \A id \in ok : HasTransaction(id) => Transaction(id) = after[id]
=============================================================================
