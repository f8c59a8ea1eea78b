------------------------------- MODULE TrieLog -------------------------------
(***************************************************************************)
(* Reading the trie logs back: KeyValueDB::get_transaction                 *)
(* (src/key_value_db.rs) and the row format of ChangeBatch                 *)
(* (src/changes.rs), step by step.                                         *)
(*                                                                         *)
(* A log is a set of rows, up to two per changed key.  deserialize goes    *)
(* through them once and completes a change when the key of the next row   *)
(* differs, as if the two rows of a key were neighbours; HashMapDb hands   *)
(* them out in any order.  KeyValueDB states by `Undo` and `Transaction`   *)
(* what comes of it; here that is checked for every order.                 *)
(***************************************************************************)
EXTENDS KeyValueDB, Sequences

\* A key of the database is a TrieKey: its variant and its bytes.
ASSUME DBKeyAssumption ==
    /\ DBKey \subseteq [variant : 0..1, bytes : Seq(0..255)]
    /\ None \notin DBKey

VARIABLES
    reading,         \* the ids the running get_transaction still has to undo
    rows,            \* the rows of the current id not yet gone through
    current_change,  \* deserialize: the change being put together
    last_key,        \* deserialize: the key of the last row, None before the first
    change_batch,    \* deserialize: the entries of the hash map, by key
    asked,           \* the id of the transaction, None between the calls
    txn              \* the state of the transaction

reader == <<reading, rows, current_change, last_key, change_batch, asked, txn>>
readerVars == <<vars, reader>>

(***************************************************************************)
(* Rows                                                                    *)
(***************************************************************************)
KEY_SEPARATOR == 0
NEW_VALUE == 0
OLD_VALUE == 1

\* Id::to_bytes: a fixed number of bytes, most significant first.
to_bytes(id) == <<id \div 256, id % 256>>

\* key_old_value and key_new_value
RowKey(id, key, change_type) ==
    to_bytes(id) \o <<KEY_SEPARATOR>> \o key.bytes \o <<key.variant, change_type>>

\* The TrieLog column, as `serialize` writes it.
RowsOf(id, key, change) ==
    {[key |-> RowKey(id, key, OLD_VALUE), value |-> v] : v \in {change.old_value} \ {None}}
      \cup
    {[key |-> RowKey(id, key, NEW_VALUE), value |-> v] : v \in {change.new_value} \ {None}}

TrieLogColumn == UNION {RowsOf(id, key, trie_log[id][key]) : id \in Id, key \in DBKey}

StartsWith(bytes, prefix) ==
    Len(bytes) >= Len(prefix) /\ SubSeq(bytes, 1, Len(prefix)) = prefix

get_by_prefix(prefix) == {row \in TrieLogColumn : StartsWith(row.key, prefix)}

\* The key a row is about, and which of its two values it holds.
ChangeKey(id, row) ==
    [variant |-> row.key[Len(row.key) - 1],
     bytes   |-> SubSeq(row.key, Len(to_bytes(id)) + 2, Len(row.key) - 2)]

ChangeType(row) == row.key[Len(row.key)]

(***************************************************************************)
(* get_transaction.  It borrows the database, so no commit runs meanwhile. *)
(***************************************************************************)
NoEntries == [k \in {} |-> NoChange]

ReadInit ==
    /\ Init
    /\ reading = {} /\ rows = {} /\ current_change = NoChange /\ last_key = None
    /\ change_batch = NoEntries /\ asked = None /\ txn = Empty

Lowest(ids) == CHOOSE i \in ids : \A j \in ids : i <= j

\* The rows of the next log, or none if the last one is done.
StartLog(ids) ==
    /\ reading' = ids
    /\ rows' = IF ids = {} THEN {} ELSE get_by_prefix(to_bytes(Lowest(ids)))
    /\ current_change' = NoChange /\ last_key' = None /\ change_batch' = NoEntries

GetTransaction(id) ==
    /\ pc = "Idle" /\ asked = None
    /\ HasTransaction(id)
    /\ asked' = id
    /\ txn' = snapshots[OldestSnapshot(id)]
    /\ StartLog(OldestSnapshot(id)..(id - 1))
    /\ UNCHANGED vars

\* Mutants of Complete: the entry of a key is replaced, not merged with; and the
\* change is reset before it is inserted.
CompleteAnew(batch, key, change) ==
    [k \in DOMAIN batch \cup {key} |-> IF k = key THEN change ELSE batch[k]]

CompleteAfterReset(batch, key, change) ==
    [k \in DOMAIN batch \cup {key} |-> IF k = key THEN NoChange ELSE batch[k]]

\* insert_in_place, into a hash map.
Complete(batch, key, change) ==
    [k \in DOMAIN batch \cup {key} |->
        IF k # key THEN batch[k]
        ELSE IF k \in DOMAIN batch THEN InsertInPlace(batch[k], change) ELSE change]

\* deserialize, one row: a row of another key completes the change of the last.
ReadRow(row) ==
    LET key    == ChangeKey(Lowest(reading), row)
        ended  == last_key # None /\ last_key # key
        so_far == IF ended THEN NoChange ELSE current_change
    IN  /\ row \in rows
        /\ rows' = rows \ {row}
        /\ change_batch' = IF ended THEN Complete(change_batch, last_key, current_change)
                                    ELSE change_batch
        /\ current_change' = IF ChangeType(row) = NEW_VALUE
                             THEN [so_far EXCEPT !.new_value = row.value]
                             ELSE [so_far EXCEPT !.old_value = row.value]
        /\ last_key' = key
        /\ UNCHANGED <<vars, reading, asked, txn>>

\* What deserialize returns after the last row.
Deserialized ==
    IF current_change = NoChange THEN change_batch
    ELSE Complete(change_batch, last_key, current_change)

\* The end of a log: each entry is applied backwards, an old value is put back
\* and a key without one removed; on to the next log.
UndoLog ==
    /\ reading # {} /\ rows = {}
    /\ txn' = [k \in DBKey |-> IF k \in DOMAIN Deserialized THEN Deserialized[k].old_value
                                                              ELSE txn[k]]
    /\ StartLog(reading \ {Lowest(reading)})
    /\ UNCHANGED <<vars, asked>>

\* The transaction is given back.
DropTransaction ==
    /\ asked # None /\ reading = {}
    /\ asked' = None /\ txn' = Empty
    /\ UNCHANGED <<vars, reading, rows, current_change, last_key, change_batch>>

ReadNext ==
    \/ asked = None /\ Next /\ UNCHANGED reader
    \/ \E id \in Id : GetTransaction(id)
    \/ \E row \in rows : ReadRow(row)
    \/ UndoLog
    \/ DropTransaction

ReadSpec == ReadInit /\ [][ReadNext]_readerVars

(***************************************************************************)
(* Properties                                                              *)
(***************************************************************************)
\* Whatever the order of the rows, get_transaction computes `Transaction`: the
\* logs from the snapshot's on, each undone once.  deserialize may lose the new
\* value of a key whose rows are apart, but never an old one.
LogsReadInAnyOrder ==
    asked # None /\ reading = {} => txn = Transaction(asked)

\* get_transaction never meets a change with neither value, its unreachable!().
EntriesHaveAValue ==
    rows = {} => \A k \in DOMAIN Deserialized : Deserialized[k] # NoChange
=============================================================================
