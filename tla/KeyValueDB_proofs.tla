-------------------------- MODULE KeyValueDB_proofs --------------------------
(***************************************************************************)
(* Proofs about KeyValueDB, for every set of keys and values, every limit, *)
(* with or without id gaps, failures and crashes.                          *)
(***************************************************************************)
EXTENDS KeyValueDB, TLAPS, FiniteSetTheorems

USE MaxIdAssumption, LimitsAssumption, NoneAssumption, KeepAssumption, SwitchesAssumption

LEMMA NoChangeIsChange == NoChange \in Change /\ NoChanges \in [DBKey -> Change]
  BY DEF NoChange, NoChanges, Change

LEMMA EmptyIsState == Empty \in State
  BY DEF Empty, State

\* Recording changes keeps current_changes well typed.
LEMMA RecordType ==
  ASSUME TypeOK, NEW batch \in Batches, NEW keys \in SUBSET Touched(batch),
         Record(keys, batch)
  PROVE  current_changes' \in [DBKey -> Change]
  BY DEF TypeOK, Batches, Touched, Record, InsertInPlace, Change, State

LEMMA InitTypeOK == Init => TypeOK
  BY NoChangeIsChange, EmptyIsState DEF Init, TypeOK, Id

LEMMA NextTypeOK == TypeOK /\ [Next]_vars => TypeOK'
  <1> SUFFICES ASSUME TypeOK, [Next]_vars PROVE TypeOK'
    OBVIOUS
  <1>1. ASSUME NEW id \in Id, NEW batch \in Batches, CommitTries(id, batch) PROVE TypeOK'
    <2>1. current_changes' \in [DBKey -> Change]
      BY <1>1, RecordType DEF CommitTries
    <2>2. db' \in State
      BY <1>1 DEF CommitTries, Apply, Batches, State, TypeOK
    <2> QED BY <1>1, <2>1, <2>2 DEF CommitTries, StartCommit, TypeOK, Id
  <1>2. ASSUME NEW id \in Id, NEW batch \in Batches, NEW recorded \in SUBSET Touched(batch),
               CommitTriesFails(id, batch, recorded)
        PROVE TypeOK'
    <2>1. current_changes' \in [DBKey -> Change]
      BY <1>2, RecordType DEF CommitTriesFails
    <2> QED BY <1>2, <2>1 DEF CommitTriesFails, StartCommit, TypeOK, Id, ghosts
  <1>3. CASE CommitLog
    <2>1. [k \in DBKey |-> Serialize(current_changes[k])] \in [DBKey -> Change]
      BY NoChangeIsChange DEF Serialize, TypeOK
    <2>2. trie_log' \in [Id -> [DBKey -> Change]]
      BY <1>3, <2>1 DEF CommitLog, TypeOK
    <2> QED BY <1>3, <2>2, NoChangeIsChange DEF CommitLog, TypeOK
  <1>4. CASE CommitLogFails
    BY <1>4, NoChangeIsChange DEF CommitLogFails, TypeOK
  <1>5. CASE PruneLog
    BY <1>5, NoChangeIsChange DEF PruneLog, TypeOK, ghosts
  <1>6. CASE PruneLogFails
    BY <1>6 DEF PruneLogFails, TypeOK, ghosts
  <1>7. CASE CreateSnapshot
    <2>1. [snapshots EXCEPT ![last_id] = db] \in [Id -> State \cup {None}]
      BY DEF TypeOK
    <2>2. snapshots' \in [Id -> State \cup {None}]
      BY <1>7, <2>1 DEF CreateSnapshot, KeepNewest, TypeOK
    <2> QED BY <1>7, <2>2 DEF CreateSnapshot, TypeOK
  <1>8. CASE Crash
    BY <1>8, NoChangeIsChange DEF Crash, TypeOK
  <1>9. CASE UNCHANGED vars
    BY <1>9 DEF vars, ghosts, TypeOK
  <1> QED BY <1>1, <1>2, <1>3, <1>4, <1>5, <1>6, <1>7, <1>8, <1>9 DEF Next

\* Every variable of KeyValueDB keeps its type, whatever fails.
THEOREM TypeCorrect == Spec => []TypeOK
  BY InitTypeOK, NextTypeOK, PTL DEF Spec

(***************************************************************************)
(* LogUndoes: the invariant LogInv is preserved by every step.             *)
(***************************************************************************)
LEMMA InitLogInv == Init => LogInv
  <1> SUFFICES ASSUME Init PROVE PendingChangesMatch /\ LogsArePast /\ LogUndoes
    BY InitTypeOK DEF LogInv
  <1> QED BY DEF Init, PendingChangesMatch, LogsArePast, LogUndoes, NoChanges

\* The entry a batch leaves for a key undoes what the batch does to it, also
\* when a failed commit had left an entry behind.
LEMMA RecordedChangeUndoes ==
  ASSUME NEW entry \in Change, NEW old \in DBValue \cup {None},
         NEW new \in DBValue \cup {None},
         entry = NoChange \/ entry.old_value = old
  PROVE  /\ UndoKey(Serialize(InsertInPlace(entry, [old_value |-> old, new_value |-> new])),
                     new) = old
         /\ InsertInPlace(entry, [old_value |-> old, new_value |-> new]).old_value = old
  BY DEF Change, NoChange, InsertInPlace, Serialize, UndoKey

\* An entry left by a failed commit undoes nothing of a key that kept its value.
LEMMA LeftoverUndoesNothing ==
  ASSUME NEW entry \in Change, NEW old \in DBValue \cup {None},
         entry = NoChange \/ entry.old_value = old
  PROVE  UndoKey(Serialize(entry), old) = old
  BY DEF Change, NoChange, Serialize, UndoKey

LEMMA NextLogInv == LogInv /\ [Next]_vars => LogInv'
  <1> SUFFICES ASSUME LogInv, [Next]_vars
               PROVE  PendingChangesMatch' /\ LogsArePast' /\ LogUndoes'
    BY NextTypeOK DEF LogInv
  <1> USE DEF LogInv
  <1>1. ASSUME NEW id \in Id, NEW batch \in Batches, CommitTries(id, batch)
        PROVE  PendingChangesMatch' /\ LogsArePast' /\ LogUndoes'
    <2>1. id > last_id /\ last_id' = id /\ id \notin logged /\ logged' = logged
      BY <1>1 DEF CommitTries, StartCommit, LogsArePast, TypeOK, Id
    <2>2. before'[id] = db /\ after'[id] = db'
      BY <1>1 DEF CommitTries, TypeOK
    <2>3. ASSUME NEW k \in DBKey
          PROVE  UndoKey(Serialize(current_changes'[k]), db'[k]) = db[k]
      <3>1. current_changes[k] = NoChange \/ current_changes[k].old_value = db[k]
        BY <1>1 DEF CommitTries, StartCommit, PendingChangesMatch
      <3>2. current_changes[k] \in Change /\ db[k] \in DBValue \cup {None}
        BY DEF TypeOK, State
      <3>3. CASE batch[k] = Keep
        <4>1. current_changes'[k] = current_changes[k] /\ db'[k] = db[k]
          BY <1>1, <3>3 DEF CommitTries, Record, Touched, Apply
        <4> QED BY <3>1, <3>2, <4>1, LeftoverUndoesNothing
      <3>4. CASE batch[k] # Keep
        <4>1. batch[k] \in DBValue \cup {None}
          BY <3>4 DEF Batches
        <4>2. /\ db'[k] = batch[k]
              /\ current_changes'[k] =
                   InsertInPlace(current_changes[k],
                                 [old_value |-> db[k], new_value |-> batch[k]])
          BY <1>1, <3>4 DEF CommitTries, Record, Touched, Apply
        <4> QED BY <3>1, <3>2, <4>1, <4>2, RecordedChangeUndoes
      <3> QED BY <3>3, <3>4
    <2>4. PendingChangesMatch'
      BY <1>1, <2>1, <2>2, <2>3 DEF CommitTries, PendingChangesMatch
    <2>5. LogsArePast'
      <3>1. \A i \in logged : i <= last_id /\ i \in Int
        <4>1. logged \subseteq Id
          BY DEF TypeOK
        <4> QED BY <4>1 DEF LogsArePast, Id
      <3>2. id \in Int /\ last_id \in Int
        BY DEF TypeOK, Id
      <3> QED BY <2>1, <2>2, <3>1, <3>2 DEF LogsArePast
    <2>6. ASSUME NEW i \in logged, InWindow(i)'
          PROVE  Undo(trie_log[i], after[i])' = before'[i]
      <3>1. InWindow(i)
        BY <2>1, <2>6 DEF InWindow, TypeOK, Id
      <3>2. after'[i] = after[i] /\ before'[i] = before[i] /\ trie_log' = trie_log
        BY <1>1, <2>1 DEF CommitTries, TypeOK
      <3> QED BY <3>1, <3>2 DEF LogUndoes, Undo
    <2> QED BY <2>1, <2>4, <2>5, <2>6 DEF LogUndoes
  <1>2. ASSUME NEW id \in Id, NEW batch \in Batches, NEW recorded \in SUBSET Touched(batch),
               CommitTriesFails(id, batch, recorded)
        PROVE  PendingChangesMatch' /\ LogsArePast' /\ LogUndoes'
    <2>1. /\ id > last_id /\ last_id' = id /\ pc' = "Idle" /\ db' = db
          /\ UNCHANGED <<logged, trie_log, before, after>>
      BY <1>2 DEF CommitTriesFails, StartCommit, TypeOK, Id, ghosts
    <2>2. ASSUME NEW k \in DBKey
          PROVE  current_changes'[k] = NoChange \/ current_changes'[k].old_value = db[k]
      <3>1. current_changes[k] = NoChange \/ current_changes[k].old_value = db[k]
        BY <1>2 DEF CommitTriesFails, StartCommit, PendingChangesMatch
      <3>2. CASE k \in recorded
        <4>1. current_changes'[k] =
                InsertInPlace(current_changes[k],
                              [old_value |-> db[k], new_value |-> batch[k]])
          BY <1>2, <3>2 DEF CommitTriesFails, Record
        <4> QED BY <3>1, <4>1 DEF InsertInPlace, NoChange
      <3>3. CASE k \notin recorded
        BY <1>2, <3>1, <3>3 DEF CommitTriesFails, Record
      <3> QED BY <3>2, <3>3
    <2>3. PendingChangesMatch'
      BY <2>1, <2>2 DEF PendingChangesMatch
    <2>4. LogsArePast'
      BY <2>1 DEF LogsArePast, TypeOK, Id
    <2>5. LogUndoes'
      BY <2>1 DEF LogUndoes, Undo, InWindow, TypeOK, Id
    <2> QED BY <2>3, <2>4, <2>5
  <1>3. CASE CommitLog
    <2>1. /\ pc' # "Idle" /\ pc' # "Log" /\ current_changes' = NoChanges
          /\ UNCHANGED <<last_id, db, before, after>>
      BY <1>3 DEF CommitLog
    <2>2. PendingChangesMatch'
      BY <2>1 DEF PendingChangesMatch
    <2>3. CASE LogsDisabled
      <3>1. UNCHANGED <<logged, trie_log>>
        BY <1>3, <2>3 DEF CommitLog
      <3>2. LogsArePast' /\ LogUndoes'
        BY <2>1, <3>1 DEF LogsArePast, LogUndoes, Undo, InWindow
      <3> QED BY <2>2, <3>2
    <2>4. CASE ~LogsDisabled
      <3>1. /\ logged' = logged \cup {last_id} /\ last_id \in Id /\ pc = "Log"
            /\ trie_log' = [trie_log EXCEPT ![last_id] =
                               [k \in DBKey |-> Serialize(current_changes[k])]]
        BY <1>3, <2>4 DEF CommitLog, TypeOK
      <3>2. LogsArePast'
        BY <2>1, <3>1 DEF LogsArePast, Id
      <3>3. ASSUME NEW i \in logged', InWindow(i)'
            PROVE  Undo(trie_log[i], after[i])' = before'[i]
        <4>1. CASE i = last_id
          <5>1. trie_log'[i] = [k \in DBKey |-> Serialize(current_changes[k])]
            BY <3>1, <4>1 DEF TypeOK
          <5>2. after'[i] = db /\ before'[i] = before[last_id]
            BY <2>1, <3>1, <4>1 DEF LogsArePast
          <5>3. \A k \in DBKey :
                  UndoKey(Serialize(current_changes[k]), db[k]) = before[last_id][k]
            BY <3>1 DEF PendingChangesMatch
          <5>4. before[last_id] = [k \in DBKey |-> before[last_id][k]]
            BY <3>1 DEF TypeOK, State
          <5> QED BY <5>1, <5>2, <5>3, <5>4 DEF Undo
        <4>2. CASE i # last_id
          <5>1. trie_log'[i] = trie_log[i] /\ i \in logged
            BY <3>1, <4>2 DEF TypeOK
          <5>2. InWindow(i)
            BY <2>1, <3>3 DEF InWindow
          <5> QED BY <2>1, <5>1, <5>2 DEF LogUndoes, Undo
        <4> QED BY <4>1, <4>2
      <3>4. LogUndoes'
        BY <3>3 DEF LogUndoes
      <3> QED BY <2>2, <3>2, <3>4
    <2> QED BY <2>3, <2>4
  <1>4. CASE CommitLogFails
    <2>1. PendingChangesMatch'
      BY <1>4 DEF CommitLogFails, PendingChangesMatch, NoChanges
    <2>2. LogsArePast' /\ LogUndoes'
      BY <1>4 DEF CommitLogFails, LogsArePast, LogUndoes, Undo, InWindow
    <2> QED BY <2>1, <2>2
  <1>5. CASE PruneLog
    <2>1. PendingChangesMatch' /\ LogsArePast'
      BY <1>5 DEF PruneLog, PendingChangesMatch, LogsArePast, ghosts
    <2>2. ASSUME NEW i \in logged, InWindow(i)'
          PROVE  Undo(trie_log[i], after[i])' = before'[i]
      <3>1. InWindow(i) /\ i \in Id /\ last_id \in Int
        BY <1>5, <2>2 DEF PruneLog, InWindow, TypeOK, Id
      <3>2. i \notin Expired
        BY <3>1 DEF Expired, InWindow, Id
      <3>3. trie_log'[i] = trie_log[i] /\ UNCHANGED <<after, before>>
        BY <1>5, <3>1, <3>2 DEF PruneLog, ghosts
      <3> QED BY <3>1, <3>3 DEF LogUndoes, Undo
    <2> QED BY <1>5, <2>1, <2>2 DEF LogUndoes, PruneLog, ghosts
  <1>6. CASE PruneLogFails
    <2>1. PendingChangesMatch'
      BY <1>6 DEF PruneLogFails, PendingChangesMatch, NoChanges
    <2>2. LogsArePast' /\ LogUndoes'
      BY <1>6 DEF PruneLogFails, LogsArePast, LogUndoes, Undo, InWindow, ghosts
    <2> QED BY <2>1, <2>2
  <1>7. CASE CreateSnapshot
    <2>1. PendingChangesMatch'
      BY <1>7 DEF CreateSnapshot, PendingChangesMatch, NoChanges
    <2>2. LogsArePast' /\ LogUndoes'
      BY <1>7 DEF CreateSnapshot, LogsArePast, LogUndoes, Undo, InWindow
    <2> QED BY <2>1, <2>2
  <1>8. CASE Crash
    <2>1. PendingChangesMatch'
      BY <1>8 DEF Crash, PendingChangesMatch, NoChanges
    <2>2. LogsArePast' /\ LogUndoes'
      BY <1>8 DEF Crash, LogsArePast, LogUndoes, Undo, InWindow
    <2> QED BY <2>1, <2>2
  <1>9. CASE UNCHANGED vars
    <2>1. PendingChangesMatch' /\ LogsArePast'
      BY <1>9 DEF vars, ghosts, PendingChangesMatch, LogsArePast
    <2>2. LogUndoes'
      BY <1>9 DEF vars, ghosts, LogUndoes, Undo, InWindow
    <2> QED BY <2>1, <2>2
  <1> QED BY <1>1, <1>2, <1>3, <1>4, <1>5, <1>6, <1>7, <1>8, <1>9 DEF Next

\* What current_changes hold at each point of a commit, through failures and
\* crashes: the changes of batches that were dropped, the old values of the
\* database, and nothing once the log is written.
THEOREM ChangesTracked == Spec => []LogInv
  BY InitLogInv, NextLogInv, PTL DEF Spec

\* The log of every commit in the window undoes exactly that commit, whatever
\* batches, failures, crashes and pruning came before and after it.
THEOREM LogsUndo == Spec => []LogUndoes
  <1>1. LogInv => LogUndoes
    BY DEF LogInv
  <1> QED BY InitLogInv, NextLogInv, <1>1, PTL DEF Spec

(***************************************************************************)
(* RevertWindow.  What undoing the logs newer than id makes of a key is    *)
(* said by RevertsTo without recursion: the oldest of these logs that has  *)
(* the key gives its old value; if none has it, the key is left alone.     *)
(***************************************************************************)
Newer(id, i) == id < i /\ i <= last_id

RevertsTo(base, id, k, v) ==
    \/ /\ \A i \in Id : Newer(id, i) => trie_log[i][k] = NoChange
       /\ v = base[k]
    \/ \E i \in Id :
         /\ Newer(id, i) /\ trie_log[i][k] # NoChange
         /\ v = trie_log[i][k].old_value
         /\ \A j \in Id : id < j /\ j < i => trie_log[j][k] = NoChange

\* The state the logs lead back from: until the log of the running commit is
\* written, the one before its batch.
Base == IF pc = "Log" THEN before[last_id] ELSE db

RevertInv ==
    /\ LogInv
    /\ \A i \in Id \ logged : trie_log[i] = NoChanges
    /\ pc # "Idle" => after[last_id] = db /\ last_id \notin ok
    /\ \A id \in ok : id <= last_id
    /\ \A id \in ok : InWindow(id + 1) /\ (\A t \in torn : t < id) =>
          \A k \in DBKey : RevertsTo(Base, id, k, after[id][k])

LEMMA NatMin ==
  ASSUME NEW S \in SUBSET Nat, S # {}
  PROVE  \E m \in S : \A n \in S : m <= n
  <1>1. PICK m \in S : \A n \in S : ~(<<n, m>> \in OpToRel(<, Nat))
    BY WFMin, NatLessThanWellFounded, Zenon
  <1>2. \A n \in S : ~(n < m)
    BY <1>1 DEF OpToRel
  <1> QED BY <1>2

LEMMA RevertsToExists ==
  ASSUME TypeOK, NEW id \in Int, NEW k
  PROVE  \E v : RevertsTo(db, id, k, v)
  <1> DEFINE S == {i \in Id : Newer(id, i) /\ trie_log[i][k] # NoChange}
  <1>1. CASE S = {}
    BY <1>1 DEF RevertsTo
  <1>2. CASE S # {}
    <2>0. S \in SUBSET Nat
      BY DEF Id
    <2>1. PICK m \in S : \A n \in S : m <= n
      <3> HIDE DEF S
      <3> QED BY <1>2, <2>0, NatMin
    <2>2. ASSUME NEW j \in Id, id < j, j < m PROVE trie_log[j][k] = NoChange
      <3>1. j \notin S
        BY <2>1, <2>2 DEF Id
      <3>2. Newer(id, j)
        BY <2>1, <2>2 DEF Newer, Id, TypeOK
      <3> QED BY <3>1, <3>2
    <2>3. RevertsTo(db, id, k, trie_log[m][k].old_value)
      BY <2>1, <2>2 DEF RevertsTo
    <2> QED BY <2>3
  <1> QED BY <1>1, <1>2

LEMMA RevertsToUnique ==
  ASSUME TypeOK, NEW id \in Int, NEW k, NEW v, NEW w,
         RevertsTo(db, id, k, v), RevertsTo(db, id, k, w)
  PROVE  v = w
  BY DEF RevertsTo, Newer, Id

\* One log further back.
LEMMA RevertsToStep ==
  ASSUME TypeOK, NEW id \in Id, id < last_id, NEW k \in DBKey, NEW v,
         RevertsTo(db, id + 1, k, v)
  PROVE  RevertsTo(db, id, k, UndoKey(trie_log[id + 1][k], v))
  <1>1. id + 1 \in Id /\ Newer(id, id + 1) /\ last_id \in Int
    BY DEF TypeOK, Id, Newer
  <1>2. trie_log[id + 1][k] \in Change
    BY <1>1 DEF TypeOK
  <1>3. CASE trie_log[id + 1][k] = NoChange
    <2>1. UndoKey(trie_log[id + 1][k], v) = v
      BY <1>3 DEF UndoKey, NoChange
    <2>2. \A i \in Id : id < i => i = id + 1 \/ id + 1 < i
      BY DEF Id
    <2>3. \A i \in Id : Newer(id + 1, i) => Newer(id, i)
      BY DEF Id, Newer
    <2> QED BY <1>1, <1>3, <2>1, <2>2, <2>3 DEF RevertsTo, Newer
  <1>4. CASE trie_log[id + 1][k] # NoChange
    <2>1. UndoKey(trie_log[id + 1][k], v) = trie_log[id + 1][k].old_value
      BY <1>2, <1>4 DEF UndoKey, NoChange, Change
    <2>2. \A j \in Id : ~(id < j /\ j < id + 1)
      BY DEF Id
    <2> QED BY <1>1, <1>4, <2>1, <2>2 DEF RevertsTo
  <1> QED BY <1>3, <1>4

LEMMA RevertsToBase ==
  ASSUME TypeOK, NEW id \in Id, id >= last_id, NEW k, NEW v
  PROVE  RevertsTo(db, id, k, v) <=> v = db[k]
  <1>1. \A i \in Id : ~Newer(id, i)
    BY DEF Newer, Id, TypeOK
  <1> QED BY <1>1 DEF RevertsTo

\* RevertTo, the recursive function, computes what RevertsTo says.
LEMMA RevertToComputes ==
  ASSUME TypeOK, NEW id \in Id
  PROVE  /\ \A k \in DBKey : RevertsTo(db, id, k, RevertTo(id)[k])
         /\ RevertTo(id) = [k \in DBKey |-> RevertTo(id)[k]]
  <1> DEFINE Body(f) == [i \in Id |-> IF i >= last_id THEN db
                                      ELSE Undo(trie_log[i + 1], f[i + 1])]
             G == [i \in Id |-> [k \in DBKey |-> CHOOSE v : RevertsTo(db, i, k, v)]]
             F == CHOOSE f : f = Body(f)
  <1>1. ASSUME NEW i \in Id, NEW k \in DBKey PROVE RevertsTo(db, i, k, G[i][k])
    <2>1. \E v : RevertsTo(db, i, k, v)
      BY RevertsToExists DEF Id
    <2>2. RevertsTo(db, i, k, CHOOSE v : RevertsTo(db, i, k, v))
      BY <2>1
    <2> QED BY <2>2
  <1>2. ASSUME NEW i \in Id, i >= last_id PROVE G[i] = db
    <2>1. \A k \in DBKey : G[i][k] = db[k]
      BY <1>1, <1>2, RevertsToBase
    <2> QED BY <2>1 DEF TypeOK, State
  <1>3. ASSUME NEW i \in Id, ~(i >= last_id) PROVE G[i] = Undo(trie_log[i + 1], G[i + 1])
    <2>1. i + 1 \in Id /\ i < last_id /\ i \in Int
      BY <1>3 DEF Id, TypeOK
    <2>2. ASSUME NEW k \in DBKey PROVE G[i][k] = UndoKey(trie_log[i + 1][k], G[i + 1][k])
      <3>1. RevertsTo(db, i, k, UndoKey(trie_log[i + 1][k], G[i + 1][k]))
        BY <1>1, <2>1, RevertsToStep
      <3> HIDE DEF G
      <3> QED BY <1>1, <2>1, <3>1, RevertsToUnique
    <2>3. G[i] = [k \in DBKey |-> G[i][k]]
      OBVIOUS
    <2> HIDE DEF G
    <2> QED BY <2>2, <2>3 DEF Undo
  <1>4. G = Body(G)
    <2>1. \A i \in Id : G[i] = IF i >= last_id THEN db ELSE Undo(trie_log[i + 1], G[i + 1])
      BY <1>2, <1>3
    <2>2. G = [i \in Id |-> G[i]]
      OBVIOUS
    <2> HIDE DEF G
    <2> QED BY <2>1, <2>2
  <1>5. F = Body(F)
    <2> HIDE DEF G
    <2> QED BY <1>4
  <1>6. RevertTo(id) = F[id]
    BY DEF RevertTo
  <1>7. \A i \in Id : F[i] = IF i >= last_id THEN db ELSE Undo(trie_log[i + 1], F[i + 1])
    <2> HIDE DEF F
    <2> QED BY <1>5
  <1> HIDE DEF F
  <1> DEFINE Good(i) == \A k \in DBKey : RevertsTo(db, i, k, F[i][k])
             S == {n \in Nat : n <= MaxId /\ ~Good(MaxId - n)}
  <1>8. S = {}
    <2> SUFFICES ASSUME S # {} PROVE FALSE
      OBVIOUS
    <2>1. PICK m \in S : \A n \in S : m <= n
      BY NatMin
    <2> DEFINE i == MaxId - m
    <2>2. i \in Id /\ ~Good(i) /\ m \in Nat
      BY <2>1 DEF Id
    <2>3. CASE i >= last_id
      BY <1>7, <2>2, <2>3, RevertsToBase
    <2>4. CASE ~(i >= last_id)
      <3>1. i + 1 \in Id /\ i < last_id
        BY <2>2, <2>4 DEF Id, TypeOK
      <3>2. m - 1 \in Nat /\ m - 1 <= MaxId /\ MaxId - (m - 1) = i + 1 /\ ~(m <= m - 1)
        BY <2>2, <3>1 DEF Id
      <3>3. m - 1 \notin S
        BY <2>1, <3>2
      <3>4. Good(i + 1)
        BY <3>2, <3>3
      <3>5. ASSUME NEW k \in DBKey PROVE RevertsTo(db, i, k, F[i][k])
        <4>1. F[i][k] = UndoKey(trie_log[i + 1][k], F[i + 1][k])
          <5>1. F[i] = Undo(trie_log[i + 1], F[i + 1])
            BY <1>7, <2>2, <2>4
          <5> QED BY <5>1 DEF Undo
        <4>2. RevertsTo(db, i + 1, k, F[i + 1][k])
          BY <3>4
        <4> HIDE DEF i, Good, S
        <4> QED BY <2>2, <3>1, <4>1, <4>2, RevertsToStep
      <3> QED BY <2>2, <3>5
    <2> QED BY <2>3, <2>4
  <1>9. MaxId - id \in Nat /\ MaxId - id <= MaxId /\ MaxId - (MaxId - id) = id
    BY DEF Id
  <1>10. Good(id)
    BY <1>8, <1>9
  <1>11. F[id] = [k \in DBKey |-> F[id][k]]
    BY <1>7 DEF Undo, TypeOK, State
  <1> QED BY <1>6, <1>10, <1>11

LEMMA RevertToIs ==
  ASSUME TypeOK, NEW id \in Id, NEW s \in State,
         \A k \in DBKey : RevertsTo(db, id, k, s[k])
  PROVE  RevertTo(id) = s
  <1>1. \A k \in DBKey : RevertTo(id)[k] = s[k]
    BY RevertToComputes, RevertsToUnique DEF Id
  <1>2. RevertTo(id) = [k \in DBKey |-> RevertTo(id)[k]]
    BY RevertToComputes
  <1>3. s = [k \in DBKey |-> s[k]]
    BY DEF State
  <1> QED BY <1>1, <1>2, <1>3

LEMMA InitRevertInv == Init => RevertInv
  BY InitLogInv DEF Init, RevertInv

\* A key that reverts to a value still does when the logs that are newer than
\* id, and the base, are the same.
LEMMA RevertsToSame ==
  ASSUME NEW id \in Int, NEW k \in DBKey, NEW v, RevertsTo(Base, id, k, v),
         \A i \in Id : Newer(id, i) => Newer(id, i)' /\ trie_log'[i][k] = trie_log[i][k],
         \A i \in Id : Newer(id, i)' /\ ~Newer(id, i) => trie_log'[i][k] = NoChange,
         Base'[k] = Base[k],
         TypeOK, TypeOK'
  PROVE  RevertsTo(Base, id, k, v)'
  <1>1. CASE /\ \A i \in Id : Newer(id, i) => trie_log[i][k] = NoChange
             /\ v = Base[k]
    BY <1>1 DEF RevertsTo
  <1>2. CASE \E i \in Id :
               /\ Newer(id, i) /\ trie_log[i][k] # NoChange
               /\ v = trie_log[i][k].old_value
               /\ \A j \in Id : id < j /\ j < i => trie_log[j][k] = NoChange
    <2>1. PICK i \in Id :
               /\ Newer(id, i) /\ trie_log[i][k] # NoChange
               /\ v = trie_log[i][k].old_value
               /\ \A j \in Id : id < j /\ j < i => trie_log[j][k] = NoChange
      BY <1>2
    <2>2. ASSUME NEW j \in Id, id < j, j < i PROVE trie_log'[j][k] = NoChange
      <3>1. Newer(id, j)
        BY <2>1, <2>2 DEF Newer, Id, TypeOK
      <3> QED BY <2>1, <2>2, <3>1
    <2>3. Newer(id, i)' /\ trie_log'[i][k] = trie_log[i][k]
      BY <2>1
    <2> QED BY <2>1, <2>2, <2>3 DEF RevertsTo
  <1> QED BY <1>1, <1>2 DEF RevertsTo

\* The step keeps ok, torn, after and the base, and with them every revert.
LEMMA RevertsKept ==
  ASSUME RevertInv, LogInv', UNCHANGED <<ok, torn>>, last_id' >= last_id,
         \A id \in ok : after'[id] = after[id],
         \A k \in DBKey : Base'[k] = Base[k],
         \A i \in Id : trie_log'[i] = trie_log[i],
         \A i \in Id : i > last_id => trie_log[i] = NoChanges
  PROVE  \A id \in ok' : InWindow(id + 1)' /\ (\A t \in torn' : t < id) =>
            \A k \in DBKey : RevertsTo(Base, id, k, after[id][k])'
  <1> SUFFICES ASSUME NEW id \in ok, InWindow(id + 1)', \A t \in torn : t < id,
                      NEW k \in DBKey
               PROVE  RevertsTo(Base, id, k, after[id][k])'
    OBVIOUS
  <1>1. TypeOK /\ TypeOK' /\ id \in Id /\ last_id \in Int /\ last_id' \in Int
    BY DEF RevertInv, LogInv, TypeOK, Id
  <1>2. InWindow(id + 1)
    BY <1>1 DEF InWindow, Id
  <1>3. RevertsTo(Base, id, k, after[id][k])
    BY <1>2 DEF RevertInv
  <1>4. \A i \in Id : Newer(id, i) => Newer(id, i)' /\ trie_log'[i][k] = trie_log[i][k]
    BY <1>1 DEF Newer, Id
  <1>5. ASSUME NEW i \in Id, Newer(id, i)', ~Newer(id, i) PROVE trie_log'[i][k] = NoChange
    <2>1. i > last_id
      BY <1>1, <1>5 DEF Newer, Id
    <2> QED BY <2>1 DEF NoChanges
  <1>6. PICK v : v = after[id][k] /\ v = after'[id][k]
    OBVIOUS
  <1>7. RevertsTo(Base, id, k, v)
    BY <1>3, <1>6
  <1>8. RevertsTo(Base, id, k, v)'
    <2>1. id \in Int /\ Base'[k] = Base[k]
      BY <1>1 DEF Id
    <2> QED BY <1>1, <1>4, <1>5, <1>7, <2>1, RevertsToSame
  <1> QED BY <1>6, <1>8 DEF RevertsTo

LEMMA NextRevertInv == RevertInv /\ [Next]_vars => RevertInv'
  <1> DEFINE Rest == /\ \A i \in Id \ logged : trie_log[i] = NoChanges
                     /\ pc # "Idle" => after[last_id] = db /\ last_id \notin ok
                     /\ \A id \in ok : id <= last_id
             Reverts == \A id \in ok : InWindow(id + 1) /\ (\A t \in torn : t < id) =>
                          \A k \in DBKey : RevertsTo(Base, id, k, after[id][k])
  <1> SUFFICES ASSUME RevertInv, [Next]_vars PROVE Rest' /\ Reverts'
    BY NextLogInv DEF RevertInv
  <1>0. LogInv /\ LogInv' /\ TypeOK /\ TypeOK' /\ Rest /\ Reverts
    BY NextLogInv DEF RevertInv, LogInv
  <1>a. \A i \in Id : i > last_id => trie_log[i] = NoChanges
    BY <1>0 DEF LogInv, LogsArePast, TypeOK, Id
  <1>1. ASSUME NEW id \in Id, NEW batch \in Batches, CommitTries(id, batch)
        PROVE  Rest' /\ Reverts'
    <2>1. /\ id > last_id /\ last_id' = id /\ pc = "Idle" /\ pc' = "Log"
          /\ UNCHANGED <<trie_log, logged, ok, torn>>
          /\ before'[id] = db /\ after'[id] = db'
          /\ \A i \in ok : i <= last_id /\ after'[i] = after[i]
      BY <1>1, <1>0 DEF CommitTries, StartCommit, TypeOK, Id
    <2>2. last_id' >= last_id /\ id \notin ok
      BY <1>0, <2>1 DEF TypeOK, Id
    <2>3. Rest'
      BY <1>0, <2>1, <2>2 DEF TypeOK, Id
    <2>4. Base' = Base
      BY <2>1 DEF Base
    <2>5. Reverts'
      BY <1>0, <1>a, <2>1, <2>2, <2>4, RevertsKept
    <2> QED BY <2>3, <2>5
  <1>2. ASSUME NEW id \in Id, NEW batch \in Batches, NEW recorded \in SUBSET Touched(batch),
               CommitTriesFails(id, batch, recorded)
        PROVE  Rest' /\ Reverts'
    <2>1. /\ id > last_id /\ last_id' = id /\ pc = "Idle" /\ pc' = "Idle"
          /\ UNCHANGED <<trie_log, logged, ok, torn, db, after, before>>
      BY <1>2, <1>0 DEF CommitTriesFails, StartCommit, TypeOK, Id, ghosts
    <2>2. last_id' >= last_id
      BY <1>0, <2>1 DEF TypeOK, Id
    <2>3. Rest'
      BY <1>0, <2>1, <2>2 DEF TypeOK, Id
    <2>4. Base' = Base
      BY <2>1 DEF Base
    <2>5. Reverts'
      BY <1>0, <1>a, <2>1, <2>2, <2>4, RevertsKept
    <2> QED BY <2>3, <2>5
  <1>3. CASE CommitLog
    <2>1. /\ pc = "Log" /\ last_id \in Id /\ last_id \notin ok /\ last_id \notin logged
          /\ pc' \in {"Prune", "Snapshot"}
          /\ UNCHANGED <<last_id, db, before, after, ok, torn>>
      BY <1>3, <1>0 DEF CommitLog, TypeOK, LogInv, LogsArePast
    <2>2. Base = before[last_id] /\ Base' = db
      BY <2>1 DEF Base
    <2>3. CASE LogsDisabled
      <3>1. UNCHANGED <<trie_log, logged>>
        BY <1>3, <2>3 DEF CommitLog
      <3>2. Rest'
        BY <1>0, <2>1, <3>1
      <3>3. ASSUME NEW i \in ok PROVE ~InWindow(i + 1)'
        BY <1>0, <2>1, <2>3 DEF LogsDisabled, InWindow, TypeOK, Id
      <3> QED BY <2>1, <3>2, <3>3
    <2>4. CASE ~LogsDisabled
      <3>1. /\ logged' = logged \cup {last_id}
            /\ trie_log' = [trie_log EXCEPT ![last_id] =
                               [k \in DBKey |-> Serialize(current_changes[k])]]
        BY <1>3, <2>4 DEF CommitLog
      <3>2. Rest'
        BY <1>0, <2>1, <3>1 DEF TypeOK
      <3>3. ASSUME NEW id \in ok, InWindow(id + 1), \A t \in torn : t < id, NEW k \in DBKey
            PROVE  RevertsTo(Base, id, k, after[id][k])'
        <4>1. RevertsTo(Base, id, k, after[id][k])
          BY <1>0, <3>3
        <4>2. id \in Id /\ id < last_id /\ Newer(id, last_id) /\ id \in Int
          BY <1>0, <2>1 DEF TypeOK, Id, Newer
        <4>3. trie_log[last_id][k] = NoChange
          BY <1>0, <2>1 DEF NoChanges
        <4>4. \A i \in Id : i # last_id => trie_log'[i] = trie_log[i]
          BY <1>0, <3>1 DEF TypeOK
        <4>5. trie_log'[last_id][k] = Serialize(current_changes[k])
          BY <1>0, <2>1, <3>1 DEF TypeOK
        <4>6. \A i \in Id : Newer(id, i)' = Newer(id, i)
          BY <2>1 DEF Newer
        <4>7. CASE \E i \in Id :
                     /\ Newer(id, i) /\ trie_log[i][k] # NoChange
                     /\ after[id][k] = trie_log[i][k].old_value
                     /\ \A j \in Id : id < j /\ j < i => trie_log[j][k] = NoChange
          <5>1. PICK i \in Id :
                     /\ Newer(id, i) /\ trie_log[i][k] # NoChange
                     /\ after[id][k] = trie_log[i][k].old_value
                     /\ \A j \in Id : id < j /\ j < i => trie_log[j][k] = NoChange
            BY <4>7
          <5>2. i # last_id /\ \A j \in Id : j < i => j # last_id
            BY <4>3, <5>1, <2>1 DEF Newer, Id
          <5> QED BY <2>1, <4>4, <4>6, <5>1, <5>2 DEF RevertsTo
        <4>8. CASE /\ \A i \in Id : Newer(id, i) => trie_log[i][k] = NoChange
                   /\ after[id][k] = Base[k]
          <5>1. UndoKey(Serialize(current_changes[k]), db[k]) = after[id][k]
            BY <1>0, <2>1, <2>2, <4>8 DEF LogInv, PendingChangesMatch
          <5>2. \A j \in Id : id < j /\ j < last_id => trie_log'[j][k] = NoChange
            BY <4>4, <4>8, <2>1 DEF Newer, Id
          <5>3. CASE Serialize(current_changes[k]) = NoChange
            <6>1. after[id][k] = db[k]
              BY <5>1, <5>3 DEF UndoKey, NoChange
            <6> QED BY <2>1, <2>2, <4>4, <4>5, <4>6, <4>8, <5>3, <6>1 DEF RevertsTo
          <5>4. CASE Serialize(current_changes[k]) # NoChange
            <6>1. Serialize(current_changes[k]) \in Change
              BY <1>0, NoChangeIsChange DEF Serialize, TypeOK
            <6>2. after[id][k] = Serialize(current_changes[k]).old_value
              BY <5>1, <5>4, <6>1 DEF UndoKey, NoChange, Change
            <6> QED BY <2>1, <4>2, <4>5, <4>6, <5>2, <5>4, <6>2 DEF RevertsTo
          <5> QED BY <5>3, <5>4
        <4> QED BY <4>1, <4>7, <4>8 DEF RevertsTo
      <3>4. Reverts'
        BY <2>1, <3>3 DEF InWindow
      <3> QED BY <3>2, <3>4
    <2> QED BY <2>3, <2>4
  <1>4. CASE CommitLogFails
    <2>1. /\ pc = "Log" /\ pc' = "Idle" /\ torn' = torn \cup {last_id} /\ last_id \in Id
          /\ UNCHANGED <<last_id, trie_log, logged, ok>>
      BY <1>4, <1>0 DEF CommitLogFails, TypeOK
    <2>2. ASSUME NEW id \in ok PROVE ~(last_id < id)
      BY <1>0, <2>1 DEF TypeOK, Id
    <2> QED BY <1>0, <2>1, <2>2
  <1>5. CASE PruneLog
    <2>1. /\ pc = "Prune" /\ pc' = "Snapshot" /\ last_id \in Id
          /\ trie_log' = [i \in Id |-> IF i \in Expired THEN NoChanges ELSE trie_log[i]]
          /\ UNCHANGED <<db, last_id, before, after, logged, ok, torn>>
      BY <1>5, <1>0 DEF PruneLog, TypeOK, ghosts
    <2>2. Rest'
      BY <1>0, <2>1
    <2>3. Base' = Base
      BY <2>1 DEF Base
    <2>4. ASSUME NEW id \in ok, InWindow(id + 1), \A t \in torn : t < id, NEW k \in DBKey
          PROVE  RevertsTo(Base, id, k, after[id][k])'
      <3>0. id \in Int
        BY <1>0 DEF TypeOK, Id
      <3>1. RevertsTo(Base, id, k, after[id][k])
        BY <1>0, <2>4
      <3>2. ASSUME NEW i \in Id, Newer(id, i) PROVE trie_log'[i] = trie_log[i]
        <4>1. i \notin Expired
          BY <1>0, <2>1, <2>4, <3>0, <3>2 DEF InWindow, Expired, Newer, TypeOK, Id
        <4> QED BY <2>1, <4>1
      <3>3. \A i \in Id : Newer(id, i)' = Newer(id, i)
        BY <2>1 DEF Newer
      <3>4. PICK v : v = after[id][k] /\ v = after'[id][k]
        BY <2>1
      <3>5. RevertsTo(Base, id, k, v)
        BY <3>1, <3>4
      <3>6. RevertsTo(Base, id, k, v)'
        BY <1>0, <2>3, <3>0, <3>2, <3>3, <3>5, RevertsToSame
      <3> QED BY <3>4, <3>6 DEF RevertsTo
    <2>5. Reverts'
      BY <2>1, <2>4 DEF InWindow
    <2> QED BY <2>2, <2>5
  <1>6. CASE PruneLogFails
    <2>1. /\ pc = "Prune" /\ pc' = "Idle"
          /\ UNCHANGED <<db, trie_log, last_id, before, after, logged, ok, torn>>
      BY <1>6 DEF PruneLogFails, ghosts
    <2>2. Base' = Base /\ last_id' >= last_id
      BY <1>0, <2>1 DEF Base, TypeOK, Id
    <2>3. Reverts'
      BY <1>0, <1>a, <2>1, <2>2, RevertsKept
    <2> QED BY <1>0, <2>1, <2>3
  <1>7. CASE CreateSnapshot
    <2>1. /\ pc = "Snapshot" /\ pc' = "Idle" /\ ok' = ok \cup {last_id} /\ last_id \in Id
          /\ after[last_id] = db
          /\ UNCHANGED <<db, trie_log, last_id, before, after, logged, torn>>
      BY <1>7, <1>0 DEF CreateSnapshot, TypeOK
    <2>2. Base' = Base /\ Base = db
      BY <2>1 DEF Base
    <2>3. Rest'
      BY <1>0, <2>1 DEF Id
    <2>4. ASSUME NEW id \in ok', InWindow(id + 1)', \A t \in torn' : t < id, NEW k \in DBKey
          PROVE  RevertsTo(Base, id, k, after[id][k])'
      <3>1. CASE id = last_id
        <4>1. \A i \in Id : ~Newer(id, i)'
          BY <2>1, <3>1 DEF Newer, Id
        <4> QED BY <2>1, <2>2, <3>1, <4>1 DEF RevertsTo
      <3>2. CASE id \in ok
        <4>1. RevertsTo(Base, id, k, after[id][k])
          BY <1>0, <2>1, <2>4, <3>2 DEF InWindow
        <4> QED BY <2>1, <2>2, <4>1 DEF RevertsTo, Newer
      <3> QED BY <2>1, <2>4, <3>1, <3>2
    <2> QED BY <2>3, <2>4
  <1>8. CASE Crash
    <2>1. /\ pc' = "Idle" /\ torn' = IF pc = "Log" THEN torn \cup {last_id} ELSE torn
          /\ UNCHANGED <<db, trie_log, last_id, before, after, logged, ok>>
      BY <1>8 DEF Crash
    <2>2. Rest'
      BY <1>0, <2>1
    <2>3. CASE pc = "Log"
      <3>1. ASSUME NEW id \in ok PROVE ~(last_id < id)
        BY <1>0 DEF TypeOK, Id
      <3> QED BY <2>1, <2>2, <2>3, <3>1
    <2>4. CASE pc # "Log"
      <3>1. Base' = Base /\ last_id' >= last_id /\ torn' = torn
        BY <1>0, <2>1, <2>4 DEF Base, TypeOK, Id
      <3>2. Reverts'
        BY <1>0, <1>a, <2>1, <3>1, RevertsKept
      <3> QED BY <2>2, <3>2
    <2> QED BY <2>3, <2>4
  <1>9. CASE UNCHANGED vars
    <2>1. UNCHANGED <<pc, db, trie_log, last_id, before, after, logged, ok, torn>>
      BY <1>9 DEF vars, ghosts
    <2>2. Base' = Base /\ last_id' >= last_id
      BY <1>0, <2>1 DEF Base, TypeOK, Id
    <2>3. Reverts'
      BY <1>0, <1>a, <2>1, <2>2, RevertsKept
    <2> QED BY <1>0, <2>1, <2>3
  <1> QED BY <1>1, <1>2, <1>3, <1>4, <1>5, <1>6, <1>7, <1>8, <1>9 DEF Next

LEMMA RevertInvWindow == RevertInv => RevertWindow
  <1> SUFFICES ASSUME RevertInv, pc = "Idle", NEW id \in ok, InWindow(id + 1),
                      \A t \in torn : t < id
               PROVE  RevertTo(id) = after[id]
    BY DEF RevertWindow
  <1>1. TypeOK /\ id \in Id /\ after[id] \in State
    BY DEF RevertInv, LogInv, TypeOK
  <1>2. \A k \in DBKey : RevertsTo(db, id, k, after[id][k])
    BY DEF RevertInv, Base
  <1> QED BY <1>1, <1>2, RevertToIs

\* Undoing the logs from the newest on leads back to any commit of the window
\* that returned Ok, through failed commits, failed prunings, gaps in the ids
\* and restarts, as long as no batch since was written without its log.
THEOREM RevertsToCommits == Spec => []RevertWindow
  BY InitRevertInv, NextRevertInv, RevertInvWindow, PTL DEF Spec

(***************************************************************************)
(* SnapshotsKept.                                                          *)
(***************************************************************************)
Due == {id \in ok : id > opened /\ id % SnapshotInterval = 0}

\* The newest ids of S, as many as the backend keeps.
Kept(S) == {id \in S : \/ BackendMaxSnapshots = None
                       \/ Cardinality({j \in S : j >= id}) <= BackendMaxSnapshots}

SnapshotInv ==
    /\ RevertInv
    /\ \A id \in Saved(snapshots) : id \in ok /\ snapshots[id] = after[id]
    /\ Saved(snapshots) = Kept(Due)
    /\ opened <= last_id /\ (pc # "Idle" => opened < last_id)

LEMMA IdFinite == IsFiniteSet(Id)
  <1>1. 0 \in Int /\ MaxId \in Int
    OBVIOUS
  <1> QED BY <1>1, FS_Interval DEF Id

\* Popping after each commit is the same as popping once at the end.
LEMMA KeptAdd ==
  ASSUME NEW D \in SUBSET Id, NEW x \in Id, \A j \in D : j < x
  PROVE  Kept(Kept(D) \cup {x}) = Kept(D \cup {x})
  <1>1. CASE BackendMaxSnapshots = None
    BY <1>1 DEF Kept
  <1>2. CASE BackendMaxSnapshots # None
    <2> DEFINE S == Kept(D)
               From(T, i) == {j \in T : j >= i}
               M == BackendMaxSnapshots
    <2>1. M \in Nat
      BY <1>2
    <2>2. ASSUME NEW T \in SUBSET Id, NEW i
          PROVE  IsFiniteSet(From(T, i)) /\ Cardinality(From(T, i)) \in Nat
      <3>1. From(T, i) \in SUBSET Id
        OBVIOUS
      <3> QED BY <3>1, IdFinite, FS_Subset, FS_CardinalityType
    <2>3. \A T \in SUBSET Id, i \in Id : i \in Kept(T) <=> i \in T /\ Cardinality(From(T, i)) <= M
      BY <1>2 DEF Kept
    <2>4. S \in SUBSET D /\ S \cup {x} \in SUBSET Id /\ D \cup {x} \in SUBSET Id
      BY DEF Kept
    <2>5. ASSUME NEW i \in S, NEW j \in D, j >= i PROVE j \in S
      <3>1. From(D, j) \in SUBSET From(D, i)
        <4>1. i \in Int /\ j \in Int /\ \A l \in D : l \in Int
          BY <2>4 DEF Id
        <4>2. \A l \in D : l >= j => l >= i
          BY <2>5, <4>1
        <4> QED BY <4>2
      <3>2. Cardinality(From(D, j)) <= Cardinality(From(D, i))
        BY <2>2, <3>1, FS_Subset
      <3>3. Cardinality(From(D, i)) <= M
        BY <2>3, <2>4
      <3> HIDE DEF From, S
      <3>4. Cardinality(From(D, j)) <= M
        BY <2>1, <2>2, <3>2, <3>3
      <3> QED BY <2>3, <3>4 DEF S
    <2>6. ASSUME NEW i \in S \cup {x} PROVE From(S \cup {x}, i) = From(D \cup {x}, i)
      <3>1. CASE i = x
        <4>1. \A j \in D : ~(j >= x)
          BY DEF Id
        <4>2. \A T \in SUBSET D : From(T \cup {x}, i) = From({x}, i)
          BY <3>1, <4>1
        <4> QED BY <2>4, <4>2
      <3>2. CASE i \in S
        BY <2>4, <2>5, <3>2
      <3> QED BY <3>1, <3>2
    <2>7. ASSUME NEW i \in D, i \notin S PROVE ~(Cardinality(From(D \cup {x}, i)) <= M)
      <3>1. From(D, i) \in SUBSET From(D \cup {x}, i)
        OBVIOUS
      <3>2. Cardinality(From(D, i)) <= Cardinality(From(D \cup {x}, i))
        <4>1. IsFiniteSet(From(D \cup {x}, i))
          BY <2>2, <2>4
        <4> HIDE DEF From
        <4> QED BY <3>1, <4>1, FS_Subset
      <3>3. ~(Cardinality(From(D, i)) <= M)
        BY <2>3, <2>7
      <3>4. Cardinality(From(D, i)) \in Nat /\ Cardinality(From(D \cup {x}, i)) \in Nat
        BY <2>2, <2>4
      <3> HIDE DEF From, S
      <3> QED BY <2>1, <3>2, <3>3, <3>4
    <2>8. \A i \in Id : i \in Kept(S \cup {x}) <=> i \in Kept(D \cup {x})
      <3> HIDE DEF From, S
      <3> SUFFICES ASSUME NEW i \in Id
                   PROVE  i \in Kept(S \cup {x}) <=> i \in Kept(D \cup {x})
        OBVIOUS
      <3>1. /\ i \in Kept(S \cup {x}) <=> i \in S \cup {x} /\ Cardinality(From(S \cup {x}, i)) <= M
            /\ i \in Kept(D \cup {x}) <=> i \in D \cup {x} /\ Cardinality(From(D \cup {x}, i)) <= M
        BY <2>3, <2>4
      <3>2. CASE i \in S \cup {x}
        <4>1. From(S \cup {x}, i) = From(D \cup {x}, i)
          BY <2>6, <3>2
        <4> QED BY <2>4, <3>1, <3>2, <4>1
      <3>3. CASE i \in D /\ i \notin S \cup {x}
        BY <2>7, <3>1, <3>3
      <3>4. CASE i \notin D /\ i \notin S \cup {x}
        BY <3>1, <3>4
      <3> QED BY <3>2, <3>3, <3>4
    <2>9. Kept(S \cup {x}) \in SUBSET Id /\ Kept(D \cup {x}) \in SUBSET Id
      BY <2>4 DEF Kept
    <2> QED BY <2>8, <2>9
  <1> QED BY <1>1, <1>2

LEMMA InKept ==
  ASSUME NEW S \in SUBSET Id, NEW i \in Id
  PROVE  /\ Kept(S) \in SUBSET S /\ Cardinality({j \in S : j >= i}) \in Nat
         /\ i \in Kept(S) <=>
              /\ i \in S
              /\ \/ BackendMaxSnapshots = None
                 \/ ~(Cardinality({j \in S : j >= i}) > BackendMaxSnapshots)
  <1>1. {j \in S : j >= i} \in SUBSET Id
    OBVIOUS
  <1>2. Cardinality({j \in S : j >= i}) \in Nat
    BY <1>1, IdFinite, FS_Subset, FS_CardinalityType
  <1>3. BackendMaxSnapshots # None => BackendMaxSnapshots \in Nat
    OBVIOUS
  <1> QED BY <1>2, <1>3 DEF Kept

LEMMA SavedKeepNewest ==
  ASSUME NEW snaps \in [Id -> State \cup {None}]
  PROVE  /\ Saved(KeepNewest(snaps)) = Kept(Saved(snaps))
         /\ \A i \in Saved(KeepNewest(snaps)) : KeepNewest(snaps)[i] = snaps[i]
  <1> DEFINE S == Saved(snaps)
             Size(i) == Cardinality({j \in S : j >= i})
             K == KeepNewest(snaps)
  <1>1. S \in SUBSET Id /\ Saved(K) \in SUBSET Id
    BY DEF Saved
  <1>2. \A i \in Id : K[i] = IF BackendMaxSnapshots # None /\ Size(i) > BackendMaxSnapshots
                            THEN None ELSE snaps[i]
    BY DEF KeepNewest
  <1>3. \A i \in Id : (i \in Saved(K) <=> K[i] # None) /\ (i \in S <=> snaps[i] # None)
    BY DEF Saved
  <1>4. ASSUME NEW i \in Id
        PROVE  i \in Kept(S) <=>
                 i \in S /\ (BackendMaxSnapshots = None \/ ~(Size(i) > BackendMaxSnapshots))
    BY <1>1, InKept
  <1>5. Kept(S) \in SUBSET Id
    BY <1>1 DEF Kept
  <1> HIDE DEF S, K, Size
  <1>6. \A i \in Id : i \in Saved(K) <=> i \in Kept(S)
    BY <1>2, <1>3, <1>4
  <1>7. \A i \in Saved(K) : K[i] = snaps[i]
    BY <1>1, <1>2, <1>3
  <1>8. Saved(K) = Kept(S)
    BY <1>1, <1>5, <1>6
  <1> QED BY <1>7, <1>8 DEF S, K

LEMMA InitSnapshotInv == Init => SnapshotInv
  BY InitRevertInv DEF Init, SnapshotInv, Saved, Due, Kept

LEMMA NextSnapshotInv == SnapshotInv /\ [Next]_vars => SnapshotInv'
  <1> DEFINE Faithful == \A id \in Saved(snapshots) : id \in ok /\ snapshots[id] = after[id]
             AllKept == Saved(snapshots) = Kept(Due)
             Opened == opened <= last_id /\ (pc # "Idle" => opened < last_id)
             Full == AllKept /\ Opened
  <1> SUFFICES ASSUME SnapshotInv, [Next]_vars PROVE Faithful' /\ Full'
    BY NextRevertInv DEF SnapshotInv
  <1>0. /\ TypeOK /\ TypeOK' /\ Faithful /\ Full
        /\ pc # "Idle" => after[last_id] = db /\ last_id \notin ok
        /\ \A id \in ok : id <= last_id
        /\ opened \in Int /\ last_id \in Int /\ \A id \in ok : id \in Int
    <2>1. ok \subseteq Id /\ opened \in Int /\ last_id \in Int
      BY DEF SnapshotInv, RevertInv, LogInv, TypeOK, Id
    <2>2. \A id \in ok : id \in Int
      BY <2>1 DEF Id
    <2> QED BY <2>1, <2>2, NextTypeOK DEF SnapshotInv, RevertInv, LogInv
  <1>1. ASSUME NEW id \in Id, NEW batch \in Batches, CommitTries(id, batch)
        PROVE  Faithful' /\ Full'
    <2>1. /\ UNCHANGED <<snapshots, ok>>
          /\ \A i \in ok : after'[i] = after[i]
      BY <1>1, <1>0 DEF CommitTries, StartCommit, TypeOK, Id
    <2>2. Opened' /\ opened' = opened
      BY <1>0, <1>1 DEF CommitTries, StartCommit, Id
    <2>3. Faithful'
      BY <1>0, <2>1 DEF Saved
    <2>4. AllKept'
      BY <1>0, <2>1, <2>2 DEF Saved, Due, Kept
    <2> QED BY <2>2, <2>3, <2>4
  <1>2. ASSUME NEW id \in Id, NEW batch \in Batches, NEW recorded \in SUBSET Touched(batch),
               CommitTriesFails(id, batch, recorded)
        PROVE  Faithful' /\ Full'
    <2>1. UNCHANGED <<snapshots, ok, after, opened>>
      BY <1>2 DEF CommitTriesFails, ghosts
    <2>2. Opened'
      BY <1>0, <1>2, <2>1 DEF CommitTriesFails, StartCommit, Id
    <2>3. Faithful' /\ AllKept'
      BY <1>0, <2>1 DEF Saved, Due, Kept
    <2> QED BY <2>2, <2>3
  <1>3. CASE CommitLog
    BY <1>0, <1>3 DEF CommitLog, Saved, Due, Kept
  <1>4. CASE CommitLogFails
    BY <1>0, <1>4 DEF CommitLogFails, Saved, Due, Kept
  <1>5. CASE PruneLog
    BY <1>0, <1>5 DEF PruneLog, ghosts, Saved, Due, Kept
  <1>6. CASE PruneLogFails
    BY <1>0, <1>6 DEF PruneLogFails, ghosts, Saved, Due, Kept
  <1>7. CASE CreateSnapshot
    <2>1. /\ pc = "Snapshot" /\ last_id \in Id /\ after[last_id] = db /\ last_id \notin ok
          /\ ok' = ok \cup {last_id} /\ after' = after
      BY <1>0, <1>7 DEF CreateSnapshot, TypeOK
    <2>2. CASE ~SnapshotDue
      <3>1. snapshots' = snapshots
        BY <1>7, <2>2 DEF CreateSnapshot
      <3>2. Due' = Due
        BY <1>7, <2>1, <2>2 DEF CreateSnapshot, Due, SnapshotDue
      <3> QED BY <1>0, <1>7, <2>1, <3>1, <3>2 DEF CreateSnapshot, Saved, Kept
    <2>3. CASE SnapshotDue
      <3> DEFINE snaps == [snapshots EXCEPT ![last_id] = db]
      <3>1. snapshots' = KeepNewest(snaps)
        BY <1>7, <2>3 DEF CreateSnapshot
      <3>2. snaps \in [Id -> State \cup {None}]
        BY <1>0 DEF TypeOK
      <3>3. db # None
        BY <1>0 DEF TypeOK, State
      <3>4. Saved(snaps) = Saved(snapshots) \cup {last_id}
        BY <1>0, <2>1, <3>3 DEF Saved, TypeOK
      <3>5. \A i \in Saved(snaps) : i \in ok' /\ snaps[i] = after[i]
        BY <1>0, <2>1, <3>4 DEF TypeOK, Saved
      <3>6. Due' = Due \cup {last_id}
        <4>1. opened' = opened /\ opened < last_id
          BY <1>0, <1>7, <2>1 DEF CreateSnapshot
        <4> QED BY <2>1, <2>3, <4>1 DEF Due, SnapshotDue
      <3>7. \A j \in Due : j < last_id
        BY <1>0, <2>1 DEF Due, TypeOK, Id
      <3>8. Due \in SUBSET Id
        BY <1>0 DEF Due, TypeOK
      <3> HIDE DEF snaps
      <3>9. /\ Saved(snapshots') = Kept(Saved(snaps))
            /\ \A i \in Saved(snapshots') : snapshots'[i] = snaps[i]
        BY <3>1, <3>2, SavedKeepNewest
      <3>10. Saved(snapshots') \in SUBSET Saved(snaps)
        BY <3>9 DEF Kept
      <3>11. Faithful'
        BY <2>1, <3>5, <3>9, <3>10 DEF Saved
      <3>12. Saved(snapshots') = Kept(Due')
        <4>1. Saved(snaps) = Kept(Due) \cup {last_id}
          BY <1>0, <3>4
        <4> QED BY <2>1, <3>6, <3>7, <3>8, <3>9, <4>1, KeptAdd
      <3>13. Opened'
        BY <1>0, <1>7 DEF CreateSnapshot
      <3> QED BY <3>11, <3>12, <3>13 DEF Saved, Kept
    <2> QED BY <2>2, <2>3
  <1>8. CASE Crash
    <2>1. Saved(snapshots') = {} /\ opened' = last_id /\ last_id' = last_id /\ ok' = ok
      BY <1>8 DEF Crash, Saved
    <2>2. Due' = {}
      BY <1>0, <2>1 DEF Due
    <2>3. Opened'
      BY <1>0, <1>8, <2>1 DEF Crash
    <2> QED BY <2>1, <2>2, <2>3 DEF Saved, Kept
  <1>9. CASE UNCHANGED vars
    BY <1>0, <1>9 DEF vars, ghosts, Saved, Due, Kept
  <1> QED BY <1>1, <1>2, <1>3, <1>4, <1>5, <1>6, <1>7, <1>8, <1>9 DEF Next

\* The snapshots are the newest ones that were due since the process was
\* started, up to the backend's limit, each the database as of its commit, for
\* every interval and every limit, through failed commits and restarts.
THEOREM SnapshotsAreKept == Spec => []SnapshotsKept
  <1>1. SnapshotInv => SnapshotsKept
    BY DEF SnapshotInv, SnapshotsKept, Due, Kept
  <1> QED BY InitSnapshotInv, NextSnapshotInv, <1>1, PTL DEF Spec

(***************************************************************************)
(* LogsExpire.  The commit that removes a log is the only one that can,    *)
(* and between the removal and its end no log comes back.                  *)
(***************************************************************************)
ExpireInv ==
    /\ RevertInv
    /\ MaxSavedTrieLogs # None =>
         \A i \in Id : trie_log[i] # NoChanges =>
             /\ i <= last_id /\ ~LogsDisabled
             /\ i + MaxSavedTrieLogs \notin ok
             /\ pc = "Snapshot" => i + MaxSavedTrieLogs # last_id

LEMMA InitExpireInv == Init => ExpireInv
  BY InitRevertInv DEF Init, ExpireInv

LEMMA NextExpireInv == ExpireInv /\ [Next]_vars => ExpireInv'
  <1> SUFFICES ASSUME ExpireInv, [Next]_vars, MaxSavedTrieLogs # None,
                      NEW i \in Id, trie_log'[i] # NoChanges
               PROVE  /\ i <= last_id' /\ ~LogsDisabled
                      /\ i + MaxSavedTrieLogs \notin ok'
                      /\ pc' = "Snapshot" => i + MaxSavedTrieLogs # last_id'
    BY NextRevertInv DEF ExpireInv
  <1>0. /\ TypeOK /\ last_id \in Int /\ i \in Int /\ MaxSavedTrieLogs \in Nat
        /\ \A id \in ok : id <= last_id
        /\ trie_log[i] # NoChanges =>
             /\ i <= last_id /\ ~LogsDisabled
             /\ i + MaxSavedTrieLogs \notin ok
             /\ pc = "Snapshot" => i + MaxSavedTrieLogs # last_id
    BY DEF ExpireInv, RevertInv, LogInv, TypeOK, Id
  <1>1. ASSUME NEW id \in Id, NEW batch \in Batches, CommitTries(id, batch)
        PROVE  i <= last_id' /\ ~LogsDisabled /\ i + MaxSavedTrieLogs \notin ok' /\ pc' = "Log"
    BY <1>0, <1>1 DEF CommitTries, StartCommit, Id
  <1>2. ASSUME NEW id \in Id, NEW batch \in Batches, NEW recorded \in SUBSET Touched(batch),
               CommitTriesFails(id, batch, recorded)
        PROVE  i <= last_id' /\ ~LogsDisabled /\ i + MaxSavedTrieLogs \notin ok' /\ pc' = "Idle"
    BY <1>0, <1>2 DEF CommitTriesFails, StartCommit, Id, ghosts
  <1>3. CASE CommitLog
    <2>1. CASE LogsDisabled
      BY <1>0, <1>3, <2>1 DEF CommitLog
    <2>2. CASE ~LogsDisabled
      <3>1. pc' = "Prune" /\ last_id' = last_id /\ ok' = ok
        BY <1>3, <2>2 DEF CommitLog
      <3>2. CASE i = last_id
        <4>1. i + MaxSavedTrieLogs > last_id
          BY <1>0, <2>2, <3>2 DEF LogsDisabled
        <4>2. \A id \in ok : id # i + MaxSavedTrieLogs
          BY <1>0, <4>1 DEF TypeOK, Id
        <4> QED BY <1>0, <2>2, <3>1, <3>2, <4>2
      <3>3. CASE i # last_id
        <4>1. trie_log[i] # NoChanges
          BY <1>0, <1>3, <2>2, <3>3 DEF CommitLog, TypeOK
        <4> QED BY <1>0, <3>1, <4>1
      <3> QED BY <3>2, <3>3
    <2> QED BY <2>1, <2>2
  <1>4. CASE CommitLogFails
    BY <1>0, <1>4 DEF CommitLogFails
  <1>5. CASE PruneLog
    <2>1. trie_log[i] # NoChanges /\ i \notin Expired
      BY <1>5 DEF PruneLog
    <2>2. i + MaxSavedTrieLogs # last_id
      BY <1>0, <2>1 DEF Expired
    <2> QED BY <1>0, <1>5, <2>1, <2>2 DEF PruneLog, ghosts
  <1>6. CASE PruneLogFails
    BY <1>0, <1>6 DEF PruneLogFails, ghosts
  <1>7. CASE CreateSnapshot
    BY <1>0, <1>7 DEF CreateSnapshot
  <1>8. CASE Crash
    BY <1>0, <1>8 DEF Crash
  <1>9. CASE UNCHANGED vars
    BY <1>0, <1>9 DEF vars, ghosts
  <1> QED BY <1>1, <1>2, <1>3, <1>4, <1>5, <1>6, <1>7, <1>8, <1>9 DEF Next

\* A log is gone for good once the commit that comes max_saved_trie_logs ids
\* later has returned Ok, for every maximum, with gaps between the ids, failed
\* commits, failed removals and restarts before and after it (KeyValueDB::commit).
THEOREM LogsDoExpire == Spec => []LogsExpire
  <1>1. ExpireInv => LogsExpire
    BY DEF ExpireInv, LogsExpire
  <1> QED BY InitExpireInv, NextExpireInv, <1>1, PTL DEF Spec

(***************************************************************************)
(* LogBound.  A log is removed by the commit that comes max_saved_trie_logs *)
(* ids later, so no more logs than that are left when each id is committed *)
(* and no removal fails; at every point of a commit only a window of ids   *)
(* can have a log.                                                         *)
(***************************************************************************)
BoundInv ==
    /\ TypeOK
    /\ MaxSavedTrieLogs # None =>
         \A i \in Id : trie_log[i] # NoChanges =>
             /\ i <= last_id /\ i + MaxSavedTrieLogs >= last_id
             /\ pc = "Log" => i < last_id
             /\ pc \in {"Idle", "Snapshot"} => i + MaxSavedTrieLogs > last_id

LEMMA InitBoundInv == Init => BoundInv
  BY InitTypeOK DEF Init, BoundInv

LEMMA NextBoundInv ==
  ASSUME ~IdGaps, ~Failures, BoundInv, [Next]_vars
  PROVE  BoundInv'
  <1>0. TypeOK /\ TypeOK' /\ last_id \in Int
    BY NextTypeOK DEF BoundInv, TypeOK, Id
  <1> SUFFICES ASSUME MaxSavedTrieLogs # None, NEW i \in Id, trie_log'[i] # NoChanges
               PROVE  /\ i <= last_id' /\ i + MaxSavedTrieLogs >= last_id'
                      /\ pc' = "Log" => i < last_id'
                      /\ pc' \in {"Idle", "Snapshot"} => i + MaxSavedTrieLogs > last_id'
    BY <1>0 DEF BoundInv
  <1>1. i \in Int /\ MaxSavedTrieLogs \in Nat
    BY DEF Id
  <1>2. trie_log[i] # NoChanges =>
             /\ i <= last_id /\ i + MaxSavedTrieLogs >= last_id
             /\ pc = "Log" => i < last_id
             /\ pc \in {"Idle", "Snapshot"} => i + MaxSavedTrieLogs > last_id
    BY DEF BoundInv
  <1>3. ASSUME NEW id \in Id, NEW batch \in Batches, CommitTries(id, batch)
        PROVE  /\ i <= last_id' /\ i + MaxSavedTrieLogs >= last_id'
               /\ pc' = "Log" /\ i < last_id'
    BY <1>0, <1>1, <1>2, <1>3 DEF CommitTries, StartCommit
  <1>4. CASE CommitLog
    <2>1. CASE LogsDisabled
      BY <1>0, <1>1, <1>2, <1>4, <2>1 DEF CommitLog, LogsDisabled
    <2>2. CASE ~LogsDisabled
      <3>1. i # last_id => trie_log[i] # NoChanges
        BY <1>0, <1>4, <2>2 DEF CommitLog, TypeOK
      <3> QED BY <1>0, <1>1, <1>2, <1>4, <2>2, <3>1 DEF CommitLog
    <2> QED BY <2>1, <2>2
  <1>5. CASE PruneLog
    <2>1. trie_log[i] # NoChanges /\ i \notin Expired
      BY <1>5 DEF PruneLog
    <2>2. i + MaxSavedTrieLogs # last_id
      BY <1>0, <1>1, <2>1 DEF Expired
    <2> QED BY <1>0, <1>1, <1>2, <1>5, <2>1, <2>2 DEF PruneLog
  <1>6. CASE CreateSnapshot
    BY <1>0, <1>1, <1>2, <1>6 DEF CreateSnapshot
  <1>7. CASE UNCHANGED vars
    BY <1>2, <1>7 DEF vars
  <1> QED BY <1>3, <1>4, <1>5, <1>6, <1>7
          DEF Next, CommitTriesFails, CommitLogFails, PruneLogFails, Crash

LEMMA BoundInvLogBound ==
  ASSUME BoundInv, pc = "Idle", MaxSavedTrieLogs # None
  PROVE  Cardinality({id \in Id : trie_log[id] # NoChanges}) <= MaxSavedTrieLogs
  <1> DEFINE S == {id \in Id : trie_log[id] # NoChanges}
             first == last_id - MaxSavedTrieLogs + 1
  <1>1. last_id \in Int /\ MaxSavedTrieLogs \in Nat /\ first \in Int
    BY DEF BoundInv, TypeOK, Id
  <1>2. S \in SUBSET (first..last_id)
    BY <1>1 DEF BoundInv, Id
  <1>3. /\ IsFiniteSet(first..last_id)
        /\ Cardinality(first..last_id) = IF first > last_id THEN 0 ELSE last_id - first + 1
    <2> HIDE DEF first
    <2> QED BY <1>1, FS_Interval
  <1>4. Cardinality(first..last_id) = MaxSavedTrieLogs
    BY <1>1, <1>3
  <1> HIDE DEF S, first
  <1>5. Cardinality(S) <= MaxSavedTrieLogs
    BY <1>2, <1>3, <1>4, FS_Subset
  <1> QED BY <1>5 DEF S

\* With consecutive ids and no failing write no more trie logs than the
\* configured maximum are saved between commits, for every maximum, zero too.
THEOREM LogsAreBounded == ~IdGaps /\ ~Failures => (Spec => []LogBound)
  <1> SUFFICES ASSUME ~IdGaps, ~Failures PROVE Spec => []LogBound
    OBVIOUS
  <1>1. BoundInv /\ [Next]_vars => BoundInv'
    BY NextBoundInv
  <1>2. BoundInv => LogBound
    BY BoundInvLogBound DEF LogBound
  <1> QED BY InitBoundInv, <1>1, <1>2, PTL DEF Spec
=============================================================================
