------------------------------ MODULE DbtSchema ------------------------------
(***************************************************************************)
(* The tables of `storage_schema' as `RustyArchivalMutatorSet' uses them:  *)
(* vectors (DbtVec) with a write-back cache, two singletons (DbtSingleton) *)
(* for the active window and the sync label, and one queue of pending      *)
(* writes that all tables share (PendingWrites).                           *)
(*                                                                         *)
(* A batch applies its operations in order, so of the queue only the last  *)
(* operation on each key matters; opLen and opVal hold those.  The tables  *)
(* and the storage are owned by one struct behind the lock of the global   *)
(* state, so operations do not interleave.                                 *)
(***************************************************************************)
EXTENDS Integers, Sequences

CONSTANTS
    Vecs,       \* the vectors: aocl, swbfi, chunks
    Values,     \* digests, chunks, windows, labels
    Default,    \* the value of a singleton that was never written
    NoValue,    \* no value: absent from the cache, the database, the queue
    Deleted,    \* a pending Delete
    MaxLen,     \* bound: length of a vector
    MaxPersists \* bound: value of persist_count

ASSUME SchemaAssumption ==
    /\ Default \in Values
    /\ NoValue \notin Values /\ Deleted \notin Values /\ NoValue # Deleted
    /\ MaxLen \in Nat /\ MaxPersists \in Nat

Idx   == 0..(MaxLen - 1)
NoLen == -1

VARIABLES
    (* database *)
    dbLen, dbVal, dbWindow, dbLabel,
    (* pending writes *)
    opLen, opVal, persist_count,
    (* DbtVec *)
    current_length, cache, seen,    \* seen: the vector's own persist_count
    (* singletons, and the active window the mutator set works on *)
    window_storage, sync_label, sbf,
    (* interface *)
    out

dbVars   == <<dbLen, dbVal, dbWindow, dbLabel>>
opVars   == <<opLen, opVal, persist_count>>
vecVars  == <<current_length, cache, seen>>
oneVars  == <<window_storage, sync_label, sbf>>
vars     == <<dbVars, opVars, vecVars, oneVars, out>>

Nowhere  == [i \in Idx |-> NoValue]

(* A database that does not exist yet, and its tables after               *)
(* `restore_or_new'.                                                       *)
Init ==
    /\ dbLen = [t \in Vecs |-> NoLen] /\ dbVal = [t \in Vecs |-> Nowhere]
    /\ dbWindow = Default /\ dbLabel = Default
    /\ opLen = [t \in Vecs |-> NoLen] /\ opVal = [t \in Vecs |-> Nowhere]
    /\ persist_count = 0
    /\ current_length = [t \in Vecs |-> 0] /\ cache = [t \in Vecs |-> Nowhere]
    /\ seen = [t \in Vecs |-> 0]
    /\ window_storage = Default /\ sync_label = Default /\ sbf = Default
    /\ out = NoValue
------------------------------------------------------------------------------
persisted_length(t) == dbLen[t]

len(t) ==
    IF current_length[t] # NoLen THEN current_length[t]
    ELSE IF persisted_length(t) # NoLen THEN persisted_length(t) ELSE 0

(* The cache a write leaves: emptied when a persist happened since the     *)
(* last write to this vector, `process_persist_count'.                     *)
process_persist_count(t) == IF persist_count > seen[t] THEN Nowhere ELSE cache[t]

(* Cache first, then the database.                                         *)
Lookup(c, t, i) == IF c[i] # NoValue THEN c[i] ELSE dbVal[t][i]

get(t, i) ==
    /\ i < len(t)
    /\ out' = Lookup(cache[t], t, i)
    /\ UNCHANGED <<dbVars, opVars, vecVars, oneVars>>

(* `set', and one round of `set_many'.                                     *)
set(t, i, v) ==
    /\ i < len(t)
    /\ opVal' = [opVal EXCEPT ![t][i] = v]
    /\ cache' = [cache EXCEPT ![t] = [process_persist_count(t) EXCEPT ![i] = v]]
    /\ seen' = [seen EXCEPT ![t] = persist_count]
    /\ out' = NoValue
    /\ UNCHANGED <<dbVars, opLen, persist_count, current_length, oneVars>>

(* Mutant: the new element is queued but not cached.                       *)
PushUncached(t, v) ==
    LET n == len(t)
    IN  /\ n < MaxLen
        /\ opVal' = [opVal EXCEPT ![t][n] = v]
        /\ opLen' = [opLen EXCEPT ![t] = n + 1]
        /\ cache' = [cache EXCEPT ![t] = process_persist_count(t)]
        /\ seen' = [seen EXCEPT ![t] = persist_count]
        /\ current_length' = [current_length EXCEPT ![t] = n + 1]
        /\ out' = NoValue
        /\ UNCHANGED <<dbVars, persist_count, oneVars>>

(* `push' queues the element and the new length and caches the element.    *)
push(t, v) ==
    LET n == len(t)
    IN  /\ n < MaxLen
        /\ opVal' = [opVal EXCEPT ![t][n] = v]
        /\ opLen' = [opLen EXCEPT ![t] = n + 1]
        /\ cache' = [cache EXCEPT ![t] = [process_persist_count(t) EXCEPT ![n] = v]]
        /\ seen' = [seen EXCEPT ![t] = persist_count]
        /\ current_length' = [current_length EXCEPT ![t] = n + 1]
        /\ out' = NoValue
        /\ UNCHANGED <<dbVars, persist_count, oneVars>>

(* `pop' of a vector that is not empty; it expects current_length to be    *)
(* there.                                                                  *)
pop(t) ==
    LET n == current_length[t] - 1
        c == process_persist_count(t)
    IN  /\ len(t) > 0
        /\ opVal' = [opVal EXCEPT ![t][n] = Deleted]
        /\ opLen' = [opLen EXCEPT ![t] = n]
        /\ cache' = [cache EXCEPT ![t] = [c EXCEPT ![n] = NoValue]]
        /\ seen' = [seen EXCEPT ![t] = persist_count]
        /\ current_length' = [current_length EXCEPT ![t] = n]
        /\ out' = Lookup(c, t, n)
        /\ UNCHANGED <<dbVars, persist_count, oneVars>>

(* `clear' pops until the vector is empty.                                 *)
clear(t) ==
    LET n == len(t)
    IN  /\ n > 0
        /\ opVal' = [opVal EXCEPT ![t] = [i \in Idx |-> IF i < n THEN Deleted ELSE opVal[t][i]]]
        /\ opLen' = [opLen EXCEPT ![t] = 0]
        /\ cache' = [cache EXCEPT ![t] =
                        [i \in Idx |-> IF i < n THEN NoValue ELSE process_persist_count(t)[i]]]
        /\ seen' = [seen EXCEPT ![t] = persist_count]
        /\ current_length' = [current_length EXCEPT ![t] = 0]
        /\ out' = NoValue
        /\ UNCHANGED <<dbVars, persist_count, oneVars>>

(* Adding and removing items changes the active window in memory.          *)
SlideWindow(w) ==
    /\ sbf' = w
    /\ out' = NoValue
    /\ UNCHANGED <<dbVars, opVars, vecVars, window_storage, sync_label>>
------------------------------------------------------------------------------

(* What the batch makes of a key: its last operation, or what was there.   *)
Written(op, old) == IF op = NoValue THEN old ELSE IF op = Deleted THEN NoValue ELSE op

(* `set_sync_label' and `persist': the window becomes a pending write, all *)
(* pending writes go into one batch.  The label may be the old one.        *)
persist(l) ==
    /\ persist_count < MaxPersists
    /\ window_storage' = sbf /\ sync_label' = l
    /\ dbVal' = [t \in Vecs |-> [i \in Idx |-> Written(opVal[t][i], dbVal[t][i])]]
    /\ dbLen' = [t \in Vecs |-> IF opLen[t] = NoLen THEN dbLen[t] ELSE opLen[t]]
    /\ dbWindow' = sbf /\ dbLabel' = l
    /\ opVal' = [t \in Vecs |-> Nowhere] /\ opLen' = [t \in Vecs |-> NoLen]
    /\ persist_count' = persist_count + 1
    /\ out' = NoValue
    /\ UNCHANGED <<vecVars, sbf>>

(* Mutant: only the queue is dropped, the vectors keep their caches.       *)
DropQueueOnly ==
    /\ sbf' = window_storage
    /\ opVal' = [t \in Vecs |-> Nowhere] /\ opLen' = [t \in Vecs |-> NoLen]
    /\ out' = NoValue
    /\ UNCHANGED <<dbVars, persist_count, vecVars, window_storage, sync_label>>

(* `drop_unpersisted': window, queue, and `delete_cache' of each vector.   *)
drop_unpersisted ==
    /\ sbf' = window_storage
    /\ opVal' = [t \in Vecs |-> Nowhere] /\ opLen' = [t \in Vecs |-> NoLen]
    /\ cache' = [t \in Vecs |-> Nowhere]
    /\ current_length' = dbLen
    /\ out' = NoValue
    /\ UNCHANGED <<dbVars, persist_count, seen, window_storage, sync_label>>

(* The process ends without a flush and starts again: `connect' and        *)
(* `restore_or_new'.                                                       *)
Reopen ==
    /\ opVal' = [t \in Vecs |-> Nowhere] /\ opLen' = [t \in Vecs |-> NoLen]
    /\ persist_count' = 0 /\ seen' = [t \in Vecs |-> 0]
    /\ cache' = [t \in Vecs |-> Nowhere]
    /\ current_length' = [t \in Vecs |-> IF dbLen[t] = NoLen THEN 0 ELSE dbLen[t]]
    /\ window_storage' = dbWindow /\ sync_label' = dbLabel /\ sbf' = dbWindow
    /\ out' = NoValue
    /\ UNCHANGED dbVars

Next ==
    \/ \E t \in Vecs, v \in Values : push(t, v)
    \/ \E t \in Vecs : pop(t) \/ clear(t)
    \/ \E t \in Vecs, i \in Idx : get(t, i) \/ \E v \in Values : set(t, i, v)
    \/ \E w \in Values : SlideWindow(w)
    \/ \E l \in Values : persist(l)
    \/ drop_unpersisted
    \/ Reopen

Spec == Init /\ [][Next]_vars
------------------------------------------------------------------------------
Len0(n) == IF n = NoLen THEN 0 ELSE n

(* Every variable stays in its domain; in particular no Delete marker      *)
(* reaches the database or a cache, and lengths stay within the bound.     *)
TypeOK ==
    /\ dbLen \in [Vecs -> {NoLen} \cup 0..MaxLen] /\ opLen \in [Vecs -> {NoLen} \cup 0..MaxLen]
    /\ current_length \in [Vecs -> {NoLen} \cup 0..MaxLen]
    /\ dbVal \in [Vecs -> [Idx -> Values \cup {NoValue}]]
    /\ opVal \in [Vecs -> [Idx -> Values \cup {NoValue, Deleted}]]
    /\ cache \in [Vecs -> [Idx -> Values \cup {NoValue}]]
    /\ persist_count \in 0..MaxPersists /\ seen \in [Vecs -> 0..MaxPersists]
    /\ dbWindow \in Values /\ dbLabel \in Values /\ window_storage \in Values
    /\ sync_label \in Values /\ sbf \in Values
    /\ out \in Values \cup {NoValue}

(* The vector a reader sees, and the one the database holds.               *)
MemVec(t)  == [k \in 1..len(t) |-> Lookup(cache[t], t, k - 1)]
DiskVec(t) == [k \in 1..Len0(dbLen[t]) |-> dbVal[t][k - 1]]

Store == INSTANCE StoredVectors WITH
    mem  <- [vec |-> [t \in Vecs |-> MemVec(t)], window |-> sbf, label |-> sync_label],
    disk <- [vec |-> [t \in Vecs |-> DiskVec(t)], window |-> dbWindow, label |-> dbLabel]

(* Cache, queue and database together behave as vectors that exist once in *)
(* memory and once on disk: reads and pops return the latest write, a      *)
(* persist saves all tables at once, dropping or crashing restores them    *)
(* all to the last persist.                                                *)
StoreImplemented == Store!Spec

(* No read finds the element missing: the panic of `get' and the           *)
(* expectations of `get_many' and `get_all' are out of reach.              *)
NothingIsMissing ==
    \A t \in Vecs, i \in Idx : i < len(t) => Lookup(cache[t], t, i) # NoValue

(* `pop' finds the length it expects, also after a `delete_cache' of a     *)
(* vector that was never persisted.                                        *)
PopFindsLength == \A t \in Vecs : len(t) > 0 => current_length[t] # NoLen
==============================================================================
