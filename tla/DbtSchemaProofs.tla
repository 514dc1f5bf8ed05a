--------------------------- MODULE DbtSchemaProofs ---------------------------
(***************************************************************************)
(* Proofs about module DbtSchema, for any number and length of vectors and *)
(* any number of persists.                                                 *)
(***************************************************************************)
EXTENDS DbtSchema, SequenceTheorems, TLAPS

(* The length in memory is the pending one, or else the persisted one.     *)
LengthInv(t) ==
    /\ current_length[t] = NoLen => dbLen[t] = NoLen /\ opLen[t] = NoLen
    /\ current_length[t] # NoLen =>
          current_length[t] = IF opLen[t] # NoLen THEN opLen[t] ELSE Len0(dbLen[t])

(* A persist that the vector has not noticed left it nothing pending.      *)
SeenInv(t) ==
    /\ seen[t] <= persist_count
    /\ seen[t] < persist_count => opLen[t] = NoLen /\ opVal[t] = Nowhere

(* A cached element is what the pending writes will make of the database;  *)
(* an element that is not cached has no pending write.                     *)
CacheInv(t) ==
    \A i \in Idx : i < len(t) =>
        IF cache[t][i] # NoValue
        THEN Written(opVal[t][i], dbVal[t][i]) = cache[t][i]
        ELSE opVal[t][i] = NoValue /\ dbVal[t][i] # NoValue

DiskInv(t) == \A i \in Idx : i < Len0(dbLen[t]) => dbVal[t][i] # NoValue

SingletonInv == window_storage = dbWindow /\ sync_label = dbLabel

VecInv(t) == LengthInv(t) /\ SeenInv(t) /\ CacheInv(t) /\ DiskInv(t)

IInv == TypeOK /\ SingletonInv /\ \A t \in Vecs : VecInv(t)

(* Lengths are natural numbers within the bound.                           *)
LEMMA LenType ==
    ASSUME TypeOK, NEW t \in Vecs
    PROVE  /\ len(t) \in 0..MaxLen /\ Len0(dbLen[t]) \in 0..MaxLen
           /\ current_length[t] # NoLen => len(t) = current_length[t]
  BY SchemaAssumption DEF TypeOK, len, Len0, NoLen, persisted_length

(* Emptying the cache at the first write after a persist hides nothing.    *)
LEMMA EmptiedCache ==
    ASSUME IInv, NEW t \in Vecs
    PROVE  /\ process_persist_count(t) \in [Idx -> Values \cup {NoValue}]
           /\ \A i \in Idx : i < len(t) =>
                /\ Lookup(process_persist_count(t), t, i) = Lookup(cache[t], t, i)
                /\ IF process_persist_count(t)[i] # NoValue
                   THEN Written(opVal[t][i], dbVal[t][i]) = process_persist_count(t)[i]
                   ELSE opVal[t][i] = NoValue /\ dbVal[t][i] # NoValue
  <1>1. CASE persist_count > seen[t]
    <2>1. opVal[t] = Nowhere /\ process_persist_count(t) = Nowhere
      BY <1>1 DEF IInv, VecInv, SeenInv, TypeOK, process_persist_count
    <2>2. \A i \in Idx : opVal[t][i] = NoValue /\ process_persist_count(t)[i] = NoValue
      BY <2>1 DEF Nowhere
    <2>3. process_persist_count(t) \in [Idx -> Values \cup {NoValue}]
      BY <2>1 DEF Nowhere
    <2>4. ASSUME NEW i \in Idx, i < len(t)
          PROVE  Lookup(cache[t], t, i) = dbVal[t][i] /\ dbVal[t][i] # NoValue
      BY <2>2, <2>4 DEF IInv, VecInv, CacheInv, Lookup, Written
    <2> QED BY <2>2, <2>3, <2>4 DEF Lookup
  <1>2. CASE ~(persist_count > seen[t])
    <2>1. process_persist_count(t) = cache[t]
      BY <1>2 DEF process_persist_count
    <2> QED BY <2>1 DEF IInv, VecInv, CacheInv, TypeOK
  <1> QED BY <1>1, <1>2

(* Every element a reader can ask for is there.                            *)
LEMMA ElementsPresent ==
    ASSUME IInv, NEW t \in Vecs, NEW i \in Idx, i < len(t)
    PROVE  /\ Lookup(cache[t], t, i) \in Values
           /\ Written(opVal[t][i], dbVal[t][i]) = Lookup(cache[t], t, i)
  BY SchemaAssumption DEF IInv, VecInv, CacheInv, TypeOK, Lookup, Written

LEMMA InitIInv == Init => IInv
  <1> SUFFICES ASSUME Init PROVE IInv
    OBVIOUS
  <1>1. Nowhere \in [Idx -> Values \cup {NoValue}]
        /\ Nowhere \in [Idx -> Values \cup {NoValue, Deleted}]
    BY DEF Nowhere
  <1>2. TypeOK
    BY <1>1, SchemaAssumption DEF Init, TypeOK, NoLen
  <1>3. SingletonInv
    BY DEF Init, SingletonInv
  <1>4. ASSUME NEW t \in Vecs PROVE VecInv(t)
    BY DEF Init, VecInv, LengthInv, SeenInv, CacheInv, DiskInv, Len0, len, NoLen, Idx
  <1> QED BY <1>2, <1>3, <1>4 DEF IInv

(* What an operation does not touch keeps its invariant.                   *)
LEMMA VecUntouched ==
    ASSUME NEW u \in Vecs, VecInv(u),
           current_length'[u] = current_length[u], cache'[u] = cache[u],
           seen'[u] = seen[u], opLen'[u] = opLen[u], opVal'[u] = opVal[u],
           dbLen'[u] = dbLen[u], dbVal'[u] = dbVal[u],
           persist_count' = persist_count
    PROVE  VecInv(u)'
  BY DEF VecInv, LengthInv, SeenInv, CacheInv, DiskInv, Len0, len, persisted_length,
         Nowhere, Idx, Written

LEMMA SetIInv ==
    ASSUME IInv, NEW t \in Vecs, NEW j \in Idx, NEW v \in Values, set(t, j, v)
    PROVE  /\ IInv'
           /\ len(t)' = len(t)
           /\ \A i \in Idx : i < len(t) =>
                Lookup(cache[t], t, i)' = IF i = j THEN v ELSE Lookup(cache[t], t, i)
  <1> DEFINE c == process_persist_count(t)
  <1>0. /\ j < len(t)
        /\ opVal' = [opVal EXCEPT ![t][j] = v]
        /\ cache' = [cache EXCEPT ![t] = [c EXCEPT ![j] = v]]
        /\ seen' = [seen EXCEPT ![t] = persist_count]
        /\ out' = NoValue
        /\ UNCHANGED <<dbLen, dbVal, dbWindow, dbLabel, opLen, persist_count, current_length,
                       window_storage, sync_label, sbf>>
    BY DEF set, dbVars, oneVars
  <1>1. /\ c \in [Idx -> Values \cup {NoValue}]
        /\ \A i \in Idx : i < len(t) =>
             /\ Lookup(c, t, i) = Lookup(cache[t], t, i)
             /\ IF c[i] # NoValue
                THEN Written(opVal[t][i], dbVal[t][i]) = c[i]
                ELSE opVal[t][i] = NoValue /\ dbVal[t][i] # NoValue
    BY EmptiedCache
  <1> HIDE DEF c
  <1>2. /\ opVal'[t][j] = v /\ \A i \in Idx : i # j => opVal'[t][i] = opVal[t][i]
        /\ cache'[t][j] = v /\ \A i \in Idx : i # j => cache'[t][i] = c[i]
        /\ seen'[t] = persist_count
        /\ len(t)' = len(t)
    BY <1>0, <1>1 DEF IInv, TypeOK, len, persisted_length
  <1>3. TypeOK'
    <2>1. opVal' \in [Vecs -> [Idx -> Values \cup {NoValue, Deleted}]]
      BY <1>0 DEF IInv, TypeOK
    <2>2. cache' \in [Vecs -> [Idx -> Values \cup {NoValue}]]
      BY <1>0, <1>1 DEF IInv, TypeOK
    <2>3. seen' \in [Vecs -> 0..MaxPersists]
      BY <1>0 DEF IInv, TypeOK
    <2> QED BY <2>1, <2>2, <2>3, <1>0 DEF IInv, TypeOK, Idx
  <1>4. ASSUME NEW u \in Vecs PROVE VecInv(u)'
    <2>1. CASE u # t
      BY <2>1, <1>0, VecUntouched DEF IInv, TypeOK
    <2>2. CASE u = t
      <3>1. LengthInv(t)' /\ DiskInv(t)'
        BY <1>0 DEF IInv, VecInv, LengthInv, DiskInv, Len0, Idx
      <3>2. SeenInv(t)'
        BY <1>0, <1>2 DEF SeenInv, IInv, TypeOK
      <3>3. CacheInv(t)'
        BY <1>0, <1>1, <1>2, SchemaAssumption DEF CacheInv, Written, Idx
      <3> QED BY <3>1, <3>2, <3>3, <2>2 DEF VecInv
    <2> QED BY <2>1, <2>2
  <1>5. ASSUME NEW i \in Idx, i < len(t)
        PROVE  Lookup(cache[t], t, i)' = IF i = j THEN v ELSE Lookup(cache[t], t, i)
    BY <1>0, <1>1, <1>2, <1>5, SchemaAssumption DEF Lookup
  <1> QED BY <1>0, <1>2, <1>3, <1>4, <1>5 DEF IInv, SingletonInv

LEMMA PushIInv ==
    ASSUME IInv, NEW t \in Vecs, NEW v \in Values, push(t, v)
    PROVE  /\ IInv'
           /\ len(t) \in Idx /\ len(t)' = len(t) + 1
           /\ \A i \in Idx : /\ i < len(t) => Lookup(cache[t], t, i)' = Lookup(cache[t], t, i)
                             /\ i = len(t) => Lookup(cache[t], t, i)' = v
  <1> DEFINE c == process_persist_count(t)
             n == len(t)
  <1>0. /\ n < MaxLen
        /\ opVal' = [opVal EXCEPT ![t][n] = v]
        /\ opLen' = [opLen EXCEPT ![t] = n + 1]
        /\ cache' = [cache EXCEPT ![t] = [c EXCEPT ![n] = v]]
        /\ seen' = [seen EXCEPT ![t] = persist_count]
        /\ current_length' = [current_length EXCEPT ![t] = n + 1]
        /\ out' = NoValue
        /\ UNCHANGED <<dbLen, dbVal, dbWindow, dbLabel, persist_count,
                       window_storage, sync_label, sbf>>
    BY DEF push, dbVars, oneVars
  <1>1. /\ c \in [Idx -> Values \cup {NoValue}]
        /\ \A i \in Idx : i < n =>
             /\ Lookup(c, t, i) = Lookup(cache[t], t, i)
             /\ IF c[i] # NoValue
                THEN Written(opVal[t][i], dbVal[t][i]) = c[i]
                ELSE opVal[t][i] = NoValue /\ dbVal[t][i] # NoValue
    BY EmptiedCache
  <1>n. n \in Idx /\ n \in Nat /\ n + 1 \in 0..MaxLen /\ n + 1 # NoLen
    BY <1>0, LenType, SchemaAssumption DEF IInv, Idx, NoLen
  <1> HIDE DEF c
  <1>2. /\ opVal'[t][n] = v /\ \A i \in Idx : i # n => opVal'[t][i] = opVal[t][i]
        /\ cache'[t][n] = v /\ \A i \in Idx : i # n => cache'[t][i] = c[i]
        /\ seen'[t] = persist_count
        /\ opLen'[t] = n + 1 /\ current_length'[t] = n + 1
    BY <1>0, <1>1, <1>n DEF IInv, TypeOK
  <1>3. len(t)' = n + 1
    BY <1>2, <1>n DEF len
  <1>4. TypeOK'
    <2>1. opVal' \in [Vecs -> [Idx -> Values \cup {NoValue, Deleted}]]
      BY <1>0, <1>n DEF IInv, TypeOK
    <2>2. cache' \in [Vecs -> [Idx -> Values \cup {NoValue}]]
      BY <1>0, <1>1, <1>n DEF IInv, TypeOK
    <2>3. /\ seen' \in [Vecs -> 0..MaxPersists]
          /\ opLen' \in [Vecs -> {NoLen} \cup 0..MaxLen]
          /\ current_length' \in [Vecs -> {NoLen} \cup 0..MaxLen]
      BY <1>0, <1>n DEF IInv, TypeOK
    <2> QED BY <2>1, <2>2, <2>3, <1>0 DEF IInv, TypeOK, Idx
  <1>5. ASSUME NEW u \in Vecs PROVE VecInv(u)'
    <2>1. CASE u # t
      BY <2>1, <1>0, VecUntouched DEF IInv, TypeOK
    <2>2. CASE u = t
      <3>1. LengthInv(t)'
        BY <1>2, <1>n DEF LengthInv
      <3>2. DiskInv(t)'
        BY <1>0 DEF IInv, VecInv, DiskInv, Len0, Idx
      <3>3. SeenInv(t)'
        BY <1>0, <1>2 DEF SeenInv, IInv, TypeOK
      <3>4. CacheInv(t)'
        <4> SUFFICES ASSUME NEW i \in Idx, i < n + 1
                     PROVE  (IF cache[t][i] # NoValue
                             THEN Written(opVal[t][i], dbVal[t][i]) = cache[t][i]
                             ELSE opVal[t][i] = NoValue /\ dbVal[t][i] # NoValue)'
          BY <1>3 DEF CacheInv, Idx
        <4>1. CASE i = n
          BY <4>1, <1>2, SchemaAssumption DEF Written
        <4>2. CASE i # n
          <5>1. i < n
            BY <4>2, <1>n, SchemaAssumption DEF Idx
          <5> QED BY <5>1, <4>2, <1>0, <1>1, <1>2 DEF Written
        <4> QED BY <4>1, <4>2
      <3> QED BY <3>1, <3>2, <3>3, <3>4, <2>2 DEF VecInv
    <2> QED BY <2>1, <2>2
  <1>6. ASSUME NEW i \in Idx, i < n
        PROVE  Lookup(cache[t], t, i)' = Lookup(cache[t], t, i)
    <2>1. i # n
      BY <1>6, <1>n, SchemaAssumption DEF Idx
    <2> QED BY <2>1, <1>0, <1>1, <1>2, <1>6 DEF Lookup
  <1>7. ASSUME NEW i \in Idx, i = n
        PROVE  Lookup(cache[t], t, i)' = v
    BY <1>2, <1>0, <1>7, SchemaAssumption DEF Lookup
  <1> QED BY <1>0, <1>n, <1>3, <1>4, <1>5, <1>6, <1>7 DEF IInv, SingletonInv

LEMMA PopIInv ==
    ASSUME IInv, NEW t \in Vecs, pop(t)
    PROVE  /\ IInv'
           /\ len(t) - 1 \in Idx /\ len(t)' = len(t) - 1
           /\ \A i \in Idx : /\ i < len(t) - 1 =>
                                  Lookup(cache[t], t, i)' = Lookup(cache[t], t, i)
                             /\ i = len(t) - 1 => out' = Lookup(cache[t], t, i)
  <1> DEFINE c == process_persist_count(t)
             n == current_length[t] - 1
  <1>0. /\ len(t) > 0
        /\ opVal' = [opVal EXCEPT ![t][n] = Deleted]
        /\ opLen' = [opLen EXCEPT ![t] = n]
        /\ cache' = [cache EXCEPT ![t] = [c EXCEPT ![n] = NoValue]]
        /\ seen' = [seen EXCEPT ![t] = persist_count]
        /\ current_length' = [current_length EXCEPT ![t] = n]
        /\ out' = Lookup(c, t, n)
        /\ UNCHANGED <<dbLen, dbVal, dbWindow, dbLabel, persist_count,
                       window_storage, sync_label, sbf>>
    BY DEF pop, dbVars, oneVars
  <1>1. /\ c \in [Idx -> Values \cup {NoValue}]
        /\ \A i \in Idx : i < len(t) =>
             /\ Lookup(c, t, i) = Lookup(cache[t], t, i)
             /\ IF c[i] # NoValue
                THEN Written(opVal[t][i], dbVal[t][i]) = c[i]
                ELSE opVal[t][i] = NoValue /\ dbVal[t][i] # NoValue
    BY EmptiedCache
  <1>n. /\ n = len(t) - 1 /\ n \in Idx /\ n \in 0..MaxLen /\ n # NoLen
        /\ current_length[t] # NoLen
    <2>1. current_length[t] # NoLen
      BY <1>0, SchemaAssumption
      DEF IInv, TypeOK, VecInv, LengthInv, len, persisted_length, NoLen
    <2> QED BY <2>1, <1>0, LenType, SchemaAssumption DEF IInv, Idx, NoLen
  <1> HIDE DEF c, n
  <1>2. /\ opVal'[t][n] = Deleted /\ \A i \in Idx : i # n => opVal'[t][i] = opVal[t][i]
        /\ \A i \in Idx : i # n => cache'[t][i] = c[i]
        /\ seen'[t] = persist_count
        /\ opLen'[t] = n /\ current_length'[t] = n
    BY <1>0, <1>1, <1>n DEF IInv, TypeOK
  <1>3. len(t)' = n
    BY <1>2, <1>n DEF len
  <1>4. TypeOK'
    <2>1. opVal' \in [Vecs -> [Idx -> Values \cup {NoValue, Deleted}]]
      BY <1>0, <1>n DEF IInv, TypeOK
    <2>2. cache' \in [Vecs -> [Idx -> Values \cup {NoValue}]]
      BY <1>0, <1>1, <1>n DEF IInv, TypeOK
    <2>3. /\ seen' \in [Vecs -> 0..MaxPersists]
          /\ opLen' \in [Vecs -> {NoLen} \cup 0..MaxLen]
          /\ current_length' \in [Vecs -> {NoLen} \cup 0..MaxLen]
      BY <1>0, <1>n DEF IInv, TypeOK
    <2>4. out' \in Values \cup {NoValue}
      BY <1>0, <1>1, <1>n DEF Lookup, IInv, TypeOK
    <2> QED BY <2>1, <2>2, <2>3, <2>4, <1>0 DEF IInv, TypeOK, Idx
  <1>i. ASSUME NEW i \in Idx, i < n PROVE i # n /\ i < len(t)
    BY <1>n, <1>i, LenType, SchemaAssumption DEF Idx, IInv
  <1>5. ASSUME NEW u \in Vecs PROVE VecInv(u)'
    <2>1. CASE u # t
      BY <2>1, <1>0, VecUntouched DEF IInv, TypeOK
    <2>2. CASE u = t
      <3>1. LengthInv(t)'
        BY <1>2, <1>n DEF LengthInv
      <3>2. DiskInv(t)'
        BY <1>0 DEF IInv, VecInv, DiskInv, Len0, Idx
      <3>3. SeenInv(t)'
        BY <1>0, <1>2 DEF SeenInv, IInv, TypeOK
      <3>4. CacheInv(t)'
        <4> SUFFICES ASSUME NEW i \in Idx, i < n
                     PROVE  (IF cache[t][i] # NoValue
                             THEN Written(opVal[t][i], dbVal[t][i]) = cache[t][i]
                             ELSE opVal[t][i] = NoValue /\ dbVal[t][i] # NoValue)'
          BY <1>3 DEF CacheInv, Idx
        <4> QED BY <1>i, <1>0, <1>1, <1>2 DEF Written
      <3> QED BY <3>1, <3>2, <3>3, <3>4, <2>2 DEF VecInv
    <2> QED BY <2>1, <2>2
  <1>6. ASSUME NEW i \in Idx, i < n
        PROVE  Lookup(cache[t], t, i)' = Lookup(cache[t], t, i)
    BY <1>i, <1>6, <1>0, <1>1, <1>2 DEF Lookup
  <1>7. ASSUME NEW i \in Idx, i = n
        PROVE  out' = Lookup(cache[t], t, i)
    <2>1. i < len(t)
      BY <1>n, <1>7, LenType, SchemaAssumption DEF IInv, Idx
    <2> QED BY <2>1, <1>0, <1>1, <1>7
  <1> QED BY <1>0, <1>n, <1>3, <1>4, <1>5, <1>6, <1>7 DEF IInv, SingletonInv

LEMMA ClearIInv ==
    ASSUME IInv, NEW t \in Vecs, clear(t)
    PROVE  IInv' /\ len(t)' = 0
  <1> DEFINE c == process_persist_count(t)
             n == len(t)
             o == [i \in Idx |-> IF i < n THEN Deleted ELSE opVal[t][i]]
             d == [i \in Idx |-> IF i < n THEN NoValue ELSE c[i]]
  <1>0. /\ opVal' = [opVal EXCEPT ![t] = o]
        /\ opLen' = [opLen EXCEPT ![t] = 0]
        /\ cache' = [cache EXCEPT ![t] = d]
        /\ seen' = [seen EXCEPT ![t] = persist_count]
        /\ current_length' = [current_length EXCEPT ![t] = 0]
        /\ out' = NoValue
        /\ UNCHANGED <<dbLen, dbVal, dbWindow, dbLabel, persist_count,
                       window_storage, sync_label, sbf>>
    BY DEF clear, dbVars, oneVars
  <1>1. c \in [Idx -> Values \cup {NoValue}]
    BY EmptiedCache
  <1> HIDE DEF c
  <1>2. o \in [Idx -> Values \cup {NoValue, Deleted}] /\ d \in [Idx -> Values \cup {NoValue}]
    BY <1>1 DEF IInv, TypeOK
  <1> HIDE DEF o, d
  <1>3. seen'[t] = persist_count /\ opLen'[t] = 0 /\ current_length'[t] = 0
    BY <1>0 DEF IInv, TypeOK
  <1>4. len(t)' = 0
    BY <1>3 DEF len, NoLen
  <1>5. TypeOK'
    <2>1. /\ opVal' \in [Vecs -> [Idx -> Values \cup {NoValue, Deleted}]]
          /\ cache' \in [Vecs -> [Idx -> Values \cup {NoValue}]]
      BY <1>0, <1>2 DEF IInv, TypeOK
    <2>2. /\ seen' \in [Vecs -> 0..MaxPersists]
          /\ opLen' \in [Vecs -> {NoLen} \cup 0..MaxLen]
          /\ current_length' \in [Vecs -> {NoLen} \cup 0..MaxLen]
      BY <1>0, SchemaAssumption DEF IInv, TypeOK
    <2> QED BY <2>1, <2>2, <1>0 DEF IInv, TypeOK, Idx
  <1>6. ASSUME NEW u \in Vecs PROVE VecInv(u)'
    <2>1. CASE u # t
      BY <2>1, <1>0, VecUntouched DEF IInv, TypeOK
    <2>2. CASE u = t
      <3>1. LengthInv(t)'
        BY <1>3 DEF LengthInv, NoLen
      <3>2. DiskInv(t)'
        BY <1>0 DEF IInv, VecInv, DiskInv, Len0, Idx
      <3>3. SeenInv(t)'
        BY <1>0, <1>3 DEF SeenInv, IInv, TypeOK
      <3>4. CacheInv(t)'
        BY <1>4 DEF CacheInv, Idx
      <3> QED BY <3>1, <3>2, <3>3, <3>4, <2>2 DEF VecInv
    <2> QED BY <2>1, <2>2
  <1> QED BY <1>0, <1>4, <1>5, <1>6 DEF IInv, SingletonInv

(* After a persist, memory is unchanged and the database holds the same.   *)
LEMMA PersistIInv ==
    ASSUME IInv, NEW l \in Values, persist(l)
    PROVE  /\ IInv'
           /\ \A t \in Vecs :
                /\ len(t)' = len(t) /\ Len0(dbLen[t])' = len(t)
                /\ \A i \in Idx : i < len(t) =>
                     /\ Lookup(cache[t], t, i)' = Lookup(cache[t], t, i)
                     /\ dbVal'[t][i] = Lookup(cache[t], t, i)
  <1>0. /\ persist_count < MaxPersists
        /\ window_storage' = sbf /\ sync_label' = l
        /\ dbVal' = [t \in Vecs |-> [i \in Idx |-> Written(opVal[t][i], dbVal[t][i])]]
        /\ dbLen' = [t \in Vecs |-> IF opLen[t] = NoLen THEN dbLen[t] ELSE opLen[t]]
        /\ dbWindow' = sbf /\ dbLabel' = l
        /\ opVal' = [t \in Vecs |-> Nowhere] /\ opLen' = [t \in Vecs |-> NoLen]
        /\ persist_count' = persist_count + 1
        /\ out' = NoValue
        /\ UNCHANGED <<current_length, cache, seen, sbf>>
    BY DEF persist, vecVars
  <1>1. Nowhere \in [Idx -> Values \cup {NoValue, Deleted}] /\ \A i \in Idx : Nowhere[i] = NoValue
    BY DEF Nowhere
  <1>2. TypeOK'
    <2>1. dbVal' \in [Vecs -> [Idx -> Values \cup {NoValue}]]
      BY <1>0, SchemaAssumption DEF IInv, TypeOK, Written
    <2>2. dbLen' \in [Vecs -> {NoLen} \cup 0..MaxLen] /\ opLen' \in [Vecs -> {NoLen} \cup 0..MaxLen]
      BY <1>0 DEF IInv, TypeOK
    <2>3. opVal' \in [Vecs -> [Idx -> Values \cup {NoValue, Deleted}]]
      BY <1>0, <1>1
    <2>4. persist_count' \in 0..MaxPersists /\ seen' \in [Vecs -> 0..MaxPersists]
      BY <1>0, SchemaAssumption DEF IInv, TypeOK
    <2> QED BY <2>1, <2>2, <2>3, <2>4, <1>0 DEF IInv, TypeOK, Idx
  <1>3. ASSUME NEW t \in Vecs
        PROVE  /\ len(t)' = len(t) /\ Len0(dbLen[t])' = len(t)
               /\ current_length'[t] = NoLen => dbLen'[t] = NoLen
               /\ \A i \in Idx : i < len(t) =>
                    /\ Lookup(cache[t], t, i)' = Lookup(cache[t], t, i)
                    /\ dbVal'[t][i] = Lookup(cache[t], t, i)
                    /\ dbVal'[t][i] \in Values
    <2>1. dbLen'[t] = (IF opLen[t] = NoLen THEN dbLen[t] ELSE opLen[t])
      BY <1>0
    <2>2. /\ len(t)' = len(t) /\ Len0(dbLen[t])' = len(t)
          /\ current_length'[t] = NoLen => dbLen'[t] = NoLen
      BY <2>1, <1>0 DEF IInv, VecInv, LengthInv, len, Len0, persisted_length, TypeOK, NoLen
    <2>3. ASSUME NEW i \in Idx, i < len(t)
          PROVE  dbVal'[t][i] = Lookup(cache[t], t, i) /\ dbVal'[t][i] \in Values
      <3>1. dbVal'[t][i] = Written(opVal[t][i], dbVal[t][i])
        BY <1>0
      <3> QED BY <3>1, <2>3, ElementsPresent
    <2>4. ASSUME NEW i \in Idx, i < len(t)
          PROVE  Lookup(cache[t], t, i)' = Lookup(cache[t], t, i)
      BY <2>3, <2>4, <1>0 DEF Lookup
    <2> QED BY <2>2, <2>3, <2>4
  <1>4. ASSUME NEW t \in Vecs PROVE VecInv(t)'
    <2>1. LengthInv(t)'
      BY <1>3, <1>0 DEF LengthInv, len, IInv, TypeOK, NoLen
    <2>2. SeenInv(t)'
      BY <1>0 DEF SeenInv, Nowhere, Idx, IInv, VecInv, TypeOK
    <2>3. DiskInv(t)'
      BY <1>3, SchemaAssumption DEF DiskInv, Idx
    <2>4. CacheInv(t)'
      <3> SUFFICES ASSUME NEW i \in Idx, i < len(t)
                   PROVE  (IF cache[t][i] # NoValue
                           THEN Written(opVal[t][i], dbVal[t][i]) = cache[t][i]
                           ELSE opVal[t][i] = NoValue /\ dbVal[t][i] # NoValue)'
        BY <1>3 DEF CacheInv, Idx
      <3>1. opVal'[t][i] = NoValue
        BY <1>0, <1>1
      <3>2. dbVal'[t][i] = Lookup(cache[t], t, i) /\ dbVal'[t][i] # NoValue
        BY <1>3, SchemaAssumption
      <3> QED BY <3>1, <3>2, <1>0 DEF Written, Lookup
    <2> QED BY <2>1, <2>2, <2>3, <2>4 DEF VecInv
  <1> QED BY <1>0, <1>2, <1>3, <1>4 DEF IInv, SingletonInv

(* A state with empty caches and an empty queue shows the database.        *)
LEMMA EmptyShowsDisk ==
    ASSUME IInv, TypeOK', SingletonInv',
           dbLen' = dbLen, dbVal' = dbVal,
           opVal' = [t \in Vecs |-> Nowhere], opLen' = [t \in Vecs |-> NoLen],
           cache' = [t \in Vecs |-> Nowhere],
           \A t \in Vecs : \/ current_length'[t] = dbLen[t]
                           \/ current_length'[t] = Len0(dbLen[t]),
           \A t \in Vecs : seen'[t] <= persist_count'
    PROVE  /\ IInv'
           /\ \A t \in Vecs :
                /\ len(t)' = Len0(dbLen[t]) /\ Len0(dbLen[t])' = Len0(dbLen[t])
                /\ \A i \in Idx : Lookup(cache[t], t, i)' = dbVal[t][i]
  <1>1. \A i \in Idx : Nowhere[i] = NoValue
    BY DEF Nowhere
  <1>2. ASSUME NEW t \in Vecs
        PROVE  /\ len(t)' = Len0(dbLen[t]) /\ Len0(dbLen[t])' = Len0(dbLen[t])
               /\ \A i \in Idx : Lookup(cache[t], t, i)' = dbVal[t][i]
    <2>1. len(t)' = Len0(dbLen[t]) /\ Len0(dbLen[t])' = Len0(dbLen[t])
      BY DEF len, Len0, NoLen, persisted_length
    <2>2. \A i \in Idx : Lookup(cache[t], t, i)' = dbVal[t][i]
      BY <1>1 DEF Lookup
    <2> QED BY <2>1, <2>2
  <1>3. ASSUME NEW t \in Vecs PROVE VecInv(t)'
    <2>1. LengthInv(t)'
      BY DEF LengthInv, Len0, NoLen
    <2>2. SeenInv(t)'
      BY DEF SeenInv, Nowhere, Idx
    <2>3. DiskInv(t)'
      BY DEF DiskInv, IInv, VecInv, Len0, Idx
    <2>4. CacheInv(t)'
      BY <1>1, <1>2 DEF CacheInv, DiskInv, IInv, VecInv, Idx
    <2> QED BY <2>1, <2>2, <2>3, <2>4 DEF VecInv
  <1> QED BY <1>2, <1>3 DEF IInv

LEMMA DropIInv ==
    ASSUME IInv, drop_unpersisted
    PROVE  /\ IInv'
           /\ \A t \in Vecs :
                /\ len(t)' = Len0(dbLen[t]) /\ Len0(dbLen[t])' = Len0(dbLen[t])
                /\ \A i \in Idx : Lookup(cache[t], t, i)' = dbVal[t][i]
  <1> USE DEF drop_unpersisted, dbVars
  <1>1. Nowhere \in [Idx -> Values \cup {NoValue, Deleted}] /\ Nowhere \in [Idx -> Values \cup {NoValue}]
    BY DEF Nowhere
  <1>2. TypeOK'
    BY <1>1 DEF IInv, TypeOK, Idx
  <1>3. SingletonInv' /\ \A t \in Vecs : seen'[t] <= persist_count'
    BY DEF IInv, SingletonInv, VecInv, SeenInv
  <1> QED BY <1>2, <1>3, EmptyShowsDisk

LEMMA ReopenIInv ==
    ASSUME IInv, Reopen
    PROVE  /\ IInv'
           /\ \A t \in Vecs :
                /\ len(t)' = Len0(dbLen[t]) /\ Len0(dbLen[t])' = Len0(dbLen[t])
                /\ \A i \in Idx : Lookup(cache[t], t, i)' = dbVal[t][i]
  <1> USE DEF Reopen, dbVars
  <1>1. Nowhere \in [Idx -> Values \cup {NoValue, Deleted}] /\ Nowhere \in [Idx -> Values \cup {NoValue}]
    BY DEF Nowhere
  <1>2. TypeOK'
    <2>1. current_length' \in [Vecs -> {NoLen} \cup 0..MaxLen]
      BY SchemaAssumption DEF IInv, TypeOK
    <2>2. persist_count' \in 0..MaxPersists /\ seen' \in [Vecs -> 0..MaxPersists]
      BY SchemaAssumption
    <2> QED BY <1>1, <2>1, <2>2 DEF IInv, TypeOK, Idx
  <1>3. SingletonInv' /\ \A t \in Vecs : seen'[t] <= persist_count'
    BY DEF SingletonInv
  <1>4. \A t \in Vecs : current_length'[t] = Len0(dbLen[t])
    BY DEF Len0
  <1> QED BY <1>2, <1>3, <1>4, EmptyShowsDisk

(* Nothing but `out' or the window changes: `get', SlideWindow, stuttering. *)
LEMMA TablesUntouched ==
    ASSUME IInv, TypeOK',
           UNCHANGED <<dbVars, opVars, vecVars, window_storage, sync_label>>
    PROVE  IInv'
  <1> USE DEF dbVars, opVars, vecVars
  <1>1. \A u \in Vecs : VecInv(u)'
    BY VecUntouched DEF IInv
  <1>2. SingletonInv'
    BY DEF IInv, SingletonInv
  <1> QED BY <1>1, <1>2 DEF IInv

LEMMA GetIInv ==
    ASSUME IInv, NEW t \in Vecs, NEW i \in Idx, get(t, i)
    PROVE  IInv'
  <1>1. out' \in Values
    BY ElementsPresent DEF get
  <1>2. TypeOK'
    BY <1>1 DEF IInv, TypeOK, get, dbVars, opVars, vecVars, oneVars, Idx
  <1> QED BY <1>2, TablesUntouched DEF get, oneVars

LEMMA SlideIInv ==
    ASSUME IInv, NEW w \in Values, SlideWindow(w)
    PROVE  IInv'
  <1>1. TypeOK'
    BY DEF IInv, TypeOK, SlideWindow, dbVars, opVars, vecVars, Idx
  <1> QED BY <1>1, TablesUntouched DEF SlideWindow

LEMMA StutterIInv ==
    ASSUME IInv, UNCHANGED vars
    PROVE  IInv'
  <1>1. TypeOK'
    BY DEF IInv, TypeOK, vars, dbVars, opVars, vecVars, oneVars, Idx
  <1> QED BY <1>1, TablesUntouched DEF vars, oneVars

------------------------------------------------------------------------------
LEMMA NextIInv == IInv /\ [Next]_vars => IInv'
  <1> SUFFICES ASSUME IInv, [Next]_vars PROVE IInv'
    OBVIOUS
  <1>1. ASSUME NEW t \in Vecs, NEW v \in Values, push(t, v) PROVE IInv'
    BY <1>1, PushIInv
  <1>2. ASSUME NEW t \in Vecs, pop(t) PROVE IInv'
    BY <1>2, PopIInv
  <1>3. ASSUME NEW t \in Vecs, clear(t) PROVE IInv'
    BY <1>3, ClearIInv
  <1>4. ASSUME NEW t \in Vecs, NEW i \in Idx, get(t, i) PROVE IInv'
    BY <1>4, GetIInv
  <1>5. ASSUME NEW t \in Vecs, NEW i \in Idx, NEW v \in Values, set(t, i, v) PROVE IInv'
    BY <1>5, SetIInv
  <1>6. ASSUME NEW w \in Values, SlideWindow(w) PROVE IInv'
    BY <1>6, SlideIInv
  <1>7. ASSUME NEW l \in Values, persist(l) PROVE IInv'
    BY <1>7, PersistIInv
  <1>8. CASE drop_unpersisted
    BY <1>8, DropIInv
  <1>9. CASE Reopen
    BY <1>9, ReopenIInv
  <1>10. CASE UNCHANGED vars
    BY <1>10, StutterIInv
  <1> QED BY <1>1, <1>2, <1>3, <1>4, <1>5, <1>6, <1>7, <1>8, <1>9, <1>10 DEF Next

LEMMA Invariance == Spec => []IInv
  <1> QED BY InitIInv, NextIInv, PTL DEF Spec

(* Every variable stays in its domain.                                     *)
THEOREM TypeCorrect == Spec => []TypeOK
  <1>1. IInv => TypeOK
    BY DEF IInv
  <1> QED BY <1>1, Invariance, PTL

(* The panics of get, get_many and get_all for a missing element are out   *)
(* of reach, whatever was persisted, dropped or lost in a crash before.    *)
THEOREM NoElementMissing == Spec => []NothingIsMissing
  <1>1. IInv => NothingIsMissing
    BY ElementsPresent, SchemaAssumption DEF NothingIsMissing
  <1> QED BY <1>1, Invariance, PTL

(* The expectation of pop holds.                                           *)
THEOREM PopExpectationHolds == Spec => []PopFindsLength
  <1>1. IInv => PopFindsLength
    BY SchemaAssumption
    DEF IInv, VecInv, LengthInv, PopFindsLength, len, persisted_length, TypeOK, NoLen
  <1> QED BY <1>1, Invariance, PTL
------------------------------------------------------------------------------
(* The mapped vectors are sequences of values.                             *)
LEMMA MappedVectors ==
    ASSUME IInv, NEW t \in Vecs
    PROVE  /\ MemVec(t) \in Seq(Values) /\ Len(MemVec(t)) = len(t)
           /\ DOMAIN MemVec(t) = 1..len(t)
           /\ DiskVec(t) \in Seq(Values) /\ Len(DiskVec(t)) = Len0(dbLen[t])
           /\ DOMAIN DiskVec(t) = 1..Len0(dbLen[t])
           /\ len(t) \in Nat /\ Len0(dbLen[t]) \in Nat
           /\ len(t) <= MaxLen /\ Len0(dbLen[t]) <= MaxLen
  <1>1. len(t) \in 0..MaxLen /\ Len0(dbLen[t]) \in 0..MaxLen
    BY LenType DEF IInv
  <1>2. MemVec(t) \in [1..len(t) -> Values]
    <2>1. ASSUME NEW k \in 1..len(t) PROVE Lookup(cache[t], t, k - 1) \in Values
      <3>1. k - 1 \in Idx /\ k - 1 < len(t)
        BY <1>1, SchemaAssumption DEF Idx
      <3> QED BY <3>1, ElementsPresent
    <2> QED BY <2>1 DEF MemVec
  <1>3. DiskVec(t) \in [1..Len0(dbLen[t]) -> Values]
    <2>1. ASSUME NEW k \in 1..Len0(dbLen[t]) PROVE dbVal[t][k - 1] \in Values
      <3>1. k - 1 \in Idx /\ k - 1 < Len0(dbLen[t])
        BY <1>1, SchemaAssumption DEF Idx
      <3> QED BY <3>1 DEF IInv, VecInv, DiskInv, TypeOK
    <2> QED BY <2>1 DEF DiskVec
  <1>4. ASSUME NEW n \in Nat, NEW f \in [1..n -> Values]
        PROVE  f \in Seq(Values) /\ Len(f) = n /\ DOMAIN f = 1..n
    OBVIOUS
  <1> QED BY <1>1, <1>2, <1>3, <1>4, SchemaAssumption

LEMMA MappedMemory ==
    IInv => \A t \in Vecs : MemVec(t) \in Seq(Values) /\ Len(MemVec(t)) = len(t)
  BY MappedVectors

LEMMA MappedVectorsNext ==
    (IInv => \A t \in Vecs : MemVec(t) \in Seq(Values) /\ Len(MemVec(t)) = len(t))'
  BY MappedMemory, PTL

(* An unchanged vector maps to an unchanged sequence.                      *)
LEMMA MappedUntouched ==
    ASSUME NEW u \in Vecs, current_length'[u] = current_length[u],
           cache'[u] = cache[u], dbLen'[u] = dbLen[u], dbVal'[u] = dbVal[u]
    PROVE  MemVec(u)' = MemVec(u) /\ DiskVec(u)' = DiskVec(u)
  BY DEF MemVec, DiskVec, len, persisted_length, Lookup, Len0

LEMMA InitRefines == Init => Store!Init
  <1> SUFFICES ASSUME Init PROVE Store!Init
    OBVIOUS
  <1>1. IInv
    BY InitIInv
  <1>2. ASSUME NEW t \in Vecs PROVE MemVec(t) = <<>> /\ DiskVec(t) = <<>>
    <2>1. len(t) = 0 /\ Len0(dbLen[t]) = 0
      BY DEF Init, len, Len0, NoLen
    <2> QED BY <2>1, <1>1, MappedVectors
  <1>3. [t \in Vecs |-> DiskVec(t)] \in [Vecs -> Seq(Values)]
    BY <1>1, MappedVectors
  <1>4. [t \in Vecs |-> MemVec(t)] = [t \in Vecs |-> DiskVec(t)]
    BY <1>2
  <1> QED BY <1>2, <1>3, <1>4, SchemaAssumption DEF Init, Store!Init, Store!Contents

(* An operation on one vector, with its effect on the mapped sequence.     *)
LEMMA OneVectorChanges ==
    ASSUME NEW t \in Vecs, NEW e,
           \A u \in Vecs \ {t} : MemVec(u)' = MemVec(u),
           \A u \in Vecs : DiskVec(u)' = DiskVec(u),
           MemVec(t)' = e,
           UNCHANGED <<sbf, sync_label, dbWindow, dbLabel>>
    PROVE  /\ [vec |-> [u \in Vecs |-> MemVec(u)], window |-> sbf, label |-> sync_label]'
                = [[vec |-> [u \in Vecs |-> MemVec(u)], window |-> sbf, label |-> sync_label]
                     EXCEPT !.vec[t] = e]
           /\ UNCHANGED [vec |-> [u \in Vecs |-> DiskVec(u)], window |-> dbWindow, label |-> dbLabel]
  <1>1. [u \in Vecs |-> MemVec(u)]' = [[u \in Vecs |-> MemVec(u)] EXCEPT ![t] = e]
    OBVIOUS
  <1>2. [u \in Vecs |-> DiskVec(u)]' = [u \in Vecs |-> DiskVec(u)]
    OBVIOUS
  <1>3. ASSUME NEW f, NEW w, NEW l
        PROVE  [[vec |-> f, window |-> w, label |-> l] EXCEPT !.vec[t] = e]
                 = [vec |-> [f EXCEPT ![t] = e], window |-> w, label |-> l]
    OBVIOUS
  <1> DEFINE f == [u \in Vecs |-> MemVec(u)]
             d == [u \in Vecs |-> DiskVec(u)]
  <1>4. f' = [f EXCEPT ![t] = e] /\ d' = d
    BY <1>1, <1>2
  <1> HIDE DEF f, d
  <1>5. /\ [vec |-> f, window |-> sbf, label |-> sync_label]'
             = [[vec |-> f, window |-> sbf, label |-> sync_label] EXCEPT !.vec[t] = e]
        /\ UNCHANGED [vec |-> d, window |-> dbWindow, label |-> dbLabel]
    BY <1>3, <1>4
  <1> QED BY <1>5 DEF f, d

LEMMA PushRefines ==
    ASSUME IInv, NEW t \in Vecs, NEW v \in Values, push(t, v)
    PROVE  Store!Push(t, v)
  <1>0. /\ \A u \in Vecs \ {t} : /\ current_length'[u] = current_length[u]
                                 /\ cache'[u] = cache[u]
        /\ UNCHANGED <<dbLen, dbVal, dbWindow, dbLabel, sbf, sync_label>> /\ out' = NoValue
    BY DEF push, dbVars, oneVars, IInv, TypeOK
  <1>1. IInv' /\ len(t) \in Idx /\ len(t)' = len(t) + 1
        /\ \A i \in Idx : /\ i < len(t) => Lookup(cache[t], t, i)' = Lookup(cache[t], t, i)
                          /\ i = len(t) => Lookup(cache[t], t, i)' = v
    BY PushIInv
  <1>2. MemVec(t)' = Append(MemVec(t), v)
    <2>1. MemVec(t) \in Seq(Values) /\ Len(MemVec(t)) = len(t) /\ len(t) \in Nat
      BY MappedVectors
    <2>2. MemVec(t)' \in Seq(Values) /\ Len(MemVec(t)') = len(t) + 1
      BY <1>1, MappedVectorsNext
    <2>3. ASSUME NEW k \in 1..(len(t) + 1)
          PROVE  MemVec(t)'[k] = Append(MemVec(t), v)[k]
      <3>1. MemVec(t)'[k] = Lookup(cache[t], t, k - 1)'
        BY <1>1 DEF MemVec
      <3>2. k - 1 \in Idx
        BY <2>1, <1>1, SchemaAssumption DEF Idx
      <3>3. CASE k = len(t) + 1
        BY <3>1, <3>2, <3>3, <2>1, <1>1
      <3>4. CASE k # len(t) + 1
        <4>1. k \in 1..len(t) /\ k - 1 < len(t)
          BY <3>4, <2>1
        <4>2. MemVec(t)[k] = Lookup(cache[t], t, k - 1)
          BY <4>1 DEF MemVec
        <4>3. Append(MemVec(t), v)[k] = MemVec(t)[k]
          BY <4>1, <2>1, AppendProperties
        <4> QED BY <4>1, <4>2, <4>3, <3>1, <3>2, <1>1
      <3> QED BY <3>3, <3>4
    <2>4. Append(MemVec(t), v) \in Seq(Values) /\ Len(Append(MemVec(t), v)) = len(t) + 1
      BY <2>1, AppendProperties
    <2> QED BY <2>1, <2>2, <2>3, <2>4, SeqEqual
  <1>3. \A u \in Vecs \ {t} : MemVec(u)' = MemVec(u)
    BY <1>0, MappedUntouched
  <1>4. \A u \in Vecs : DiskVec(u)' = DiskVec(u)
    BY <1>0 DEF DiskVec, Len0
  <1>5. [u \in Vecs |-> MemVec(u)][t] = MemVec(t)
    OBVIOUS
  <1> QED BY <1>0, <1>2, <1>3, <1>4, <1>5, OneVectorChanges DEF Store!Push, Store!Return

LEMMA PopRefines ==
    ASSUME IInv, NEW t \in Vecs, pop(t)
    PROVE  Store!Pop(t)
  <1>0. /\ \A u \in Vecs \ {t} : /\ current_length'[u] = current_length[u]
                                 /\ cache'[u] = cache[u]
        /\ UNCHANGED <<dbLen, dbVal, dbWindow, dbLabel, sbf, sync_label>>
    BY DEF pop, dbVars, oneVars, IInv, TypeOK
  <1>1. IInv' /\ len(t) - 1 \in Idx /\ len(t)' = len(t) - 1
        /\ \A i \in Idx : /\ i < len(t) - 1 =>
                               Lookup(cache[t], t, i)' = Lookup(cache[t], t, i)
                          /\ i = len(t) - 1 => out' = Lookup(cache[t], t, i)
    BY PopIInv
  <1>2. /\ MemVec(t) \in Seq(Values) /\ Len(MemVec(t)) = len(t) /\ len(t) \in Nat
        /\ len(t) > 0
    BY <1>1, MappedVectors, SchemaAssumption DEF Idx
  <1>3. out' = MemVec(t)[len(t)]
    <2>1. MemVec(t)[len(t)] = Lookup(cache[t], t, len(t) - 1)
      BY <1>2 DEF MemVec
    <2> QED BY <2>1, <1>1
  <1>4. MemVec(t)' = SubSeq(MemVec(t), 1, len(t) - 1)
    <2>1. MemVec(t)' \in Seq(Values) /\ Len(MemVec(t)') = len(t) - 1
      BY <1>1, MappedVectorsNext
    <2>2. /\ SubSeq(MemVec(t), 1, len(t) - 1) \in Seq(Values)
          /\ Len(SubSeq(MemVec(t), 1, len(t) - 1)) = len(t) - 1
          /\ \A k \in 1..(len(t) - 1) : SubSeq(MemVec(t), 1, len(t) - 1)[k] = MemVec(t)[k]
      BY <1>2, SubSeqProperties
    <2>3. ASSUME NEW k \in 1..(len(t) - 1)
          PROVE  MemVec(t)'[k] = MemVec(t)[k]
      <3>1. MemVec(t)'[k] = Lookup(cache[t], t, k - 1)'
        BY <1>1 DEF MemVec
      <3>2. k - 1 \in Idx /\ k - 1 < len(t) - 1 /\ k \in 1..len(t)
        BY <1>1, <1>2, SchemaAssumption DEF Idx
      <3>3. MemVec(t)[k] = Lookup(cache[t], t, k - 1)
        BY <3>2 DEF MemVec
      <3> QED BY <3>1, <3>2, <3>3, <1>1
    <2> QED BY <2>1, <2>2, <2>3, SeqEqual
  <1>5. \A u \in Vecs \ {t} : MemVec(u)' = MemVec(u)
    BY <1>0, MappedUntouched
  <1>6. \A u \in Vecs : DiskVec(u)' = DiskVec(u)
    BY <1>0 DEF DiskVec, Len0
  <1>7. [u \in Vecs |-> MemVec(u)][t] = MemVec(t) /\ MemVec(t) # <<>>
    BY <1>2
  <1>8. /\ [vec |-> [u \in Vecs |-> MemVec(u)], window |-> sbf, label |-> sync_label]'
             = [[vec |-> [u \in Vecs |-> MemVec(u)], window |-> sbf, label |-> sync_label]
                  EXCEPT !.vec[t] = SubSeq(MemVec(t), 1, len(t) - 1)]
        /\ UNCHANGED [vec |-> [u \in Vecs |-> DiskVec(u)], window |-> dbWindow, label |-> dbLabel]
    BY <1>0, <1>4, <1>5, <1>6, OneVectorChanges
  <1>9. ASSUME NEW f, NEW w, NEW l, f[t] = MemVec(t)
        PROVE  [[vec |-> f, window |-> w, label |-> l]
                  EXCEPT !.vec[t] = SubSeq(MemVec(t), 1, len(t) - 1)]
                 = [[vec |-> f, window |-> w, label |-> l]
                      EXCEPT !.vec[t] = SubSeq(@, 1, Len(@) - 1)]
    BY <1>2, <1>9
  <1> QED BY <1>2, <1>3, <1>7, <1>8, <1>9 DEF Store!Pop, Store!Return

LEMMA SetRefines ==
    ASSUME IInv, NEW t \in Vecs, NEW j \in Idx, NEW v \in Values, set(t, j, v)
    PROVE  j + 1 \in 1..Len(MemVec(t)) /\ Store!PutAt(t, j + 1, v)
  <1>0. /\ \A u \in Vecs \ {t} : cache'[u] = cache[u]
        /\ UNCHANGED <<dbLen, dbVal, dbWindow, dbLabel, sbf, sync_label, current_length>>
        /\ out' = NoValue /\ j < len(t)
    BY DEF set, dbVars, oneVars, IInv, TypeOK
  <1>1. IInv' /\ len(t)' = len(t)
        /\ \A i \in Idx : i < len(t) =>
             Lookup(cache[t], t, i)' = IF i = j THEN v ELSE Lookup(cache[t], t, i)
    BY SetIInv
  <1>2. /\ MemVec(t) \in Seq(Values) /\ Len(MemVec(t)) = len(t) /\ len(t) \in Nat
        /\ len(t) <= MaxLen /\ DOMAIN MemVec(t) = 1..len(t)
    BY MappedVectors
  <1>3. j + 1 \in 1..Len(MemVec(t))
    BY <1>0, <1>2, SchemaAssumption DEF Idx
  <1>4. MemVec(t)' = [MemVec(t) EXCEPT ![j + 1] = v]
    <2>1. MemVec(t)' = [k \in 1..len(t) |-> Lookup(cache[t], t, k - 1)']
      BY <1>1 DEF MemVec
    <2>2. ASSUME NEW k \in 1..len(t)
          PROVE  Lookup(cache[t], t, k - 1)' = IF k = j + 1 THEN v ELSE MemVec(t)[k]
      <3>1. k - 1 \in Idx /\ k - 1 < len(t) /\ (k - 1 = j <=> k = j + 1)
        BY <1>2, SchemaAssumption DEF Idx
      <3>2. MemVec(t)[k] = Lookup(cache[t], t, k - 1)
        BY DEF MemVec
      <3> QED BY <3>1, <3>2, <1>1
    <2>3. [MemVec(t) EXCEPT ![j + 1] = v]
            = [k \in 1..len(t) |-> IF k = j + 1 THEN v ELSE MemVec(t)[k]]
      BY <1>2
    <2> QED BY <2>1, <2>2, <2>3
  <1>5. \A u \in Vecs \ {t} : MemVec(u)' = MemVec(u)
    BY <1>0, MappedUntouched
  <1>6. \A u \in Vecs : DiskVec(u)' = DiskVec(u)
    BY <1>0 DEF DiskVec, Len0
  <1>7. [u \in Vecs |-> MemVec(u)][t] = MemVec(t)
    OBVIOUS
  <1>8. /\ [vec |-> [u \in Vecs |-> MemVec(u)], window |-> sbf, label |-> sync_label]'
             = [[vec |-> [u \in Vecs |-> MemVec(u)], window |-> sbf, label |-> sync_label]
                  EXCEPT !.vec[t] = [MemVec(t) EXCEPT ![j + 1] = v]]
        /\ UNCHANGED [vec |-> [u \in Vecs |-> DiskVec(u)], window |-> dbWindow, label |-> dbLabel]
    BY <1>0, <1>4, <1>5, <1>6, OneVectorChanges
  <1>9. ASSUME NEW f, NEW w, NEW l, f[t] = MemVec(t)
        PROVE  [[vec |-> f, window |-> w, label |-> l]
                  EXCEPT !.vec[t] = [MemVec(t) EXCEPT ![j + 1] = v]]
                 = [[vec |-> f, window |-> w, label |-> l] EXCEPT !.vec[t][j + 1] = v]
    BY <1>9
  <1> QED BY <1>0, <1>3, <1>7, <1>8, <1>9 DEF Store!PutAt, Store!Return

LEMMA ClearRefines ==
    ASSUME IInv, NEW t \in Vecs, clear(t)
    PROVE  Store!Clear(t)
  <1>0. /\ \A u \in Vecs \ {t} : /\ current_length'[u] = current_length[u]
                                 /\ cache'[u] = cache[u]
        /\ UNCHANGED <<dbLen, dbVal, dbWindow, dbLabel, sbf, sync_label>> /\ out' = NoValue
    BY DEF clear, dbVars, oneVars, IInv, TypeOK
  <1>1. IInv' /\ len(t)' = 0
    BY ClearIInv
  <1>2. MemVec(t)' = <<>>
    BY <1>1, MappedVectorsNext
  <1>3. \A u \in Vecs \ {t} : MemVec(u)' = MemVec(u)
    BY <1>0, MappedUntouched
  <1>4. \A u \in Vecs : DiskVec(u)' = DiskVec(u)
    BY <1>0 DEF DiskVec, Len0
  <1> QED BY <1>0, <1>2, <1>3, <1>4, OneVectorChanges DEF Store!Clear, Store!Return

LEMMA GetRefines ==
    ASSUME IInv, NEW t \in Vecs, NEW i \in Idx, get(t, i)
    PROVE  i + 1 \in 1..Len(MemVec(t)) /\ Store!Get(t, i + 1)
  <1>1. /\ Len(MemVec(t)) = len(t) /\ len(t) \in Nat /\ i < len(t)
        /\ UNCHANGED <<dbVars, vecVars, oneVars>> /\ out' = Lookup(cache[t], t, i)
    BY MappedVectors DEF get
  <1>2. i + 1 \in 1..Len(MemVec(t)) /\ i + 1 - 1 = i
    BY <1>1, SchemaAssumption DEF Idx
  <1>3. out' = MemVec(t)[i + 1]
    <2> DEFINE k == i + 1
    <2>1. k \in 1..len(t) /\ k - 1 = i
      BY <1>1, SchemaAssumption DEF Idx
    <2> HIDE DEF k
    <2>2. MemVec(t)[k] = Lookup(cache[t], t, k - 1)
      BY <2>1 DEF MemVec
    <2> QED BY <2>1, <2>2, <1>1 DEF k
  <1>4. \A u \in Vecs : MemVec(u)' = MemVec(u) /\ DiskVec(u)' = DiskVec(u)
    BY <1>1, MappedUntouched DEF dbVars, vecVars
  <1>5. /\ [u \in Vecs |-> MemVec(u)]' = [u \in Vecs |-> MemVec(u)]
        /\ [u \in Vecs |-> DiskVec(u)]' = [u \in Vecs |-> DiskVec(u)]
        /\ [u \in Vecs |-> MemVec(u)][t] = MemVec(t)
    BY <1>4
  <1> QED BY <1>1, <1>2, <1>3, <1>5 DEF Store!Get, Store!Return, oneVars, dbVars

LEMMA SlideRefines ==
    ASSUME IInv, NEW w \in Values, SlideWindow(w)
    PROVE  Store!Slide(w)
  <1>1. /\ UNCHANGED <<dbVars, vecVars, sync_label>> /\ out' = NoValue /\ sbf' = w
    BY DEF SlideWindow
  <1>2. \A u \in Vecs : MemVec(u)' = MemVec(u) /\ DiskVec(u)' = DiskVec(u)
    BY <1>1, MappedUntouched DEF dbVars, vecVars
  <1>3. /\ [u \in Vecs |-> MemVec(u)]' = [u \in Vecs |-> MemVec(u)]
        /\ [u \in Vecs |-> DiskVec(u)]' = [u \in Vecs |-> DiskVec(u)]
    BY <1>2
  <1>4. ASSUME NEW f, NEW l
        PROVE  [[vec |-> f, window |-> sbf, label |-> l] EXCEPT !.window = w]
                 = [vec |-> f, window |-> w, label |-> l]
    OBVIOUS
  <1> QED BY <1>1, <1>3, <1>4 DEF Store!Slide, Store!Return, dbVars

LEMMA PersistRefines ==
    ASSUME IInv, NEW l \in Values, persist(l)
    PROVE  Store!Persist(l)
  <1>1. \A t \in Vecs :
            /\ len(t)' = len(t) /\ Len0(dbLen[t])' = len(t)
            /\ \A i \in Idx : i < len(t) =>
                 /\ Lookup(cache[t], t, i)' = Lookup(cache[t], t, i)
                 /\ dbVal'[t][i] = Lookup(cache[t], t, i)
    BY PersistIInv
  <1>2. ASSUME NEW t \in Vecs PROVE MemVec(t)' = MemVec(t) /\ DiskVec(t)' = MemVec(t)
    <2>1. ASSUME NEW k \in 1..len(t)
          PROVE  Lookup(cache[t], t, k - 1)' = Lookup(cache[t], t, k - 1)
                 /\ dbVal'[t][k - 1] = Lookup(cache[t], t, k - 1)
      <3>1. k - 1 \in Idx /\ k - 1 < len(t)
        BY MappedVectors, SchemaAssumption DEF Idx
      <3> QED BY <3>1, <1>1
    <2> QED BY <2>1, <1>1 DEF MemVec, DiskVec
  <1>3. /\ [u \in Vecs |-> MemVec(u)]' = [u \in Vecs |-> MemVec(u)]
        /\ [u \in Vecs |-> DiskVec(u)]' = [u \in Vecs |-> MemVec(u)]
    BY <1>2
  <1>4. ASSUME NEW f, NEW w
        PROVE  [[vec |-> f, window |-> w, label |-> sync_label] EXCEPT !.label = l]
                 = [vec |-> f, window |-> w, label |-> l]
    OBVIOUS
  <1>5. /\ sbf' = sbf /\ sync_label' = l /\ dbWindow' = sbf /\ dbLabel' = l
        /\ out' = NoValue
    BY DEF persist
  <1> QED BY <1>3, <1>4, <1>5 DEF Store!Persist, Store!Return

(* drop_unpersisted and a restart show the database again.                 *)
LEMMA RestoreRefines ==
    ASSUME IInv, drop_unpersisted \/ Reopen
    PROVE  Store!Restore
  <1>1. \A t \in Vecs :
            /\ len(t)' = Len0(dbLen[t]) /\ Len0(dbLen[t])' = Len0(dbLen[t])
            /\ \A i \in Idx : Lookup(cache[t], t, i)' = dbVal[t][i]
    BY DropIInv, ReopenIInv
  <1>2. /\ UNCHANGED <<dbLen, dbVal, dbWindow, dbLabel>> /\ out' = NoValue
        /\ sbf' = dbWindow /\ sync_label' = dbLabel
    BY DEF drop_unpersisted, Reopen, dbVars, IInv, SingletonInv
  <1>3. ASSUME NEW t \in Vecs PROVE MemVec(t)' = DiskVec(t) /\ DiskVec(t)' = DiskVec(t)
    <2>1. ASSUME NEW k \in 1..Len0(dbLen[t])
          PROVE  Lookup(cache[t], t, k - 1)' = dbVal[t][k - 1]
      <3>1. k - 1 \in Idx
        BY MappedVectors, SchemaAssumption DEF Idx
      <3> QED BY <3>1, <1>1
    <2> QED BY <2>1, <1>1, <1>2 DEF MemVec, DiskVec
  <1>4. /\ [u \in Vecs |-> MemVec(u)]' = [u \in Vecs |-> DiskVec(u)]
        /\ [u \in Vecs |-> DiskVec(u)]' = [u \in Vecs |-> DiskVec(u)]
    BY <1>3
  <1> QED BY <1>2, <1>4 DEF Store!Restore, Store!Return

(* The tables of storage_schema implement vectors with a saved copy: every *)
(* read returns the latest write, a persist saves all tables at once, and  *)
(* dropping or crashing takes all of them back to the last persist.        *)
THEOREM SchemaImplementsStore == Spec => StoreImplemented
  <1>1. Init => Store!Init
    BY InitRefines
  <1>2. IInv /\ [Next]_vars => [Store!Next]_(Store!vars)
    <2> SUFFICES ASSUME IInv, [Next]_vars PROVE Store!Next \/ UNCHANGED Store!vars
      OBVIOUS
    <2>1. ASSUME NEW t \in Vecs, NEW v \in Values, push(t, v) PROVE Store!Next
      BY <2>1, PushRefines DEF Store!Next
    <2>2. ASSUME NEW t \in Vecs, pop(t) PROVE Store!Next
      BY <2>2, PopRefines DEF Store!Next
    <2>3. ASSUME NEW t \in Vecs, clear(t) PROVE Store!Next
      BY <2>3, ClearRefines DEF Store!Next
    <2>4. ASSUME NEW t \in Vecs, NEW i \in Idx, get(t, i) PROVE Store!Next
      BY <2>4, GetRefines DEF Store!Next
    <2>5. ASSUME NEW t \in Vecs, NEW i \in Idx, NEW v \in Values, set(t, i, v)
          PROVE  Store!Next
      BY <2>5, SetRefines DEF Store!Next
    <2>6. ASSUME NEW w \in Values, SlideWindow(w) PROVE Store!Next
      BY <2>6, SlideRefines DEF Store!Next
    <2>7. ASSUME NEW l \in Values, persist(l) PROVE Store!Next
      BY <2>7, PersistRefines DEF Store!Next
    <2>8. CASE drop_unpersisted \/ Reopen
      BY <2>8, RestoreRefines DEF Store!Next
    <2>9. CASE UNCHANGED vars
      <3>1. \A u \in Vecs : MemVec(u)' = MemVec(u) /\ DiskVec(u)' = DiskVec(u)
        BY <2>9, MappedUntouched DEF vars, dbVars, vecVars
      <3>2. /\ [t \in Vecs |-> MemVec(t)]' = [t \in Vecs |-> MemVec(t)]
            /\ [t \in Vecs |-> DiskVec(t)]' = [t \in Vecs |-> DiskVec(t)]
        BY <3>1
      <3> QED BY <2>9, <3>2 DEF vars, dbVars, oneVars, Store!vars
    <2> QED BY <2>1, <2>2, <2>3, <2>4, <2>5, <2>6, <2>7, <2>8, <2>9 DEF Next
  <1> QED BY <1>1, <1>2, Invariance, PTL DEF Spec, StoreImplemented, Store!Spec
==============================================================================
