------------------------- MODULE ConnectionsProofs --------------------------
(***************************************************************************)
(* Proofs about Connections, for any numbers of tasks, addresses and       *)
(* places.  The three invariants are inductive together with two more      *)
(* facts: a task that has passed the check does not lead to this node, and *)
(* the maximum holds of a bootstrapping node too.                          *)
(***************************************************************************)
EXTENDS Connections, FiniteSetTheorems, TLAPS

(* Who has passed the check is somebody else.                              *)
Foreign == \A t \in Tasks : task[t] # Free /\ task[t].step # "handshake" => task[t].instance_id # Own

(* PeerMapIsSound, with the maximum for bootstrapping nodes as well.       *)
PeerMapIsBounded ==
    /\ Cardinality(Connected) <= MaxPeers
    /\ \A a, b \in Connected : peer_map[a].instance_id = peer_map[b].instance_id => a = b
    /\ Own \notin ConnectedIds

IInv == TypeOK /\ PeerMapIsBounded /\ EntriesMatchTasks /\ BanIsRemembered /\ Foreign

LEMMA InitInvariant == Init => IInv
  <1> SUFFICES ASSUME Init PROVE IInv
    OBVIOUS
  <1>1. Connected = {} /\ ConnectedIds = {} /\ \A a \in Addresses : Owners(a) = {}
    BY DEF Init, Connected, ConnectedIds, Owners
  <1>2. Cardinality(Connected) <= MaxPeers
    <2>1. Cardinality({}) = 0
      BY FS_EmptySet
    <2> QED BY <1>1, <2>1, ConnectionsAssumption
  <1>3. TypeOK
    BY ConnectionsAssumption DEF Init, TypeOK, PeerTasks
  <1> QED
    BY <1>1, <1>2, <1>3
    DEF Init, IInv, PeerMapIsBounded, EntriesMatchTasks, BanIsRemembered, Foreign

(* A step that leaves the map, the bans and every owner alone.             *)
LEMMA MapUntouched ==
    ASSUME IInv,
           UNCHANGED <<peer_map, peer_standings, banned, stranded>>,
           \A a \in Addresses : Owners(a)' = Owners(a),
           \A t \in Tasks : \A a \in Addresses :
               t \in Owners(a) => task'[t].instance_id = task[t].instance_id
    PROVE  PeerMapIsBounded' /\ EntriesMatchTasks' /\ BanIsRemembered'
  BY DEF IInv, PeerMapIsBounded, EntriesMatchTasks, BanIsRemembered, Connected, ConnectedIds

(* A task goes to another step.                                            *)
LEMMA TaskMoves ==
    ASSUME TypeOK, NEW t \in Tasks, task[t] # Free,
           NEW step \in {"accepted", "ready", "entered", "running", "closing"},
           NEW s \in Standings,
           \/ task' = [task EXCEPT ![t].step = step]
           \/ task' = [task EXCEPT ![t].step = step, ![t].standing = s]
    PROVE  /\ task' \in [Tasks -> PeerTasks]
           /\ \A u \in Tasks \ {t} : task'[u] = task[u]
           /\ task'[t] # Free /\ task'[t].step = step
           /\ task'[t].address = task[t].address
           /\ task'[t].instance_id = task[t].instance_id
  BY DEF TypeOK, PeerTasks, Free

(* A task ends.                                                            *)
LEMMA TaskEnds ==
    ASSUME TypeOK, NEW t \in Tasks, task' = Ends(t)
    PROVE  /\ task' \in [Tasks -> PeerTasks]
           /\ \A u \in Tasks \ {t} : task'[u] = task[u]
           /\ task'[t] = Free
           /\ \A a \in Addresses : Owners(a)' = Owners(a) \ {t}
  BY DEF TypeOK, PeerTasks, Ends, Owners

(* A task that has not entered the map goes on or ends.                    *)
LEMMA OutsideMap ==
    ASSUME IInv, NEW t \in Tasks,
           \A a \in Addresses : t \notin Owners(a),
           \A u \in Tasks \ {t} : task'[u] = task[u],
           task'[t] = Free \/ task'[t].step \in {"handshake", "accepted", "ready"},
           UNCHANGED <<peer_map, peer_standings, banned, stranded>>
    PROVE  PeerMapIsBounded' /\ EntriesMatchTasks' /\ BanIsRemembered'
  <1>1. \A a \in Addresses : Owners(a)' = Owners(a)
    BY DEF Owners
  <1>2. \A u \in Tasks : \A a \in Addresses :
            u \in Owners(a) => task'[u].instance_id = task[u].instance_id
    BY DEF Owners
  <1> QED BY <1>1, <1>2, MapUntouched

(* A task that has entered the map goes on; only its standing may change.  *)
LEMMA InsideMap ==
    ASSUME IInv, NEW t \in Tasks, task[t] # Free,
           task[t].step \in {"entered", "running", "closing"},
           \A u \in Tasks \ {t} : task'[u] = task[u],
           task'[t] # Free, task'[t].step \in {"entered", "running", "closing"},
           task'[t].address = task[t].address, task'[t].instance_id = task[t].instance_id,
           UNCHANGED <<peer_standings, banned, stranded>>,
           \A a \in Addresses : peer_map[a] = None <=> peer_map'[a] = None,
           \A a \in Connected : peer_map'[a].instance_id = peer_map[a].instance_id
    PROVE  PeerMapIsBounded' /\ EntriesMatchTasks' /\ BanIsRemembered'
  <1>1. \A a \in Addresses : Owners(a)' = Owners(a)
    BY DEF Owners
  <1>2. \A u \in Tasks : task'[u] # Free => task'[u].instance_id = task[u].instance_id
    OBVIOUS
  <1>3. Connected' = Connected /\ ConnectedIds' = ConnectedIds
    BY DEF Connected, ConnectedIds
  <1>4. PeerMapIsBounded'
    BY <1>3 DEF IInv, PeerMapIsBounded
  <1>5. EntriesMatchTasks'
    BY <1>1, <1>2, <1>3 DEF IInv, EntriesMatchTasks, Connected, Owners
  <1> QED BY <1>4, <1>5 DEF IInv, BanIsRemembered

(* The entry of a goes.                                                    *)
LEMMA EntryRemoved ==
    ASSUME IInv, NEW t \in Tasks, NEW a \in Addresses, t \in Owners(a),
           task' = Ends(t), peer_map' = [peer_map EXCEPT ![a] = None], stranded' = stranded
    PROVE  PeerMapIsBounded' /\ EntriesMatchTasks'
  <1>1. Connected' = Connected \ {a}
    BY DEF Connected, IInv, TypeOK
  <1>2. \A b \in Connected' : peer_map'[b] = peer_map[b]
    BY <1>1 DEF Connected, IInv, TypeOK
  <1>3. Cardinality(Connected') <= MaxPeers
    <2>1. IsFiniteSet(Connected)
      BY ConnectionsAssumption, FS_Subset DEF Connected
    <2>2. Connected' \subseteq Connected
      BY <1>1
    <2>3. Cardinality(Connected') <= Cardinality(Connected) /\ IsFiniteSet(Connected')
      BY <2>1, <2>2, FS_Subset
    <2>4. Cardinality(Connected) \in Nat /\ Cardinality(Connected') \in Nat
      BY <2>1, <2>3, FS_CardinalityType
    <2> QED BY <2>3, <2>4, ConnectionsAssumption DEF IInv, PeerMapIsBounded
  <1>4. PeerMapIsBounded'
    BY <1>1, <1>2, <1>3 DEF IInv, PeerMapIsBounded, ConnectedIds
  <1>5. /\ \A b \in Addresses : Owners(b)' = Owners(b) \ {t}
        /\ \A u \in Tasks \ {t} : task'[u] = task[u]
    BY TaskEnds DEF IInv
  <1>6. Owners(a)' = {} /\ \A b \in Addresses \ {a} : Owners(b)' = Owners(b)
    BY <1>5 DEF IInv, EntriesMatchTasks, Owners
  <1>7. EntriesMatchTasks'
    BY <1>1, <1>2, <1>5, <1>6 DEF IInv, EntriesMatchTasks, Connected
  <1> QED BY <1>4, <1>7

(* The entry of a is added under the write lock.                           *)
LEMMA EntryAdded ==
    ASSUME IInv, NEW t \in Tasks, NEW a \in Addresses, NEW e \in Entries,
           task[t] # Free, task[t].step = "ready", task[t].address = a,
           e.instance_id = task[t].instance_id,
           MayEnter(a, e.instance_id),
           \A u \in Tasks \ {t} : task'[u] = task[u],
           task'[t] # Free, task'[t].step = "entered", task'[t].address = a,
           task'[t].instance_id = task[t].instance_id,
           peer_map' = [peer_map EXCEPT ![a] = e], stranded' = stranded
    PROVE  PeerMapIsBounded' /\ EntriesMatchTasks'
  <1>0. peer_map \in [Addresses -> Entries \cup {None}] /\ e # None /\ a \notin Connected
    BY ConnectionsAssumption DEF IInv, TypeOK, Entries, MayEnter
  <1>1. /\ Connected' = Connected \cup {a} /\ peer_map'[a] = e
        /\ \A b \in Connected : peer_map'[b] = peer_map[b] /\ b # a
    BY <1>0 DEF Connected
  <1>2. Cardinality(Connected') <= MaxPeers
    <2>1. IsFiniteSet(Connected)
      BY ConnectionsAssumption, FS_Subset DEF Connected
    <2>2. Cardinality(Connected \cup {a}) = Cardinality(Connected) + 1
      BY <1>0, <2>1, FS_AddElement
    <2>3. Cardinality(Connected) \in Nat
      BY <2>1, FS_CardinalityType
    <2> QED BY <1>1, <2>2, <2>3, ConnectionsAssumption DEF MayEnter
  <1>3. ConnectedIds' = ConnectedIds \cup {e.instance_id} /\ e.instance_id \notin ConnectedIds
    BY <1>1 DEF ConnectedIds, MayEnter
  <1>4. e.instance_id # Own
    BY DEF IInv, Foreign
  <1>5. PeerMapIsBounded'
    <2>1. \A b, c \in Connected' : peer_map'[b].instance_id = peer_map'[c].instance_id => b = c
      BY <1>1, <1>3 DEF IInv, PeerMapIsBounded, ConnectedIds
    <2> QED BY <1>2, <1>3, <1>4, <2>1 DEF IInv, PeerMapIsBounded
  <1>6. /\ Owners(a)' = Owners(a) \cup {t}
        /\ \A b \in Addresses \ {a} : Owners(b)' = Owners(b)
    BY DEF Owners
  <1>7. Owners(a) = {}
    <2> SUFFICES ASSUME NEW u \in Owners(a) PROVE FALSE
      OBVIOUS
    <2> QED BY <1>0 DEF IInv, EntriesMatchTasks, Connected, Owners
  <1>8. a \notin stranded
    BY <1>0 DEF IInv, EntriesMatchTasks
  <1>9. EntriesMatchTasks'
    <2>1. \A u \in Tasks : \A b \in Addresses : u \in Owners(b)' =>
              /\ peer_map'[b] # None
              /\ peer_map'[b].instance_id = task'[u].instance_id
              /\ b \notin stranded'
              /\ \A v \in Owners(b)' : v = u
      <3> SUFFICES ASSUME NEW u \in Tasks, NEW b \in Addresses, u \in Owners(b)'
                   PROVE  /\ peer_map'[b] # None
                          /\ peer_map'[b].instance_id = task'[u].instance_id
                          /\ b \notin stranded'
                          /\ \A v \in Owners(b)' : v = u
        OBVIOUS
      <3>1. CASE b = a
        BY <1>0, <1>1, <1>6, <1>7, <1>8, <3>1
      <3>2. CASE b # a
        <4>1. u \in Owners(b) /\ u # t /\ Owners(b)' = Owners(b)
          BY <1>6, <3>2 DEF Owners
        <4>2. /\ peer_map[b] # None /\ peer_map[b].instance_id = task[u].instance_id
              /\ b \notin stranded /\ \A v \in Owners(b) : v = u
          BY <4>1 DEF IInv, EntriesMatchTasks
        <4>3. peer_map'[b] = peer_map[b]
          BY <1>0, <3>2
        <4> QED BY <4>1, <4>2, <4>3
      <3> QED BY <3>1, <3>2
    <2>2. \A b \in Connected' : Owners(b)' = {} => b \in stranded'
      BY <1>1, <1>6 DEF IInv, EntriesMatchTasks, Connected
    <2>3. stranded' \subseteq Connected'
      BY <1>1 DEF IInv, EntriesMatchTasks
    <2> QED BY <2>1, <2>2, <2>3 DEF EntriesMatchTasks
  <1> QED BY <1>5, <1>9

-----------------------------------------------------------------------------
(* Where a task stands decides whether it is an owner.                     *)
LEMMA OwnerSteps ==
    ASSUME TypeOK, NEW t \in Tasks
    PROVE  /\ task[t] = Free \/ At(t, "handshake") \/ At(t, "accepted") \/ At(t, "ready") =>
                  \A a \in Addresses : t \notin Owners(a)
           /\ At(t, "entered") \/ At(t, "running") \/ At(t, "closing") =>
                  task[t].address \in Addresses /\ t \in Owners(task[t].address)
           /\ task[t] # Free => task[t].address \in Addresses /\ task[t].instance_id \in InstanceIds
  BY DEF TypeOK, PeerTasks, Owners, At

(* Every step of a task keeps the invariant.                               *)
LEMMA TaskStep ==
    ASSUME IInv, UNCHANGED bootstrap, NEW t \in Tasks, PeerTask(t)
    PROVE  IInv'
  <1>0. TypeOK /\ Foreign
    BY DEF IInv
  <1>1. ASSUME NEW a \in Addresses, NEW inbound \in BOOLEAN, Spawn(t, a, inbound)
        PROVE  IInv'
    <2>1. PICK id \in Reports[a] :
              task' = [task EXCEPT ![t] =
                          [ step |-> "handshake", address |-> a, instance_id |-> id,
                            inbound |-> inbound, standing |-> 0, told |-> FALSE ]]
      BY <1>1 DEF Spawn
    <2>2. id \in InstanceIds /\ 0 \in Standings
      BY ConnectionsAssumption DEF InstanceIds, Standings
    <2>3. task' \in [Tasks -> PeerTasks]
      BY <1>0, <2>1, <2>2 DEF TypeOK, PeerTasks
    <2>4. (\A u \in Tasks \ {t} : task'[u] = task[u]) /\ task'[t].step = "handshake"
      BY <1>0, <2>1 DEF TypeOK
    <2>5. PeerMapIsBounded' /\ EntriesMatchTasks' /\ BanIsRemembered'
      BY <1>0, <1>1, <2>4, OwnerSteps, OutsideMap DEF Spawn
    <2>6. TypeOK' /\ Foreign'
      BY <1>0, <1>1, <2>3, <2>4 DEF Spawn, TypeOK, Foreign
    <2> QED BY <2>5, <2>6 DEF IInv
  <1>2. CASE Accept(t) \/ CallPeer(t) \/ Reconnect(t) \/ Discover(t)
    <2>1. \A pp \in Candidates : pp.address \in Addresses
      BY <1>0, ConnectionsAssumption DEF Candidates, TypeOK, Addresses
    <2>2. Callers \subseteq Addresses /\ Listeners \subseteq Addresses /\ CliPeers \subseteq Addresses
      BY ConnectionsAssumption DEF Addresses
    <2> QED BY <1>1, <1>2, <2>1, <2>2 DEF Accept, CallPeer, Reconnect, Discover
  <1>3. CASE Fail(t)
    <2>1. \A a \in Addresses : t \notin Owners(a)
      BY <1>0, <1>3, OwnerSteps DEF Fail
    <2>2. /\ task' \in [Tasks -> PeerTasks]
          /\ \A u \in Tasks \ {t} : task'[u] = task[u]
          /\ task'[t] = Free
      BY <1>0, <1>3, TaskEnds DEF Fail
    <2>3. PeerMapIsBounded' /\ EntriesMatchTasks' /\ BanIsRemembered'
      BY <1>3, <2>1, <2>2, OutsideMap DEF Fail
    <2>4. TypeOK' /\ Foreign'
      BY <1>0, <1>3, <2>2 DEF Fail, TypeOK, Foreign
    <2> QED BY <2>3, <2>4 DEF IInv
  <1>4. CASE Check(t)
    <2>1. \A a \in Addresses : t \notin Owners(a)
      BY <1>0, <1>4, OwnerSteps DEF Check
    <2>2. /\ task' \in [Tasks -> PeerTasks]
          /\ \A u \in Tasks \ {t} : task'[u] = task[u]
          /\ task'[t] # Free /\ task'[t].step = "accepted"
          /\ task'[t].instance_id = task[t].instance_id
      <3>1. 0 \in Standings
        BY ConnectionsAssumption DEF Standings
      <3> QED BY <1>0, <1>4, <3>1, TaskMoves DEF Check, At, Goto
    <2>3. PeerMapIsBounded' /\ EntriesMatchTasks' /\ BanIsRemembered'
      BY <1>4, <2>1, <2>2, OutsideMap DEF Check
    <2>4. task[t].instance_id # Own
      BY <1>4 DEF Check, connection_is_allowed
    <2>5. room_requests' \in 0..Capacity
      BY <1>0, <1>4, ConnectionsAssumption DEF Check, TypeOK
    <2>6. TypeOK' /\ Foreign'
      BY <1>0, <1>4, <2>2, <2>4, <2>5 DEF Check, TypeOK, Foreign
    <2> QED BY <2>3, <2>6 DEF IInv
  <1>5. CASE ReadStanding(t)
    <2>0. At(t, "accepted") /\ task[t] # Free /\ task[t].step = "accepted"
      BY <1>5 DEF ReadStanding, At
    <2>1. \A a \in Addresses : t \notin Owners(a)
      BY <1>0, <2>0, OwnerSteps
    <2>2. PICK s : /\ s \in Standings
                   /\ task' = [task EXCEPT ![t].step = "ready", ![t].standing = s]
      <3>1. Ip[task[t].address] \in Ips /\ 0 \in Standings
        BY <1>0, <2>0, OwnerSteps, ConnectionsAssumption DEF Ips, Standings
      <3>2. peer_standings[Ip[task[t].address]] \in Standings \cup {None}
        BY <1>0, <3>1 DEF TypeOK
      <3> QED BY <1>5, <3>1, <3>2 DEF ReadStanding
    <2>3. /\ task' \in [Tasks -> PeerTasks]
          /\ \A u \in Tasks \ {t} : task'[u] = task[u]
          /\ task'[t] # Free /\ task'[t].step = "ready"
          /\ task'[t].instance_id = task[t].instance_id
      BY <1>0, <2>0, <2>2, TaskMoves
    <2>4. PeerMapIsBounded' /\ EntriesMatchTasks' /\ BanIsRemembered'
      BY <1>5, <2>1, <2>3, OutsideMap DEF ReadStanding
    <2>5. TypeOK' /\ Foreign'
      BY <1>0, <1>5, <2>0, <2>3 DEF ReadStanding, TypeOK, Foreign
    <2> QED BY <2>4, <2>5 DEF IInv
  <1>6. CASE Enter(t)
    <2> DEFINE a == task[t].address
               id == task[t].instance_id
               e == [instance_id |-> id, standing |-> task[t].standing]
    <2>0. At(t, "ready") /\ task[t] # Free /\ task[t].step = "ready"
      BY <1>6 DEF Enter, At
    <2>1. a \in Addresses /\ e \in Entries /\ e.instance_id = id /\ 0 \in Standings
      BY <1>0, <2>0, ConnectionsAssumption DEF TypeOK, PeerTasks, Entries, Standings
    <2>2. CASE MayEnter(a, id)
      <3>1. /\ peer_map' = [peer_map EXCEPT ![a] = e]
            /\ task' = [task EXCEPT ![t].step = "entered", ![t].standing = 0]
        BY <1>6, <2>2 DEF Enter
      <3>2. /\ task' \in [Tasks -> PeerTasks]
            /\ \A u \in Tasks \ {t} : task'[u] = task[u]
            /\ task'[t] # Free /\ task'[t].step = "entered"
            /\ task'[t].address = a /\ task'[t].instance_id = id
        BY <1>0, <2>0, <2>1, <3>1, TaskMoves
      <3>3. stranded' = stranded
        BY <1>6 DEF Enter
      <3>4. PeerMapIsBounded' /\ EntriesMatchTasks'
        <4> HIDE DEF e
        <4> QED BY <2>0, <2>1, <2>2, <3>1, <3>2, <3>3, EntryAdded
      <3>5. TypeOK' /\ Foreign' /\ BanIsRemembered'
        <4>1. peer_map' \in [Addresses -> Entries \cup {None}]
          BY <1>0, <2>1, <3>1 DEF TypeOK
        <4> QED BY <1>0, <1>6, <2>0, <3>2, <4>1 DEF Enter, TypeOK, Foreign, IInv, BanIsRemembered
      <3> QED BY <3>4, <3>5 DEF IInv
    <2>3. CASE ~MayEnter(a, id)
      <3>1. task' = Ends(t) /\ UNCHANGED <<peer_map, peer_standings, banned, stranded>>
        BY <1>6, <2>3 DEF Enter
      <3>2. /\ task' \in [Tasks -> PeerTasks]
            /\ \A u \in Tasks \ {t} : task'[u] = task[u]
            /\ task'[t] = Free
        BY <1>0, <3>1, TaskEnds
      <3>3. PeerMapIsBounded' /\ EntriesMatchTasks' /\ BanIsRemembered'
        BY <1>0, <2>0, <3>1, <3>2, OwnerSteps, OutsideMap
      <3>4. TypeOK' /\ Foreign'
        BY <1>0, <1>6, <3>1, <3>2 DEF Enter, TypeOK, Foreign
      <3> QED BY <3>3, <3>4 DEF IInv
    <2> QED BY <2>2, <2>3
  <1>7. CASE Strand(t)
    <2>0. PICK a \in Addresses : a = task[t].address
      BY <1>0, <1>7, OwnerSteps DEF Strand
    <2>1. a \in Addresses /\ t \in Owners(a)
      BY <1>0, <1>7, <2>0, OwnerSteps DEF Strand
    <2>2. /\ task' \in [Tasks -> PeerTasks]
          /\ \A u \in Tasks \ {t} : task'[u] = task[u]
          /\ task'[t] = Free
          /\ \A b \in Addresses : Owners(b)' = Owners(b) \ {t}
      BY <1>0, <1>7, TaskEnds DEF Strand
    <2>3. Owners(a)' = {} /\ \A b \in Addresses \ {a} : Owners(b)' = Owners(b)
      <3>1. \A u \in Owners(a) : u = t
        BY <2>1 DEF IInv, EntriesMatchTasks
      <3>2. \A b \in Addresses \ {a} : t \notin Owners(b)
        BY <2>0 DEF Owners
      <3>3. Owners(a)' = {}
        BY <2>1, <2>2, <3>1
      <3>4. \A b \in Addresses \ {a} : Owners(b)' = Owners(b)
        BY <2>2, <3>2
      <3> QED BY <3>3, <3>4
    <2>4. Connected' = Connected /\ stranded' = stranded \cup {a} /\ peer_map' = peer_map
          /\ a \in Connected
      BY <1>7, <2>0, <2>1 DEF Strand, Connected, IInv, EntriesMatchTasks
    <2>5. EntriesMatchTasks'
      <3>1. \A u \in Tasks : \A b \in Addresses : u \in Owners(b)' =>
                /\ b # a /\ u # t /\ u \in Owners(b) /\ Owners(b)' = Owners(b)
                /\ task'[u] = task[u]
        BY <2>2, <2>3
      <3>2. \A u \in Tasks : \A b \in Addresses : u \in Owners(b)' =>
                /\ peer_map'[b] # None
                /\ peer_map'[b].instance_id = task'[u].instance_id
                /\ b \notin stranded'
                /\ \A v \in Owners(b)' : v = u
        BY <2>4, <3>1 DEF IInv, EntriesMatchTasks
      <3>3. \A b \in Connected' : Owners(b)' = {} => b \in stranded'
        BY <2>3, <2>4 DEF IInv, EntriesMatchTasks, Connected
      <3>4. stranded' \subseteq Connected'
        BY <2>4 DEF IInv, EntriesMatchTasks
      <3> QED BY <3>2, <3>3, <3>4 DEF EntriesMatchTasks
    <2>6. PeerMapIsBounded' /\ BanIsRemembered'
      BY <1>7, <2>4 DEF Strand, IInv, PeerMapIsBounded, BanIsRemembered, ConnectedIds
    <2>7. TypeOK' /\ Foreign'
      BY <1>0, <1>7, <2>0, <2>1, <2>2 DEF Strand, TypeOK, Foreign
    <2> QED BY <2>5, <2>6, <2>7 DEF IInv
  <1>8. CASE Run(t) \/ Leave(t) \/ Disconnect(t)
    <2>0. /\ task[t] # Free /\ task[t].step \in {"entered", "running"}
          /\ UNCHANGED <<peer_map, peer_standings, banned, stranded>>
          /\ UNCHANGED <<room_requests, potential_peers>>
      BY <1>8 DEF Run, Leave, Disconnect, At
    <2>1. PICK step \in {"running", "closing"} : task' = [task EXCEPT ![t].step = step]
      BY <1>8 DEF Run, Leave, Disconnect, Goto
    <2>2. /\ task' \in [Tasks -> PeerTasks]
          /\ \A u \in Tasks \ {t} : task'[u] = task[u]
          /\ task'[t] # Free /\ task'[t].step = step
          /\ task'[t].address = task[t].address
          /\ task'[t].instance_id = task[t].instance_id
      <3>1. 0 \in Standings
        BY ConnectionsAssumption DEF Standings
      <3> QED BY <1>0, <2>0, <2>1, <3>1, TaskMoves
    <2>3. PeerMapIsBounded' /\ EntriesMatchTasks' /\ BanIsRemembered'
      BY <2>0, <2>2, InsideMap
    <2>4. disconnection_times' \subseteq InstanceIds
      BY <1>0, <1>8, <2>0, OwnerSteps DEF Run, Leave, Disconnect, TypeOK
    <2>5. TypeOK' /\ Foreign'
      BY <1>0, <2>0, <2>2, <2>4 DEF TypeOK, Foreign
    <2> QED BY <2>3, <2>5 DEF IInv
  <1>9. CASE Sanction(t)
    <2> DEFINE a == task[t].address
    <2>0. task[t] # Free /\ task[t].step = "running" /\ a \in Addresses
          /\ t \in Owners(a) /\ peer_map[a] # None
      BY <1>0, <1>9, OwnerSteps DEF Sanction, At, IInv, EntriesMatchTasks
    <2>1. PICK severity \in Severities :
            LET new == sanction(peer_map[a].standing, severity)
            IN  /\ peer_map' = [peer_map EXCEPT ![a].standing = new]
                /\ task' = IF is_bad(new) THEN Goto(t, "closing") ELSE task
      BY <1>9 DEF Sanction
    <2> DEFINE new == sanction(peer_map[a].standing, severity)
    <2>2. new \in Standings
      <3>1. peer_map[a].standing \in Standings /\ severity \in Int
        BY <1>0, <2>0, ConnectionsAssumption DEF TypeOK, Entries
      <3> QED BY <3>1, ConnectionsAssumption DEF sanction, Standings
    <2> HIDE DEF new
    <2>3. /\ peer_map' \in [Addresses -> Entries \cup {None}]
          /\ \A b \in Addresses : peer_map[b] = None <=> peer_map'[b] = None
          /\ \A b \in Connected : peer_map'[b].instance_id = peer_map[b].instance_id
      <3>1. peer_map' = [peer_map EXCEPT ![a].standing = new]
        BY <2>1 DEF new
      <3>2. peer_map[a] \in Entries
        BY <1>0, <2>0 DEF TypeOK
      <3>3. [peer_map[a] EXCEPT !.standing = new] \in Entries
        BY <2>2, <3>2 DEF Entries
      <3>4. peer_map'[a] \in Entries /\ peer_map'[a].instance_id = peer_map[a].instance_id
        BY <1>0, <2>0, <3>1, <3>2, <3>3 DEF TypeOK, Entries
      <3>5. \A b \in Addresses \ {a} : peer_map'[b] = peer_map[b]
        BY <1>0, <3>1 DEF TypeOK
      <3>6. None \notin Entries
        BY ConnectionsAssumption DEF Entries
      <3> QED BY <1>0, <2>0, <3>1, <3>4, <3>5, <3>6 DEF TypeOK, Connected
    <2>4. /\ task' \in [Tasks -> PeerTasks]
          /\ \A u \in Tasks \ {t} : task'[u] = task[u]
          /\ task'[t] # Free /\ task'[t].step \in {"running", "closing"}
          /\ task'[t].address = task[t].address
          /\ task'[t].instance_id = task[t].instance_id
      <3>1. CASE task' = task
        BY <1>0, <2>0, <3>1 DEF TypeOK
      <3>2. CASE task' = [task EXCEPT ![t].step = "closing"]
        BY <1>0, <2>0, <2>2, <3>2, TaskMoves
      <3> QED BY <2>1, <3>1, <3>2 DEF Goto
    <2>5. UNCHANGED <<peer_standings, banned, stranded>>
      BY <1>9 DEF Sanction
    <2>6. PeerMapIsBounded' /\ EntriesMatchTasks' /\ BanIsRemembered'
      BY <2>0, <2>3, <2>4, <2>5, InsideMap
    <2>7. TypeOK' /\ Foreign'
      BY <1>0, <1>9, <2>0, <2>3, <2>4 DEF Sanction, TypeOK, Foreign
    <2> QED BY <2>6, <2>7 DEF IInv
  <1>10. CASE PeerDiscoveryAnswer(t)
    <2>1. UNCHANGED <<task, peer_map, peer_standings, disconnection_times, room_requests, banned,
                      stranded>>
      BY <1>10 DEF PeerDiscoveryAnswer
    <2>2. PeerMapIsBounded' /\ EntriesMatchTasks' /\ BanIsRemembered'
      BY <2>1, MapUntouched DEF Owners
    <2>3. potential_peers' \subseteq Gossip
      BY <1>0, <1>10 DEF PeerDiscoveryAnswer, TypeOK
    <2> QED BY <1>0, <2>1, <2>2, <2>3 DEF IInv, TypeOK, Foreign
  <1>11. CASE Close(t)
    <2> DEFINE a == task[t].address
               standing == peer_map[a].standing
    <2>0. a \in Addresses /\ t \in Owners(a) /\ peer_map[a] # None
      BY <1>0, <1>11, OwnerSteps DEF Close, IInv, EntriesMatchTasks
    <2>1. /\ peer_map' = [peer_map EXCEPT ![a] = None]
          /\ peer_standings' = write_peer_standing_on_decrease(Ip[a], standing)
          /\ banned' = IF is_bad(standing) THEN banned \cup {Ip[a]} ELSE banned
          /\ task' = Ends(t) /\ stranded' = stranded
      BY <1>11 DEF Close
    <2>2. PeerMapIsBounded' /\ EntriesMatchTasks'
      BY <2>0, <2>1, EntryRemoved
    <2>3. standing \in Standings /\ Ip[a] \in Ips
      BY <1>0, <2>0 DEF TypeOK, Entries, Ips
    <2>4. /\ standing \in Int /\ Tolerance \in Nat /\ None \notin Int
          /\ \A i \in Ips : peer_standings[i] = None \/ peer_standings[i] \in Int
      BY <1>0, <2>3, ConnectionsAssumption DEF Standings, TypeOK
    <2> HIDE DEF standing, a
    <2>5. peer_standings' \in [Ips -> Standings \cup {None}]
      BY <1>0, <2>1, <2>3 DEF write_peer_standing_on_decrease, TypeOK
    <2>6. BanIsRemembered'
      <3>1. \A i \in Ips : is_bad(peer_standings[i]) => is_bad(peer_standings'[i])
        BY <1>0, <2>1, <2>3, <2>4 DEF write_peer_standing_on_decrease, is_bad, TypeOK
      <3>2. is_bad(standing) => is_bad(peer_standings'[Ip[a]])
        BY <1>0, <2>1, <2>3, <2>4 DEF write_peer_standing_on_decrease, is_bad, TypeOK
      <3>3. \A i \in banned : i \in Ips /\ is_bad(peer_standings[i])
        BY <1>0 DEF IInv, BanIsRemembered, TypeOK
      <3>5. ASSUME NEW i \in banned' PROVE is_bad(peer_standings'[i])
        BY <2>1, <3>1, <3>2, <3>3, <3>5
      <3> QED BY <3>5 DEF BanIsRemembered, is_bad
    <2>7. task' \in [Tasks -> PeerTasks] /\ (\A u \in Tasks \ {t} : task'[u] = task[u])
          /\ task'[t] = Free
      BY <1>0, <2>1, TaskEnds
    <2>8. peer_map' \in [Addresses -> Entries \cup {None}] /\ banned' \subseteq Ips
      BY <1>0, <2>1, <2>3 DEF TypeOK
    <2>9. TypeOK' /\ Foreign'
      BY <1>0, <1>11, <2>1, <2>5, <2>7, <2>8 DEF Close, TypeOK, Foreign
    <2> QED BY <2>2, <2>6, <2>9 DEF IInv
  <1> QED BY <1>2, <1>3, <1>4, <1>5, <1>6, <1>7, <1>8, <1>9, <1>10, <1>11 DEF PeerTask

(* A broadcast changes no more than who has heard it.                      *)
LEMMA TellStep ==
    ASSUME IInv, NEW a \in Addresses, Tell(a),
           UNCHANGED bootstrap,
           UNCHANGED <<peer_map, peer_standings, disconnection_times, potential_peers, banned,
                       stranded>>,
           room_requests' \in 0..Capacity
    PROVE  IInv'
  <1>0. task \in [Tasks -> PeerTasks]
    BY DEF IInv, TypeOK
  <1>1. \A t \in Tasks : /\ task'[t] \in PeerTasks
                         /\ task[t] = Free <=> task'[t] = Free
                         /\ task[t] # Free => /\ task'[t].step = task[t].step
                                              /\ task'[t].address = task[t].address
                                              /\ task'[t].instance_id = task[t].instance_id
    BY <1>0 DEF Tell, PeerTasks, Free
  <1>2. task' \in [Tasks -> PeerTasks]
    BY <1>1 DEF Tell
  <1>3. \A b \in Addresses : Owners(b)' = Owners(b)
    BY <1>1 DEF Owners
  <1>4. \A t \in Tasks : \A b \in Addresses :
            t \in Owners(b) => task'[t].instance_id = task[t].instance_id
    BY <1>1 DEF Owners
  <1>5. PeerMapIsBounded' /\ EntriesMatchTasks' /\ BanIsRemembered'
    BY <1>3, <1>4, MapUntouched
  <1> QED BY <1>1, <1>2, <1>5 DEF IInv, TypeOK, Foreign

(* The main loop, the user and the clock keep the invariant.               *)
LEMMA OtherStep ==
    ASSUME IInv, UNCHANGED bootstrap,
           MakeRoom \/ RpcDisconnect \/ ClearStandings \/ CooldownEnds \/ Restart
    PROVE  IInv'
  <1>0. TypeOK /\ Foreign
    BY DEF IInv
  <1>1. CASE MakeRoom
    <2>1. room_requests' \in 0..Capacity
      BY <1>0, <1>1, ConnectionsAssumption DEF MakeRoom, TypeOK
    <2>2. CASE DisconnectCandidates = {}
      <3>1. UNCHANGED <<task, peer_map, peer_standings, disconnection_times, potential_peers, banned,
                        stranded>>
        BY <1>1, <2>2 DEF MakeRoom
      <3>2. PeerMapIsBounded' /\ EntriesMatchTasks' /\ BanIsRemembered'
        BY <3>1, MapUntouched DEF Owners
      <3> QED BY <1>0, <2>1, <3>1, <3>2 DEF IInv, TypeOK, Foreign
    <2>3. CASE DisconnectCandidates # {}
      BY <1>1, <2>1, <2>3, TellStep DEF MakeRoom, DisconnectCandidates, Connected
    <2> QED BY <2>2, <2>3
  <1>2. CASE RpcDisconnect
    BY <1>0, <1>2, TellStep DEF RpcDisconnect, Connected, TypeOK
  <1>3. CASE ClearStandings
    <2>1. PICK S \in {{i} : i \in Ips} \cup {Ips} :
            /\ peer_map' = [a \in Addresses |->
                             IF peer_map[a] # None /\ Ip[a] \in S
                             THEN [peer_map[a] EXCEPT !.standing = 0] ELSE peer_map[a]]
            /\ peer_standings' = [i \in Ips |->
                                   IF peer_standings[i] # None /\ i \in S
                                   THEN 0 ELSE peer_standings[i]]
            /\ banned' = banned \ S
      BY <1>3 DEF ClearStandings
    <2>2. UNCHANGED <<task, disconnection_times, room_requests, potential_peers, stranded>>
      BY <1>3 DEF ClearStandings
    <2>3. 0 \in Standings
      BY ConnectionsAssumption DEF Standings
    <2>4. \A a \in Addresses :
            /\ peer_map'[a] \in Entries \cup {None}
            /\ peer_map[a] = None <=> peer_map'[a] = None
            /\ peer_map[a] # None => peer_map'[a].instance_id = peer_map[a].instance_id
      <3> SUFFICES ASSUME NEW a \in Addresses
                   PROVE  /\ peer_map'[a] \in Entries \cup {None}
                          /\ peer_map[a] = None <=> peer_map'[a] = None
                          /\ peer_map[a] # None => peer_map'[a].instance_id = peer_map[a].instance_id
        OBVIOUS
      <3>1. None \notin Entries
        BY ConnectionsAssumption DEF Entries
      <3>2. peer_map[a] \in Entries \cup {None}
        BY <1>0 DEF TypeOK
      <3>3. CASE peer_map[a] # None /\ Ip[a] \in S
        <4>1. peer_map'[a] = [peer_map[a] EXCEPT !.standing = 0]
          BY <2>1, <3>3
        <4>2. peer_map'[a] \in Entries /\ peer_map'[a].instance_id = peer_map[a].instance_id
          BY <2>3, <3>2, <3>3, <4>1 DEF Entries
        <4> QED BY <3>1, <3>3, <4>2
      <3>4. CASE ~(peer_map[a] # None /\ Ip[a] \in S)
        BY <2>1, <3>2, <3>4
      <3> QED BY <3>3, <3>4
    <2>5. Connected' = Connected /\ ConnectedIds' = ConnectedIds
      BY <2>4 DEF Connected, ConnectedIds
    <2>6. PeerMapIsBounded'
      BY <2>4, <2>5 DEF IInv, PeerMapIsBounded, Connected
    <2>7. EntriesMatchTasks'
      <3>1. \A a \in Addresses : Owners(a)' = Owners(a)
        BY <2>2 DEF Owners
      <3>2. \A t \in Tasks : \A a \in Addresses : t \in Owners(a)' =>
                /\ peer_map'[a] # None
                /\ peer_map'[a].instance_id = task'[t].instance_id
                /\ a \notin stranded'
                /\ \A u \in Owners(a)' : u = t
        BY <2>2, <2>4, <3>1 DEF IInv, EntriesMatchTasks
      <3>3. \A a \in Connected' : Owners(a)' = {} => a \in stranded'
        BY <2>2, <2>5, <3>1 DEF IInv, EntriesMatchTasks, Connected
      <3>4. stranded' \subseteq Connected'
        BY <2>2, <2>5 DEF IInv, EntriesMatchTasks
      <3> QED BY <3>2, <3>3, <3>4 DEF EntriesMatchTasks
    <2>8. BanIsRemembered'
      BY <1>0, <2>1 DEF IInv, BanIsRemembered, TypeOK, is_bad
    <2>9. TypeOK' /\ Foreign'
      <3>1. peer_map' \in [Addresses -> Entries \cup {None}]
        BY <2>1, <2>4
      <3>2. peer_standings' \in [Ips -> Standings \cup {None}] /\ banned' \subseteq Ips
        BY <1>0, <2>1, <2>3 DEF TypeOK
      <3> QED BY <1>0, <2>2, <3>1, <3>2 DEF TypeOK, Foreign
    <2> QED BY <2>6, <2>7, <2>8, <2>9 DEF IInv
  <1>4. CASE CooldownEnds
    <2>1. PeerMapIsBounded' /\ EntriesMatchTasks' /\ BanIsRemembered'
      BY <1>4, MapUntouched DEF CooldownEnds, Owners
    <2> QED BY <1>0, <1>4, <2>1 DEF CooldownEnds, IInv, TypeOK, Foreign
  <1>5. CASE Restart
    <2>1. Connected' = {} /\ ConnectedIds' = {} /\ \A a \in Addresses : Owners(a)' = {}
      BY <1>5 DEF Restart, Connected, ConnectedIds, Owners
    <2>2. Cardinality({}) = 0
      BY FS_EmptySet
    <2>3. PeerMapIsBounded'
      BY <2>1, <2>2, ConnectionsAssumption DEF PeerMapIsBounded
    <2>4. EntriesMatchTasks' /\ BanIsRemembered'
      BY <1>5, <2>1 DEF Restart, EntriesMatchTasks, BanIsRemembered, IInv
    <2>5. TypeOK' /\ Foreign'
      BY <1>0, <1>5, ConnectionsAssumption DEF Restart, TypeOK, Foreign, PeerTasks
    <2> QED BY <2>3, <2>4, <2>5 DEF IInv
  <1> QED BY <1>1, <1>2, <1>3, <1>4, <1>5

LEMMA StepInvariant == IInv /\ [Next]_vars => IInv'
  <1> SUFFICES ASSUME IInv, [Next]_vars PROVE IInv'
    OBVIOUS
  <1>1. CASE UNCHANGED bootstrap /\ \E t \in Tasks : PeerTask(t)
    BY <1>1, TaskStep
  <1>2. CASE /\ UNCHANGED bootstrap
             /\ MakeRoom \/ RpcDisconnect \/ ClearStandings \/ CooldownEnds \/ Restart
    BY <1>2, OtherStep
  <1>3. CASE UNCHANGED vars
    <2>1. UNCHANGED <<bootstrap, task, peer_map, peer_standings, disconnection_times, room_requests,
                      potential_peers, banned, stranded>>
      BY <1>3 DEF vars
    <2>2. PeerMapIsBounded' /\ EntriesMatchTasks' /\ BanIsRemembered'
      BY <2>1, MapUntouched DEF Owners
    <2>3. TypeOK' /\ Foreign'
      BY <2>1 DEF IInv, TypeOK, Foreign
    <2> QED BY <2>2, <2>3 DEF IInv
  <1> QED BY <1>1, <1>2, <1>3 DEF Next

LEMMA ConnectionsInvariant == Spec => []IInv
  BY InitInvariant, StepInvariant, PTL DEF Spec

(* The tasks, the map, the standings and the queues keep their types.      *)
THEOREM ConnectionsTypes == Spec => []TypeOK
  <1>1. IInv => TypeOK
    BY DEF IInv
  <1> QED BY <1>1, ConnectionsInvariant, PTL

(* The peer map has no instance twice, never this node, and, but for a     *)
(* bootstrapping node, no more entries than the maximum, whatever checks   *)
(* and entries of tasks interleave.                                        *)
THEOREM ConnectionsPeerMapIsSound == Spec => []PeerMapIsSound
  <1>1. IInv => PeerMapIsSound
    BY DEF IInv, PeerMapIsBounded, PeerMapIsSound
  <1> QED BY <1>1, ConnectionsInvariant, PTL

(* A bootstrapping node never has the surplus of connections that          *)
(* `check_if_connection_is_allowed' grants it and that `prune_peers' is    *)
(* there to take back: `run_wrapper' turns every peer away at the maximum. *)
THEOREM ConnectionsBootstrapHasNoSurplus ==
    Spec => [](bootstrap => Cardinality(Connected) <= MaxPeers)
  <1>1. IInv => (bootstrap => Cardinality(Connected) <= MaxPeers)
    BY DEF IInv, PeerMapIsBounded
  <1> QED BY <1>1, ConnectionsInvariant, PTL

(* Tasks that have entered the map and entries belong together one to one, *)
(* but for the entries left by a failed first message.                     *)
THEOREM ConnectionsEntriesMatchTasks == Spec => []EntriesMatchTasks
  <1>1. IInv => EntriesMatchTasks
    BY DEF IInv
  <1> QED BY <1>1, ConnectionsInvariant, PTL

(* Only the user lifts a ban.                                              *)
THEOREM ConnectionsBanIsRemembered == Spec => []BanIsRemembered
  <1>1. IInv => BanIsRemembered
    BY DEF IInv
  <1> QED BY <1>1, ConnectionsInvariant, PTL
=============================================================================
