---------------------------- MODULE Connections ------------------------------
(***************************************************************************)
(* Connections to peers.  Every connection, accepted or called, is a task  *)
(* that shakes hands, is checked against the peer map, reads the standing  *)
(* of its peer, enters the peer map, runs, and ends with a callback that   *)
(* removes the entry and stores the standing.  The check and the entry are *)
(* under different locks, so that any number of other tasks get between.   *)
(*                                                                         *)
(* Addresses are socket addresses.  Time is whether the cooldown of a      *)
(* disconnected peer has elapsed; which of two connections is older is     *)
(* left open, and so is the distance of a potential peer.                  *)
(***************************************************************************)
EXTENDS Integers, FiniteSets

CONSTANTS
    Tasks,          \* peer tasks
    Callers,        \* addresses from which remote nodes call
    Listeners,      \* addresses at which remote nodes can be called
    Ip,             \* the IP of each address
    Listen,         \* the address at which the node at each address listens, if it does
    Reports,        \* for each address, the instance IDs it may report
    Gossip,         \* addresses and instance IDs that peers may tell of
    Own,            \* the own instance ID
    Incompatible,   \* addresses of nodes of incompatible versions
    CliPeers,       \* addresses given with --peers
    CliBans,        \* IPs given with --ban
    MaxPeers,       \* max_num_peers
    MaxPerIp,       \* max_connections_per_ip
    Tolerance,      \* peer_tolerance
    Severities,     \* severities of sanctions
    MaxPotential,   \* twenty times max_num_peers
    Capacity,       \* of the channel to the main loop
    None            \* no entry, no standing

Addresses == Callers \cup Listeners
Ips == {Ip[a] : a \in Addresses}
InstanceIds == UNION {Reports[a] : a \in Addresses}
Standings == -Tolerance .. Tolerance

ASSUME ConnectionsAssumption ==
    /\ IsFiniteSet(Addresses)
    /\ \A a \in Addresses : Listen[a] \in Listeners => Ip[Listen[a]] = Ip[a]
    /\ \A pp \in Gossip : pp.address \in Listeners
    /\ CliPeers \subseteq Listeners
    /\ CliBans \subseteq Ips
    /\ MaxPeers \in Nat \ {0}
    /\ MaxPerIp \in Nat
    /\ Tolerance \in Nat \ {0}
    /\ Severities \subseteq Int
    /\ MaxPotential \in Nat
    /\ Capacity \in Nat \ {0}
    /\ None \notin Int
    /\ None \notin [instance_id : InstanceIds, standing : Standings]

VARIABLES
    bootstrap,              \* the argument of the same name: this node serves newcomers
    task,                   \* the peer tasks
    peer_map,               \* for each address, its entry
    peer_standings,         \* the database, by IP
    disconnection_times,    \* instance IDs that are in their cooldown
    room_requests,          \* DisconnectFromLongestLivedPeer messages to the main loop
    potential_peers,        \* addresses learned from peers, with instance IDs
    banned,                 \* history: IPs that were banned and not pardoned
    stranded                \* history: addresses whose task ended without a callback

vars == <<bootstrap, task, peer_map, peer_standings, disconnection_times, room_requests,
          potential_peers, banned, stranded>>

Free == [step |-> "free"]

PeerTasks ==
    {Free} \cup
    [ step : {"handshake", "accepted", "ready", "entered", "running", "closing"},
      address : Addresses, instance_id : InstanceIds, inbound : BOOLEAN,
      standing : Standings, told : BOOLEAN ]

Entries == [instance_id : InstanceIds, standing : Standings]

Init ==
    /\ bootstrap \in BOOLEAN
    /\ task = [t \in Tasks |-> Free]
    /\ peer_map = [a \in Addresses |-> None]
    /\ peer_standings = [i \in Ips |-> None]
    /\ disconnection_times = {}
    /\ room_requests = 0
    /\ potential_peers = {}
    /\ banned = {}
    /\ stranded = {}

-----------------------------------------------------------------------------
(* The peer map and the standings                                          *)

Connected == {a \in Addresses : peer_map[a] # None}

ConnectedIds == {peer_map[a].instance_id : a \in Connected}

(* `PeerStanding::is_bad'.                                                 *)
is_bad(standing) == standing # None /\ standing <= -Tolerance

(* `PeerStanding::sanction'.                                               *)
sanction(standing, severity) ==
    LET sum == standing + severity
    IN  IF sum < -Tolerance THEN -Tolerance ELSE IF sum > Tolerance THEN Tolerance ELSE sum

(* Mutant: the standing is stored whatever it was before.                  *)
always_write(i, standing) == [peer_standings EXCEPT ![i] = standing]

(* `write_peer_standing_on_decrease'.                                      *)
write_peer_standing_on_decrease(i, standing) ==
    IF peer_standings[i] = None \/ peer_standings[i] > standing
    THEN [peer_standings EXCEPT ![i] = standing]
    ELSE peer_standings

(* `check_if_connection_is_allowed' does not refuse.                       *)
connection_is_allowed(a, id) ==
    /\ Ip[a] \notin CliBans
    /\ ~is_bad(peer_standings[Ip[a]])
    /\ id \notin disconnection_times
    /\ Cardinality(Connected) < MaxPeers \/ bootstrap
    /\ id \notin ConnectedIds
    /\ a \notin Connected
    /\ Cardinality({b \in Connected : Ip[b] = Ip[a]}) < MaxPerIp
    /\ id # Own
    /\ a \notin Incompatible

-----------------------------------------------------------------------------
(* How a task begins                                                       *)

Spawn(t, a, inbound) ==
    /\ task[t] = Free
    /\ \E id \in Reports[a] :
          task' = [task EXCEPT ![t] =
                      [ step |-> "handshake", address |-> a, instance_id |-> id,
                        inbound |-> inbound, standing |-> 0, told |-> FALSE ]]
    /\ UNCHANGED <<peer_map, peer_standings, disconnection_times, room_requests,
                   potential_peers, banned, stranded>>

(* A remote node calls: `answer_peer'.                                     *)
Accept(t) ==
    \E a \in Callers :
        /\ \A u \in Tasks : task[u] # Free => task[u].address # a
        /\ Spawn(t, a, TRUE)

(* The user, at start-up or by RPC, asks for a connection.                 *)
CallPeer(t) == \E a \in Listeners : Spawn(t, a, FALSE)

(* `reconnect', one of its peers: the lock is given up between two.        *)
Reconnect(t) ==
    \E a \in CliPeers \ Connected :
        /\ ~is_bad(peer_standings[Ip[a]])
        /\ Spawn(t, a, FALSE)

(* `PotentialPeersState::get_candidate', as the set of its results.        *)
Candidates ==
    LET listening == {Listen[a] : a \in Connected} \cap Listeners
        fit == {pp \in potential_peers :
                    /\ pp.instance_id \notin ConnectedIds \cup {Own}
                    /\ pp.address \notin listening}
        fresh == {pp \in fit : \A a \in listening : Ip[a] # Ip[pp.address]}
    IN  IF fresh # {} THEN fresh ELSE fit

(* `discover_peers'.                                                       *)
Discover(t) ==
    /\ Cardinality(Connected) < MaxPeers
    /\ \E pp \in Candidates : Spawn(t, pp.address, FALSE)

-----------------------------------------------------------------------------
(* A task's life                                                           *)

At(t, step) == task[t] # Free /\ task[t].step = step

Goto(t, step) == [task EXCEPT ![t].step = step]

Ends(t) == [task EXCEPT ![t] = Free]

(* The handshake fails, this node refuses or is refused, or the stream     *)
(* breaks before the entry; the callback runs after a panic only, and no   *)
(* panic can be reached here.                                              *)
Fail(t) ==
    /\ At(t, "handshake") \/ At(t, "accepted")
    /\ task' = Ends(t)
    /\ UNCHANGED <<peer_map, peer_standings, disconnection_times, room_requests,
                   potential_peers, banned, stranded>>

(* The check of `answer_peer_inner' or `call_peer_inner'.  A bootstrapping *)
(* node about to be full asks the main loop to make room.                  *)
Check(t) ==
    /\ At(t, "handshake")
    /\ connection_is_allowed(task[t].address, task[t].instance_id)
    /\ task' = Goto(t, "accepted")
    /\ IF bootstrap /\ task[t].inbound /\ MaxPeers = Cardinality(Connected) + 1
       THEN room_requests < Capacity /\ room_requests' = room_requests + 1
       ELSE UNCHANGED room_requests
    /\ UNCHANGED <<peer_map, peer_standings, disconnection_times, potential_peers, banned,
                   stranded>>

(* `run_wrapper' reads the standing from the database.                     *)
ReadStanding(t) ==
    /\ At(t, "accepted")
    /\ LET s == peer_standings[Ip[task[t].address]]
       IN  task' = [task EXCEPT ![t].step = "ready", ![t].standing = IF s = None THEN 0 ELSE s]
    /\ UNCHANGED <<peer_map, peer_standings, disconnection_times, room_requests,
                   potential_peers, banned, stranded>>

(* Mutant: the limit is not checked again.                                 *)
MayEnterUnlimited(a, id) == id \notin ConnectedIds /\ a \notin Connected

(* The checks that `run_wrapper' repeats under the write lock, the maximum *)
(* now without the exception that the first check makes for bootstrapping. *)
MayEnter(a, id) ==
    /\ id \notin ConnectedIds
    /\ Cardinality(Connected) < MaxPeers
    /\ a \notin Connected

Enter(t) ==
    /\ At(t, "ready")
    /\ LET a == task[t].address
           id == task[t].instance_id
       IN  IF MayEnter(a, id)
           THEN /\ peer_map' = [peer_map EXCEPT ![a] =
                                   [instance_id |-> id, standing |-> task[t].standing]]
                /\ task' = [task EXCEPT ![t].step = "entered", ![t].standing = 0]
           ELSE /\ task' = Ends(t)
                /\ UNCHANGED peer_map
    /\ UNCHANGED <<peer_standings, disconnection_times, room_requests, potential_peers, banned,
                   stranded>>

(* The request for a notification cannot be sent: the task returns at      *)
(* once, and its entry stays.                                              *)
Strand(t) ==
    /\ At(t, "entered")
    /\ task' = Ends(t)
    /\ stranded' = stranded \cup {task[t].address}
    /\ UNCHANGED <<peer_map, peer_standings, disconnection_times, room_requests,
                   potential_peers, banned>>

(* `run' begins.                                                           *)
Run(t) ==
    /\ At(t, "entered")
    /\ task' = Goto(t, "running")
    /\ UNCHANGED <<peer_map, peer_standings, disconnection_times, room_requests,
                   potential_peers, banned, stranded>>

(* `punish' and `reward'.  A peer in bad standing is left.                 *)
Sanction(t) ==
    /\ At(t, "running")
    /\ \E severity \in Severities :
          LET a == task[t].address
              new == sanction(peer_map[a].standing, severity)
          IN  /\ peer_map' = [peer_map EXCEPT ![a].standing = new]
              /\ task' = IF is_bad(new) THEN Goto(t, "closing") ELSE task
    /\ UNCHANGED <<peer_standings, disconnection_times, room_requests, potential_peers, banned,
                   stranded>>

(* `PeerListResponse' and `PeerDiscoveryAnswer', for one peer of the list. *)
(* A full list loses a random entry.                                       *)
PeerDiscoveryAnswer(t) ==
    /\ At(t, "running")
    /\ \E new \in Gossip :
          /\ \A pp \in potential_peers : pp.address # new.address
          /\ \E lost \in IF Cardinality(potential_peers) > MaxPotential
                         THEN {{pp} : pp \in potential_peers} ELSE {{}} :
                potential_peers' = (potential_peers \ lost) \cup {new}
    /\ UNCHANGED <<task, peer_map, peer_standings, disconnection_times, room_requests, banned,
                   stranded>>

(* `MainToPeerTask::Disconnect'.                                           *)
Disconnect(t) ==
    /\ At(t, "running")
    /\ task[t].told
    /\ disconnection_times' = disconnection_times \cup {task[t].instance_id}
    /\ task' = Goto(t, "closing")
    /\ UNCHANGED <<peer_map, peer_standings, room_requests, potential_peers, banned, stranded>>

(* The peer says bye, the stream breaks, or the task panics.               *)
Leave(t) ==
    /\ At(t, "entered") \/ At(t, "running")
    /\ task' = Goto(t, "closing")
    /\ UNCHANGED <<peer_map, peer_standings, disconnection_times, room_requests,
                   potential_peers, banned, stranded>>

(* Mutant: the entry stays.                                                *)
CloseKeepsEntry(t) ==
    /\ At(t, "closing")
    /\ task' = Ends(t)
    /\ UNCHANGED <<peer_map, peer_standings, disconnection_times, room_requests,
                   potential_peers, banned, stranded>>

(* `close_peer_connected_callback'.                                        *)
Close(t) ==
    /\ At(t, "closing")
    /\ LET a == task[t].address
           standing == peer_map[a].standing
       IN  /\ peer_map' = [peer_map EXCEPT ![a] = None]
           /\ peer_standings' = write_peer_standing_on_decrease(Ip[a], standing)
           /\ banned' = IF is_bad(standing) THEN banned \cup {Ip[a]} ELSE banned
    /\ task' = Ends(t)
    /\ UNCHANGED <<disconnection_times, room_requests, potential_peers, stranded>>

-----------------------------------------------------------------------------
(* The main loop, the user and the clock                                   *)

(* A broadcast reaches the tasks that exist; the others do not hear it.    *)
Tell(a) ==
    task' = [t \in Tasks |->
                IF task[t] # Free /\ task[t].address = a
                THEN [task[t] EXCEPT !.told = TRUE] ELSE task[t]]

(* Those among whom `DisconnectFromLongestLivedPeer' looks for the oldest. *)
DisconnectCandidates == Connected \ CliPeers

(* `PeerTaskToMain::DisconnectFromLongestLivedPeer'.                       *)
MakeRoom ==
    /\ room_requests > 0
    /\ room_requests' = room_requests - 1
    /\ IF DisconnectCandidates = {}
       THEN UNCHANGED task
       ELSE \E a \in DisconnectCandidates : Tell(a)
    /\ UNCHANGED <<peer_map, peer_standings, disconnection_times, potential_peers, banned,
                   stranded>>

(* `RPCServerToMain::PeerDisconnected'.                                    *)
RpcDisconnect ==
    /\ \E a \in Connected : Tell(a)
    /\ UNCHANGED <<peer_map, peer_standings, disconnection_times, room_requests,
                   potential_peers, banned, stranded>>

(* `clear_standing_by_ip' and `clear_all_standings'.                       *)
ClearStandings ==
    /\ \E S \in {{i} : i \in Ips} \cup {Ips} :
          /\ peer_map' = [a \in Addresses |->
                             IF peer_map[a] # None /\ Ip[a] \in S
                             THEN [peer_map[a] EXCEPT !.standing = 0] ELSE peer_map[a]]
          /\ peer_standings' = [i \in Ips |->
                                   IF peer_standings[i] # None /\ i \in S
                                   THEN 0 ELSE peer_standings[i]]
          /\ banned' = banned \ S
    /\ UNCHANGED <<task, disconnection_times, room_requests, potential_peers, stranded>>

(* `reconnect_cooldown' elapses.                                           *)
CooldownEnds ==
    /\ \E id \in disconnection_times : disconnection_times' = disconnection_times \ {id}
    /\ UNCHANGED <<task, peer_map, peer_standings, room_requests, potential_peers, banned,
                   stranded>>

(* The process ends at any point and starts again with its database.       *)
Restart ==
    /\ task' = [t \in Tasks |-> Free]
    /\ peer_map' = [a \in Addresses |-> None]
    /\ disconnection_times' = {}
    /\ room_requests' = 0
    /\ potential_peers' = {}
    /\ stranded' = {}
    /\ UNCHANGED <<peer_standings, banned>>

-----------------------------------------------------------------------------
PeerTask(t) ==
    \/ Accept(t) \/ CallPeer(t) \/ Reconnect(t) \/ Discover(t)
    \/ Fail(t) \/ Check(t) \/ ReadStanding(t) \/ Enter(t) \/ Strand(t) \/ Run(t)
    \/ Sanction(t) \/ PeerDiscoveryAnswer(t) \/ Disconnect(t) \/ Leave(t) \/ Close(t)

Next ==
    /\ UNCHANGED bootstrap
    /\ \/ \E t \in Tasks : PeerTask(t)
       \/ MakeRoom \/ RpcDisconnect \/ ClearStandings \/ CooldownEnds \/ Restart

Spec == Init /\ [][Next]_vars

-----------------------------------------------------------------------------
(* Properties                                                              *)

(* Every variable has its type; the list of potential peers exceeds its    *)
(* maximum by one at most.                                                 *)
TypeOK ==
    /\ bootstrap \in BOOLEAN
    /\ task \in [Tasks -> PeerTasks]
    /\ peer_map \in [Addresses -> Entries \cup {None}]
    /\ peer_standings \in [Ips -> Standings \cup {None}]
    /\ disconnection_times \subseteq InstanceIds
    /\ room_requests \in 0..Capacity
    /\ potential_peers \subseteq Gossip
    /\ banned \subseteq Ips
    /\ stranded \subseteq Addresses

(* The tasks that have an entry in the peer map for a.                     *)
Owners(a) ==
    {t \in Tasks : /\ task[t] # Free
                   /\ task[t].address = a
                   /\ task[t].step \in {"entered", "running", "closing"}}

(* However many tasks pass the check at the same time, the peer map has    *)
(* every instance once and never this node itself, and does not exceed the *)
(* maximum: "this check could have been invalidated by another task"       *)
(* (run_wrapper).  Nothing is claimed here of the size of a bootstrapping  *)
(* node's map, which is documented to "temporarily exceed the maximum"     *)
(* (connect_to_peers.rs); that it cannot is theorem                        *)
(* ConnectionsBootstrapHasNoSurplus.                                       *)
PeerMapIsSound ==
    /\ ~bootstrap => Cardinality(Connected) <= MaxPeers
    /\ \A a, b \in Connected : peer_map[a].instance_id = peer_map[b].instance_id => a = b
    /\ Own \notin ConnectedIds

(* A task that has entered the map finds its own entry whenever it         *)
(* punishes its peer or closes, and no other task has the same one; an     *)
(* entry without a task is left only where the first message to the peer   *)
(* could not be sent.                                                      *)
EntriesMatchTasks ==
    /\ \A t \in Tasks : \A a \in Addresses :
          t \in Owners(a) =>
              /\ peer_map[a] # None
              /\ peer_map[a].instance_id = task[t].instance_id
              /\ a \notin stranded
              /\ \A u \in Owners(a) : u = t
    /\ \A a \in Connected : Owners(a) = {} => a \in stranded
    /\ stranded \subseteq Connected

(* A ban outlives the connection, other connections of the same IP that    *)
(* end in better standing, and a restart; only the user lifts it.          *)
BanIsRemembered == \A i \in banned : is_bad(peer_standings[i])

==============================================================================
