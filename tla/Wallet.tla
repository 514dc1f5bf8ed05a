-------------------------------- MODULE Wallet --------------------------------
(***************************************************************************)
(* The wallet of a node: which coins it monitors, to which block the       *)
(* membership proof of each is synced, and what survives a restart.        *)
(*                                                                         *)
(* A coin is a pair <<addition record, AOCL leaf index>>, the `strong      *)
(* key' of the code; the same record mined at the same leaf of two sibling *)
(* blocks is the same coin.  A membership proof is abstracted to the block *)
(* whose mutator set it is really valid for: updating or reverting it with *)
(* a block moves it along that edge of the block tree, and a proof updated *)
(* with a block it is not adjacent to is Broken.                           *)
(***************************************************************************)
EXTENDS ForkChoice, FiniteSets, FiniteSetsExt

CONSTANTS
    Records,        \* addition records
    Outputs,        \* for each block, the records it adds to the AOCL, in order
    AnnouncedTo,    \* derivation index of the own key an output is announced to
    Offchain,       \* records this wallet is told of off-chain
    Premine,        \* records that belong to this wallet in the genesis block
    Guessed,        \* guesser-fee records whose preimage this wallet derives
    Reproducible,   \* composer-fee records scan mode can derive again
    ScanHeights,    \* the block heights scan mode looks at
    FutureKeys,     \* `num_future_keys'
    NumMps,         \* `number_of_mps_per_utxo'
    PruneDepth,     \* `block_depth_threshold'
    Claimers,       \* RPC tasks that may be inside `claim_utxo' at once
    NoBlock, Broken,
    MaxKeys,        \* bound: keys handed out
    MaxStarts       \* bound: restarts

ASSUME WalletAssumption ==
    /\ Outputs \in [Blocks -> Seq(Records)]
    /\ DOMAIN AnnouncedTo \subseteq Records
    /\ \A r \in DOMAIN AnnouncedTo : AnnouncedTo[r] \in Nat
    /\ Offchain \cup Premine \cup Guessed \cup Reproducible \subseteq Records
    /\ NumMps \in Nat \ {0}
    /\ FutureKeys \in Nat
    /\ PruneDepth \in Nat
    /\ NoBlock \notin Blocks
    /\ Broken \notin Blocks

VARIABLES
    stored,     \* the blocks in the block database
    tip,        \* the tip of the light state
    batch,      \* blocks still to be set as tip under the lock held for them
    step,       \* how far `set_new_tip_internal' is with the first of them
    unrecorded, \* the coins of that block whose recovery data are yet to be written
    syncing,    \* `net.sync_anchor' is present
    wallet,     \* the wallet state: its database as the program sees it, the
                \* cached keys and whether scan mode is active
    disk,       \* the wallet database as last persisted
    recovery,   \* the coins in the file of incoming randomness, in its order
    claims,     \* what each RPC task inside `claim_utxo' has prepared
    panicked,   \* why the program panicked, or "no"
    starts,     \* restarts so far (bound)
    applied,    \* history: blocks the wallet was updated with
    strayed,    \* history: the tip moved to a block whose parent was off the chain
    deleted     \* history: the database was deleted

updateVars == << batch, step, unrecorded >>
historyVars == << applied, strayed, deleted >>

vars == << stored, tip, updateVars, syncing, wallet, disk, recovery, claims, panicked,
           starts, historyVars >>

(***************************************************************************)
(* The mutator set after each block, as far as a wallet can tell.          *)
(***************************************************************************)
OnChain(b, t) == \E i \in DOMAIN Chain[t] : Chain[t][i] = b

Leafs ==
    [b \in Blocks |-> MapThenSumSet(LAMBDA i : Len(Outputs[Chain[b][i]]), DOMAIN Chain[b])]

FirstLeaf(b) == Leafs[b] - Len(Outputs[b])

(* The coin that output i of block b becomes.                              *)
CoinAt(b, i) == << Outputs[b][i], FirstLeaf(b) + i - 1 >>

CoinsOf == [b \in Blocks |-> {CoinAt(b, i) : i \in DOMAIN Outputs[b]}]

Aocl == [b \in Blocks |-> UNION {CoinsOf[Chain[b][i]] : i \in DOMAIN Chain[b]}]

Spent == [b \in Blocks |-> SpentOn(b)]

(* `MutatorSetAccumulator::verify' for the mutator set after block b and a *)
(* membership proof that is valid for block at.                            *)
verify(b, coin, at) == at = b /\ coin \in Aocl[b] \ Spent[b]

Coins == Records \X Nat

(***************************************************************************)
(* Monitored UTXOs.                                                        *)
(***************************************************************************)
Proof == [block : Blocks, at : Blocks \cup {Broken}]

MonitoredUtxo ==
    [ coin : Coins, mps : Seq(Proof), spent : Blocks \cup {NoBlock},
      confirmed : Blocks \cup {NoBlock}, abandoned : Blocks \cup {NoBlock} ]

HasProofFor(m, b) == \E i \in DOMAIN m.mps : m.mps[i].block = b

ProofFor(m, b) == m.mps[CHOOSE i \in DOMAIN m.mps : m.mps[i].block = b]

(* A proof for a block that has one already is not replaced; the newest    *)
(* proof is first and at most NumMps are kept.                             *)
add_membership_proof_for_tip(m, b, at) ==
    IF HasProofFor(m, b) THEN m
    ELSE [m EXCEPT !.mps = << [block |-> b, at |-> at] >>
                            \o SubSeq(@, 1, IF Len(@) < NumMps THEN Len(@) ELSE NumMps - 1)]

NewMonitored(coin, b) ==
    [coin |-> coin, mps |-> << >>, spent |-> NoBlock, confirmed |-> b, abandoned |-> NoBlock]

Indices(w) == DOMAIN w.mutxos

Monitored(w) == {w.mutxos[i].coin : i \in Indices(w)}

(***************************************************************************)
(* Updating the wallet with a block.                                       *)
(***************************************************************************)
Announced(w) == {r \in DOMAIN AnnouncedTo : AnnouncedTo[r] \in w.known}

(* The outputs of b announced to keys that scan mode tries ahead of time.  *)
Ahead(w, b) ==
    {r \in DOMAIN AnnouncedTo :
        /\ r \in {Outputs[b][i] : i \in DOMAIN Outputs[b]}
        /\ AnnouncedTo[r] \in w.counter..(w.counter + FutureKeys - 1)}

Scans(w, b) == w.scan /\ Height(b) \in ScanHeights

recover_by_scanning(w, b) ==
    IF Scans(w, b) THEN Ahead(w, b) \cup Reproducible ELSE {}

(* `bump_derivation_counter': the counter in the database moves past the   *)
(* highest key found; the cache of known keys is left as it is.            *)
bump_derivation_counter(w, b) ==
    IF Scans(w, b) /\ Ahead(w, b) # {}
    THEN Max({w.counter} \cup {AnnouncedTo[r] + 1 : r \in Ahead(w, b)})
    ELSE w.counter

(* The output positions of b that belong to this wallet.                   *)
Incoming(w, b) ==
    {i \in DOMAIN Outputs[b] :
        Outputs[b][i] \in Announced(w) \cup recover_by_scanning(w, b)
                            \cup {e.record : e \in w.expected} \cup Guessed}

IncomingCoins(w, b) == {CoinAt(b, i) : i \in Incoming(w, b)}

(* `scan_for_spent_utxos'.                                                 *)
SpentInputs(w, b) == {i \in Indices(w) : w.mutxos[i].coin \in Spends[b]}

(* The entry an incoming coin is already monitored by, if any.             *)
Existing(w, coin) == {i \in Indices(w) : w.mutxos[i].coin = coin}

(* Coins that have no entry yet, in the order of the block's outputs.      *)
NewCoins(w, b) ==
    LET new == {i \in Incoming(w, b) : Existing(w, CoinAt(b, i)) = {}}
    IN  [k \in 1..Cardinality(new) |->
            CoinAt(b, CHOOSE i \in new : Cardinality({j \in new : j < i}) = k - 1)]

(* Two entries of one coin both have a proof for the previous block.       *)
RepeatedKey(w, b) ==
    b # Genesis /\ \E i, j \in Indices(w) :
        /\ i # j
        /\ w.mutxos[i].coin = w.mutxos[j].coin
        /\ HasProofFor(w.mutxos[i], Prev(b))
        /\ HasProofFor(w.mutxos[j], Prev(b))

(* Mutant: an own coin the block spends is not marked.                     *)
TouchedWithoutMark(w, b, i) ==
    LET m == w.mutxos[i]
    IN  [m EXCEPT !.confirmed = IF m.coin \in IncomingCoins(w, b) /\ i = Max(Existing(w, m.coin))
                                THEN b ELSE @]

(* What becomes of an entry that was there before the block: confirmed     *)
(* again if the block outputs its coin, marked if the block spends it.     *)
Touched(w, b, i) ==
    LET m == w.mutxos[i]
        again == m.coin \in IncomingCoins(w, b) /\ i = Max(Existing(w, m.coin))
        marks == m.coin \in Spends[b] /\ i = Min(Existing(w, m.coin))
    IN  [m EXCEPT !.confirmed = IF again THEN b ELSE @,
                  !.spent = IF marks THEN b ELSE @]

(* The proof an entry ends up with: the one for the previous block updated *)
(* with this one, or a new one if the block outputs the coin.              *)
ProofAfter(w, b, i) ==
    LET m == w.mutxos[i]
    IN  IF m.coin \in IncomingCoins(w, b) /\ i = Max(Existing(w, m.coin)) THEN b
        ELSE IF ProofFor(m, Prev(b)).at = Prev(b) THEN b ELSE Broken

Maintained(w, b, i) ==
    \/ w.mutxos[i].coin \in IncomingCoins(w, b) /\ i = Max(Existing(w, w.mutxos[i].coin))
    \/ b # Genesis /\ HasProofFor(w.mutxos[i], Prev(b))

UpdatedMutxos(w, b) ==
    [i \in Indices(w) |->
        IF Maintained(w, b, i)
        THEN add_membership_proof_for_tip(Touched(w, b, i), b, ProofAfter(w, b, i))
        ELSE Touched(w, b, i)]
    \o [k \in DOMAIN NewCoins(w, b) |->
            add_membership_proof_for_tip(NewMonitored(NewCoins(w, b)[k], b), b, b)]

(* An unspent coin that is maintained must have a valid proof; `unspent'   *)
(* is what the entry says, not what the mutator set says.                  *)
UnmarkedSpend(w, b) ==
    \E i \in Indices(w) :
        /\ Maintained(w, b, i)
        /\ Touched(w, b, i).spent = NoBlock
        /\ ~verify(b, w.mutxos[i].coin, ProofAfter(w, b, i))

NothingToDo(w, b) == SpentInputs(w, b) = {} /\ Incoming(w, b) = {} /\ w.mutxos = << >>

update_wallet_state_with_new_block(w, b) ==
    IF NothingToDo(w, b) THEN [w EXCEPT !.counter = bump_derivation_counter(w, b)]
    ELSE [w EXCEPT
            !.mutxos   = UpdatedMutxos(w, b),
            !.expected = {IF e.record \in {Outputs[b][i] : i \in DOMAIN Outputs[b]}
                          THEN [e EXCEPT !.mined = b] ELSE e : e \in @},
            !.label    = b,
            !.counter  = bump_derivation_counter(w, b),
            !.rawKeys  = @ \cup {r \in Guessed : \E k \in DOMAIN NewCoins(w, b) :
                                                    NewCoins(w, b)[k][1] = r}]

(* The file of incoming randomness after coins were appended to it: its    *)
(* reader skips repeated lines, so a coin already there is not kept twice. *)
Appended(file, coins) ==
    file \o SelectSeq(coins, LAMBDA c : \A i \in DOMAIN file : file[i] # c)

(* The coins whose recovery data the update with block b writes.           *)
Unrecorded(w, b) == IF NothingToDo(w, b) THEN << >> ELSE NewCoins(w, b)

Database(w) == [ mutxos |-> w.mutxos, expected |-> w.expected, label |-> w.label,
                 counter |-> w.counter, rawKeys |-> w.rawKeys ]

(***************************************************************************)
(* New blocks.                                                             *)
(***************************************************************************)
Idle == batch = << >> /\ panicked = "no"

(* Blocks that may be sent together: a path whose first parent is stored.  *)
Paths(b) == {SubSeq(Chain[b], k, Len(Chain[b])) :
                k \in {k \in 2..Len(Chain[b]) : Chain[b][k - 1] \in stored}}

(* `PeerTaskToMain::NewBlocks' with a last block that wins the fork        *)
(* choice: all of them are set as tip in turn, under one lock.             *)
NewBlocks(b) ==
    /\ Idle
    /\ MoreCanonical(tip, b)
    /\ \E path \in Paths(b) : batch' = path
    /\ syncing' \in {syncing, FALSE}
    /\ UNCHANGED << stored, tip, step, unrecorded, wallet, disk, recovery, claims, panicked,
                    starts, historyVars >>

(* The same message in sync mode with a last block that does not win.      *)
store_block_not_tip(b) ==
    /\ Idle
    /\ syncing
    /\ ~MoreCanonical(tip, b)
    /\ \E path \in Paths(b) : stored' = stored \cup {path[i] : i \in DOMAIN path}
    /\ stored' # stored
    /\ disk' = Database(wallet)
    /\ UNCHANGED << tip, updateVars, syncing, wallet, recovery, claims, panicked, starts,
                    historyVars >>

(***************************************************************************)
(* `set_new_tip_internal' in the order in which its steps reach the disk:  *)
(* the block and the tip digest, the recovery data line by line, the       *)
(* wallet database, and last the mutator set with the label of the tip.    *)
(* The lock is held throughout, so that only a kill comes in between.      *)
(***************************************************************************)
(* The cause of a panic in `update_wallet_state_with_new_block', if any.   *)
UpdatePanic(w, b) ==
    IF RepeatedKey(w, b) THEN "repeated key"
    ELSE IF UnmarkedSpend(w, b) THEN "unmarked spend" ELSE "no"

(* `write_block_as_tip', and the wallet updated in memory.                 *)
UpdateWithNextBlock ==
    /\ batch # << >> /\ step = "none" /\ panicked = "no"
    /\ LET b == Head(batch)
       IN  /\ stored' = stored \cup {b}
           /\ strayed' = (strayed \/ ~OnChain(Prev(b), tip))
           /\ panicked' = UpdatePanic(wallet, b)
           /\ IF panicked' = "no"
              THEN /\ wallet' = update_wallet_state_with_new_block(wallet, b)
                   /\ unrecorded' = Unrecorded(wallet, b)
                   /\ step' = "recording"
              ELSE UNCHANGED << wallet, unrecorded, step >>
    /\ UNCHANGED << tip, batch, syncing, disk, recovery, claims, starts, applied, deleted >>

store_utxo_ms_recovery_data ==
    /\ step = "recording" /\ unrecorded # << >>
    /\ recovery' = Appended(recovery, << Head(unrecorded) >>)
    /\ unrecorded' = Tail(unrecorded)
    /\ UNCHANGED << stored, tip, batch, step, syncing, wallet, disk, claims, panicked, starts,
                    historyVars >>

(* Mutant: the lines are written while the databases are being flushed.    *)
RecordedInBackground == TRUE

AllRecorded == unrecorded = << >>

(* The light state is set and `flush_databases' begins with the wallet's.  *)
PersistWallet ==
    /\ step = "recording" /\ AllRecorded
    /\ tip' = Head(batch)
    /\ applied' = applied \cup {tip'}
    /\ disk' = Database(wallet)
    /\ step' = "flushing"
    /\ UNCHANGED << stored, batch, unrecorded, syncing, wallet, recovery, claims, panicked,
                    starts, strayed, deleted >>

PersistMutatorSet ==
    /\ step = "flushing"
    /\ batch' = Tail(batch)
    /\ step' = "none"
    /\ unrecorded' = << >>
    /\ UNCHANGED << stored, tip, syncing, wallet, disk, recovery, claims, panicked, starts,
                    historyVars >>

(* The main loop enters sync mode (module SyncMode).                       *)
EnterSyncMode ==
    /\ Idle
    /\ ~syncing
    /\ syncing' = TRUE
    /\ UNCHANGED << stored, tip, updateVars, wallet, disk, recovery, claims, panicked,
                    starts, historyVars >>

(***************************************************************************)
(* The timer that synchronises membership proofs.                          *)
(***************************************************************************)
is_synced_to(w, b) == w.label = b /\ \A i \in Indices(w) : HasProofFor(w.mutxos[i], b)

(* `get_wallet_status': the coins the balance and the inputs of new        *)
(* transactions are taken from; `spent_in_block' plays no part.            *)
synced_unspent(w) ==
    {w.mutxos[i].coin : i \in {i \in Indices(w) :
        /\ HasProofFor(w.mutxos[i], tip)
        /\ verify(tip, w.mutxos[i].coin, ProofFor(w.mutxos[i], tip).at)}}

NeedsResync(m) ==
    m.abandoned = NoBlock /\ ~HasProofFor(m, tip) /\ m.confirmed # NoBlock

Leaving(m) == find_path(m.mps[1].block, tip).backwards
Arriving(m) == find_path(m.mps[1].block, tip).forwards

(* `spent_in_block' once the first k blocks have been reverted.            *)
SpentAfter(m, k) ==
    IF \E j \in 1..k : Leaving(m)[j] = m.spent THEN NoBlock ELSE m.spent

(* Reverting block k takes the proof back before its coin was added, or    *)
(* leaves an entry that is not marked as spent with an invalid proof.      *)
RevertFails(m, k) ==
    LET b == Prev(Leaving(m)[k])
    IN  \/ Leafs[b] <= m.coin[2]
        \/ SpentAfter(m, k) = NoBlock /\ m.coin \notin Aocl[b] \ Spent[b]

(* The steps back at which the walk ends early, and why.                   *)
Stops(m) ==
    {k \in DOMAIN Leaving(m) : Leaving(m)[k] = m.confirmed \/ RevertFails(m, k)}

Fails(m) == Stops(m) # {} /\ Leaving(m)[Min(Stops(m))] # m.confirmed

(* Mutant: only the marks are taken back on the way to the common ancestor. *)
WalkedWithoutReverting(m) ==
    LET at == IF m.mps[1].at = m.mps[1].block /\ Leaving(m) = << >> THEN tip ELSE Broken
    IN  add_membership_proof_for_tip(
            [m EXCEPT !.spent = SpentAfter(m, Len(Leaving(m)))], tip, at)

(* The block that confirmed the coin is skipped on the way forward, "in    *)
(* this case, assume the membership proof is already synced".              *)
Walked(m) ==
    LET skips == \E k \in DOMAIN Arriving(m) : Arriving(m)[k] = m.confirmed
        at == IF m.mps[1].at = m.mps[1].block /\ ~skips THEN tip ELSE Broken
    IN  add_membership_proof_for_tip(
            [m EXCEPT !.spent = SpentAfter(m, Len(Leaving(m)))], tip, at)

(* The first entry that cannot be resynced ends the whole loop.            *)
Halt(w) == {i \in Indices(w) : /\ NeedsResync(w.mutxos[i])
                               /\ Stops(w.mutxos[i]) # {}}
ResyncedMutxos(w) ==
    [i \in Indices(w) |->
        IF NeedsResync(w.mutxos[i]) /\ \A h \in Halt(w) : i < h
        THEN Walked(w.mutxos[i]) ELSE w.mutxos[i]]

(* The walk forward hands the removal records of a stored block to the     *)
(* proof as they are, not updated for the block's additions and for one    *)
(* another.  If an addition slides the window, or two of them share a      *)
(* chunk, the mutator set does not come out as the block says; neither is  *)
(* visible here, so it may happen with every block that has inputs.        *)
WalksOverInputs(w) ==
    \E i \in Indices(w) :
        /\ NeedsResync(w.mutxos[i]) /\ \A h \in Halt(w) : i < h
        /\ \E b \in Range(Arriving(w.mutxos[i])) : b # w.mutxos[i].confirmed /\ Spends[b] # {}

resync_membership_proofs ==
    /\ Idle
    /\ ~syncing
    /\ ~is_synced_to(wallet, tip)
    /\ \/ /\ WalksOverInputs(wallet)
          /\ panicked' = "mutator set mismatch"
          /\ UNCHANGED << wallet, disk >>
       \/ /\ Halt(wallet) # {} /\ Fails(wallet.mutxos[Min(Halt(wallet))])
          /\ panicked' = "reverted too far"
          /\ UNCHANGED << wallet, disk >>
       \/ /\ ~(Halt(wallet) # {} /\ Fails(wallet.mutxos[Min(Halt(wallet))]))
          /\ wallet' = [wallet EXCEPT !.mutxos = ResyncedMutxos(wallet), !.label = tip]
          /\ disk' = Database(wallet')
          /\ UNCHANGED panicked
    /\ UNCHANGED << stored, tip, updateVars, syncing, recovery, claims, starts, historyVars >>

(* Entries that are neither spent nor synced, confirmed deep enough in a   *)
(* block that is no longer canonical, are marked; databases are flushed.   *)
Abandon(m) ==
    /\ m.spent = NoBlock
    /\ ~HasProofFor(m, tip)
    /\ m.abandoned = NoBlock
    /\ m.confirmed # NoBlock
    /\ Height(tip) - Height(m.confirmed) + 1 >= PruneDepth
    /\ ~OnChain(m.confirmed, tip)

prune_abandoned_monitored_utxos ==
    /\ Idle
    /\ \E i \in Indices(wallet) : Abandon(wallet.mutxos[i])
    /\ wallet' = [wallet EXCEPT !.mutxos =
                    [i \in DOMAIN @ |-> IF Abandon(@[i]) THEN [@[i] EXCEPT !.abandoned = tip]
                                        ELSE @[i]]]
    /\ disk' = Database(wallet')
    /\ UNCHANGED << stored, tip, updateVars, syncing, recovery, claims, panicked, starts,
                    historyVars >>

(***************************************************************************)
(* RPC calls: keys, own transactions, claims.                              *)
(***************************************************************************)
next_unused_spending_key ==
    /\ Idle
    /\ wallet.counter < MaxKeys
    /\ wallet' = [wallet EXCEPT !.counter = @ + 1, !.known = @ \cup {wallet.counter}]
    /\ disk' = Database(wallet')
    /\ UNCHANGED << stored, tip, updateVars, syncing, recovery, claims, panicked, starts,
                    historyVars >>

Expecting(w, r) == \E e \in w.expected : e.record = r

Expect(w, r) == [w EXCEPT !.expected = @ \cup {[record |-> r, mined |-> NoBlock]}]

(* `record_transaction' with a fresh output that comes back to this wallet. *)
record_transaction(r) ==
    /\ Idle
    /\ ~Expecting(wallet, r)
    /\ wallet' = Expect(wallet, r)
    /\ disk' = Database(wallet')
    /\ UNCHANGED << stored, tip, updateVars, syncing, recovery, claims, panicked, starts,
                    historyVars >>

(* `find_canonical_block_with_output' and `find_canonical_block_with_input' *)
(* look back from the tip.                                                 *)
OutputBlocks(r) == {b \in Blocks : OnChain(b, tip) /\ \E c \in CoinsOf[b] : c[1] = r}
Highest(B) == CHOOSE b \in B : \A a \in B : Height(a) <= Height(b)

InputBlock(coin) ==
    LET bs == {b \in Blocks : OnChain(b, tip) /\ coin \in Spends[b]}
    IN  IF bs = {} THEN NoBlock ELSE Highest(bs)

PreparedMutxo(r) ==
    LET b == Highest(OutputBlocks(r))
        coin == CHOOSE c \in CoinsOf[b] :
                    c[1] = r /\ \A d \in CoinsOf[b] : d[1] = r => d[2] <= c[2]
    IN  add_membership_proof_for_tip(
            [NewMonitored(coin, b) EXCEPT !.spent = InputBlock(coin)], tip, tip)

(* `claim_utxo_inner', under the read lock: what to register is prepared.  *)
claim_utxo_inner(t, r) ==
    /\ Idle
    /\ claims[t] = << >>
    /\ \A c \in Monitored(wallet) : c[1] # r
    /\ claims' = [claims EXCEPT ![t] =
            << [ record |-> r, expecting |-> Expecting(wallet, r),
                 prepared |-> IF OutputBlocks(r) = {} THEN << >> ELSE << PreparedMutxo(r) >> ] >>]
    /\ UNCHANGED << stored, tip, updateVars, syncing, wallet, disk, recovery, panicked, starts,
                    historyVars >>

(* `WalletState::claim_utxo'.                                              *)
Registered(w, c) ==
    LET expecting == IF c.expecting THEN w ELSE Expect(w, c.record)
    IN  [expecting EXCEPT !.mutxos = @ \o c.prepared]

(* `claim_utxo', under the write lock taken later: it is registered as it  *)
(* was prepared, and nothing is persisted.                                 *)
claim_utxo(t) ==
    /\ Idle
    /\ claims[t] # << >>
    /\ LET c == Head(claims[t])
       IN  /\ wallet' = Registered(wallet, c)
           /\ recovery' = Appended(recovery, [i \in DOMAIN c.prepared |-> c.prepared[i].coin])
    /\ claims' = [claims EXCEPT ![t] = << >>]
    /\ UNCHANGED << stored, tip, updateVars, syncing, disk, panicked, starts, historyVars >>
(***************************************************************************)
(* Start-up.                                                               *)
(***************************************************************************)
EmptyDatabase ==
    [mutxos |-> << >>, expected |-> {}, label |-> NoBlock, counter |-> 0, rawKeys |-> {}]

(* `WalletState::new': keys are derived up to the counter, at least the    *)
(* reserved one; a database without sync label is given the premine and    *)
(* the genesis block.                                                      *)
Loaded(db, scanning) ==
    LET counter == IF db.counter = 0 THEN 1 ELSE db.counter
    IN  [ mutxos |-> db.mutxos, label |-> db.label, counter |-> counter,
          expected |-> db.expected \cup IF db.label # NoBlock THEN {}
                                        ELSE {[record |-> r, mined |-> NoBlock] : r \in Premine},
          rawKeys |-> db.rawKeys, known |-> 0..(counter - 1), scan |-> scanning ]

Constructed(db, scanning) ==
    IF db.label # NoBlock THEN Loaded(db, scanning)
    ELSE update_wallet_state_with_new_block(Loaded(db, scanning), Genesis)

RecordedAtStart(db, scanning) ==
    IF db.label # NoBlock THEN recovery
    ELSE Appended(recovery, Unrecorded(Loaded(db, scanning), Genesis))

(* Mutant: nothing is restored into a wallet that has an entry already.    *)
MissingFromEmpty(w, file) == IF w.mutxos = << >> THEN file ELSE << >>

(* `restore_monitored_utxos_from_recovery_data'.                           *)
Missing(w, file) == SelectSeq(file, LAMBDA c : c \notin Monitored(w))

Restored(w, file, t) ==
    LET here == SelectSeq(Missing(w, file), LAMBDA c : c \in Aocl[t] \ Spent[t])
        confirmed(c) == CHOOSE b \in Blocks : OnChain(b, t) /\ c \in CoinsOf[b]
    IN  [w EXCEPT
            !.mutxos = @ \o [k \in DOMAIN here |-> add_membership_proof_for_tip(
                                NewMonitored(here[k], confirmed(here[k])), t, t)],
            !.rawKeys = @ \cup {r \in Guessed : \E k \in DOMAIN Missing(w, file) :
                                    /\ Missing(w, file)[k][1] = r
                                    /\ Missing(w, file)[k][2] < Leafs[t]}]

(* `new_from_context' enables scan mode when the database directory is     *)
(* already there, and the restored entries are persisted if any coin was   *)
(* missing.                                                                *)
StartWith(db, present, t) ==
    LET w == Constructed(db, present)
        file == RecordedAtStart(db, present)
    IN  /\ starts < MaxStarts
        /\ starts' = starts + 1
        /\ tip' = t
        /\ wallet' = Restored(w, file, t)
        /\ recovery' = file
        /\ disk' = IF Missing(w, file) = << >> THEN db ELSE Database(wallet')
        /\ batch' = << >> /\ step' = "none" /\ unrecorded' = << >>
        /\ syncing' = FALSE
        /\ claims' = [c \in Claimers |-> << >>]
        /\ UNCHANGED panicked

(* The program is shut down, which flushes the databases, or killed, and   *)
(* started again; no update is under way.                                  *)
Restart ==
    /\ step = "none" /\ panicked = "no"
    /\ \E db \in {disk} \cup IF batch = << >> THEN {Database(wallet)} ELSE {} :
          StartWith(db, TRUE, tip)
    /\ UNCHANGED << stored, historyVars >>

(* The same with the wallet database deleted in between.                   *)
RestartWithoutDatabase ==
    /\ step = "none" /\ panicked = "no"
    /\ StartWith(EmptyDatabase, FALSE, tip)
    /\ deleted' = TRUE
    /\ UNCHANGED << stored, applied, strayed >>

(* A kill in the midst of an update leaves a tip digest that the label of  *)
(* the mutator set disagrees with, and the assertion on the two refuses    *)
(* every start, until its advice is followed: all databases are deleted,   *)
(* the file of incoming randomness is not.                                 *)
RestartAfterTornUpdate ==
    /\ step # "none"
    /\ StartWith(EmptyDatabase, FALSE, Genesis)
    /\ stored' = {Genesis}
    /\ applied' = {Genesis}
    /\ deleted' = TRUE
    /\ UNCHANGED strayed

(***************************************************************************)
(* The specification: the first start of a new wallet, then any of these.  *)
(***************************************************************************)
Init ==
    /\ stored = {Genesis}
    /\ tip = Genesis
    /\ batch = << >> /\ step = "none" /\ unrecorded = << >>
    /\ syncing = FALSE
    /\ wallet = update_wallet_state_with_new_block(Loaded(EmptyDatabase, FALSE), Genesis)
    /\ disk = EmptyDatabase
    /\ recovery = Unrecorded(Loaded(EmptyDatabase, FALSE), Genesis)
    /\ claims = [t \in Claimers |-> << >>]
    /\ panicked = "no"
    /\ starts = 0
    /\ applied = {Genesis}
    /\ strayed = FALSE
    /\ deleted = FALSE

Next ==
    \/ \E b \in Blocks : NewBlocks(b) \/ store_block_not_tip(b)
    \/ UpdateWithNextBlock \/ store_utxo_ms_recovery_data \/ PersistWallet \/ PersistMutatorSet
    \/ EnterSyncMode
    \/ resync_membership_proofs
    \/ prune_abandoned_monitored_utxos
    \/ next_unused_spending_key
    \/ \E r \in Offchain : record_transaction(r) \/ \E t \in Claimers : claim_utxo_inner(t, r)
    \/ \E t \in Claimers : claim_utxo(t)
    \/ Restart
    \/ RestartWithoutDatabase
    \/ RestartAfterTornUpdate

Spec == Init /\ [][Next]_vars
(***************************************************************************)
(* Properties.                                                             *)
(***************************************************************************)
WalletDatabase ==
    [ mutxos : Seq(MonitoredUtxo),
      expected : SUBSET [record : Records, mined : Blocks \cup {NoBlock}],
      label : Blocks \cup {NoBlock}, counter : Nat, rawKeys : SUBSET Guessed ]

TypeOK ==
    /\ tip \in stored /\ stored \subseteq Blocks
    /\ batch \in Seq(Blocks) /\ unrecorded \in Seq(Coins)
    /\ step \in {"none", "recording", "flushing"}
    /\ Database(wallet) \in WalletDatabase /\ disk \in WalletDatabase
    /\ wallet.known \subseteq Nat
    /\ recovery \in Seq(Coins)
    /\ applied \subseteq stored
    /\ {syncing, wallet.scan, strayed, deleted} \subseteq BOOLEAN
    /\ panicked \in {"no", "repeated key", "unmarked spend", "reverted too far",
                      "mutator set mismatch"}

(* Every membership proof kept for a monitored UTXO is valid for the block *)
(* it is stored under: block updates, resynchronisation in both            *)
(* directions, claims and restoration all leave it so, in memory and on    *)
(* disk, and no entry is left without a proof.  `is_synced_to' and         *)
(* `get_wallet_status' rely on it without testing.                         *)
ProofsAreValid ==
    \A w \in {wallet, disk} : \A i \in Indices(w) :
        LET m == w.mutxos[i]
        IN  /\ Len(m.mps) \in 1..NumMps
            /\ \A k \in DOMAIN m.mps :
                  m.mps[k].at = m.mps[k].block /\ m.coin \in Aocl[m.mps[k].block]

(* The outputs that the wallet recognises in every state: all but those    *)
(* that depend on further keys and on what it was told off-chain.          *)
Recognised == Premine \cup Guessed \cup {r \in DOMAIN AnnouncedTo : AnnouncedTo[r] = 0}

(* An unspent coin of the canonical chain that came with a block the       *)
(* wallet was updated with is monitored, and counted in the balance when   *)
(* the wallet is synced: through reorganisations in any order, restarts    *)
(* and kills; and through the loss of the database, as long as the chain   *)
(* does not go back to blocks it had left.                                 *)
ReceivedCoinsAreMonitored ==
    ~(deleted /\ strayed) =>
        \A b \in applied : OnChain(b, tip) =>
            {c \in CoinsOf[b] \ Spent[tip] : c[1] \in Recognised}
                \subseteq IF is_synced_to(wallet, tip) THEN synced_unspent(wallet)
                          ELSE Monitored(wallet)

(* Entry i is of a claim that was overtaken: it was prepared as an unspent *)
(* coin under a read lock, and before it was registered the coin had been  *)
(* spent, or had an entry already.                                         *)
Overtaken(w, i) ==
    LET m == w.mutxos[i]
    IN  /\ m.coin[1] \in Offchain /\ m.spent = NoBlock
        /\ m.coin \in Spent[tip] \/ Cardinality(Existing(w, m.coin)) > 1

(* Entry m was left behind: its newest proof is for a block off the chain  *)
(* of the tip, or for an earlier tip because it is a late claim.           *)
LeftBehind(m) == NeedsResync(m) /\ (m.coin[1] \in Offchain \/ ~OnChain(m.mps[1].block, tip))

(* The assertions of the block update and of the resynchronisation fail    *)
(* for no other reason than these.  As long as the database is not deleted *)
(* and each reorganisation leads to the blocks of the new chain one by one *)
(* from a block of the old one, no proof is reverted too far, a coin that  *)
(* was spent and is not marked so comes of a claim that was overtaken, and *)
(* the mutator set disagrees only when an entry that was left behind is    *)
(* walked over inputs.  A coin is only ever registered twice by a claim.   *)
PanicIsExplained ==
    /\ panicked = "reverted too far" => strayed
    /\ panicked = "unmarked spend" =>
          strayed \/ deleted \/ \E i \in Indices(wallet) : Overtaken(wallet, i)
    /\ panicked = "mutator set mismatch" =>
          strayed \/ deleted \/ \E i \in Indices(wallet) : LeftBehind(wallet.mutxos[i])
    /\ \A i, j \in Indices(wallet) :
          i # j /\ wallet.mutxos[i].coin = wallet.mutxos[j].coin
              => wallet.mutxos[i].coin[1] \in Offchain

(* A coin in the wallet database can be restored from the file of incoming *)
(* randomness whenever the program may be killed, between any two steps of *)
(* an update included, and the key of a monitored guesser fee is stored    *)
(* with it: the file is written before the database that refers to it.     *)
(* Outside an update the same holds of the wallet in memory.               *)
MonitoredCoinsAreRecoverable ==
    \A w \in {disk} \cup IF step = "none" THEN {wallet} ELSE {} : \A c \in Monitored(w) :
        /\ \E k \in DOMAIN recovery : recovery[k] = c
        /\ c[1] \in Guessed => c[1] \in w.rawKeys

===============================================================================
