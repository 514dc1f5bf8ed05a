---------------------------- MODULE StoredVectors ----------------------------
(***************************************************************************)
(* What the archival mutator set asks of its storage: some vectors, the    *)
(* active window and the sync label exist once in memory and once on disk. *)
(* Operations change memory; `persist' copies memory to disk in one step,  *)
(* `drop_unpersisted' and a restart copy disk to memory.                   *)
(***************************************************************************)
EXTENDS Integers, Sequences

CONSTANTS Vecs, Values, NoValue

VARIABLES
    mem, disk,  \* [vec |-> a sequence per vector, window |-> .., label |-> ..]
    out         \* what the last operation returned

Contents == [vec : [Vecs -> Seq(Values)], window : Values, label : Values]

Init ==
    /\ disk \in Contents /\ \A t \in Vecs : disk.vec[t] = <<>>
    /\ mem = disk
    /\ out = NoValue

Return(v) == out' = v

Push(t, v) ==
    /\ mem' = [mem EXCEPT !.vec[t] = Append(@, v)]
    /\ Return(NoValue) /\ UNCHANGED disk

Pop(t) ==
    /\ mem.vec[t] # <<>>
    /\ Return(mem.vec[t][Len(mem.vec[t])])
    /\ mem' = [mem EXCEPT !.vec[t] = SubSeq(@, 1, Len(@) - 1)]
    /\ UNCHANGED disk

PutAt(t, i, v) ==
    /\ i \in 1..Len(mem.vec[t])
    /\ mem' = [mem EXCEPT !.vec[t][i] = v]
    /\ Return(NoValue) /\ UNCHANGED disk

Get(t, i) ==
    /\ i \in 1..Len(mem.vec[t])
    /\ Return(mem.vec[t][i])
    /\ UNCHANGED <<mem, disk>>

Clear(t) ==
    /\ mem' = [mem EXCEPT !.vec[t] = <<>>]
    /\ Return(NoValue) /\ UNCHANGED disk

Slide(w) ==
    /\ mem' = [mem EXCEPT !.window = w]
    /\ Return(NoValue) /\ UNCHANGED disk

Persist(label) ==
    /\ mem' = [mem EXCEPT !.label = label]
    /\ disk' = mem'
    /\ Return(NoValue)

Restore ==
    /\ mem' = disk
    /\ Return(NoValue) /\ UNCHANGED disk

Next ==
    \/ \E t \in Vecs, v \in Values : Push(t, v)
    \/ \E t \in Vecs : Pop(t) \/ Clear(t)
    \/ \E t \in Vecs : \E i \in 1..Len(mem.vec[t]) : Get(t, i) \/ \E v \in Values : PutAt(t, i, v)
    \/ \E w \in Values : Slide(w)
    \/ \E l \in Values : Persist(l)
    \/ Restore

vars == <<mem, disk, out>>

Spec == Init /\ [][Next]_vars
==============================================================================
