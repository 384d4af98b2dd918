---------------------------- MODULE GossipQueue ----------------------------
(***************************************************************************)
(* The bounded queue of records awaiting dissemination (gossip.rs), with   *)
(* the records it is fed from and the shell that hands back what it could  *)
(* not send (GossipDeferred in handle_outcome, update.rs).                 *)
(*                                                                         *)
(* take() charges a transmission before the shell has made it.  Several    *)
(* messages of one transition, and later ones, may be charged before a     *)
(* deferral comes back, and by then the record may have been retired,      *)
(* evicted, replaced or removed.                                           *)
(***************************************************************************)
EXTENDS Integers, FiniteSets

CONSTANTS
    Keys,        \* gossip keys, in their order
    MaxQueue,    \* Limits.max_gossip_queue
    Batch,       \* Limits.max_gossip_per_message
    HopLimits,   \* values of effective_gossip_hops as the formation changes size
    MaxVersion,  \* bound: versions of a record
    MaxChanges,  \* bound: changes of records
    MaxTakes     \* bound: messages built

ASSUME KeysAssumption == Keys \subseteq Nat /\ IsFiniteSet(Keys)
ASSUME QueueLimitsAssumption ==
    /\ MaxQueue \in Nat \ {0} /\ Batch \in 1..MaxQueue
    /\ HopLimits \subseteq Nat \ {0} /\ HopLimits # {} /\ IsFiniteSet(HopLimits)
    /\ {MaxVersion, MaxChanges, MaxTakes} \subseteq Nat

VARIABLES
    held,    \* key -> version of the record the replica holds; 0 not yet, negated no more
    changes, \* counts towards MaxChanges
    queue,   \* key -> [ver, hops] queued, or Free
    limit,   \* the hop limit in force
    sending, \* messages the shell has not settled: sets of charged deltas
    takes,   \* messages built so far
    sent,    \* <<key, version>> -> transmissions made (history)
    evicted, \* records eviction pushed out (history)
    revived, \* keys that came back at a version not newer than the last (history)
    lowest   \* the lowest hop limit so far (history)

vars == <<held, changes, queue, limit, sending, takes, sent, evicted, revived, lowest>>

Free == [ver |-> 0, hops |-> 0]
Records == Keys \X (1..MaxVersion)
Deltas == [key : Keys, ver : 1..MaxVersion, hops : Nat]

Top(S) == CHOOSE x \in S : \A y \in S : y <= x

TypeOK ==
    /\ held \in [Keys -> (-MaxVersion)..MaxVersion] /\ changes \in 0..MaxChanges
    /\ queue \in [Keys -> [ver : 1..MaxVersion, hops : 0..Top(HopLimits)] \cup {Free}]
    /\ Cardinality({k \in Keys : queue[k] # Free}) <= MaxQueue
    /\ limit \in HopLimits /\ lowest \in HopLimits
    /\ \A m \in sending : m.deltas \subseteq Deltas
    /\ takes \in 0..MaxTakes
    /\ sent \in [Records -> Nat]
    /\ evicted \subseteq Records /\ revived \subseteq Keys

Init ==
    /\ held = [k \in Keys |-> 0]
    /\ changes = 0
    /\ queue = [k \in Keys |-> Free]
    /\ limit \in HopLimits
    /\ sending = {}
    /\ takes = 0
    /\ sent = [r \in Records |-> 0]
    /\ evicted = {} /\ revived = {}
    /\ lowest = limit

-----------------------------------------------------------------------------
(* The queue.                                                              *)

Queued(q) == {k \in Keys : q[k] # Free}

\* evict_one: the most travelled, then the highest key.
Victim(q) ==
    CHOOSE k \in Queued(q) : \A o \in Queued(q) \ {k} :
       \/ q[k].hops > q[o].hops
       \/ q[k].hops = q[o].hops /\ k > o

\* Mutant: a full queue grows.
Room_Unbounded(q, k) == q

\* Room for key k.
Room(q, k) ==
    IF q[k] = Free /\ Cardinality(Queued(q)) >= MaxQueue
    THEN [q EXCEPT ![Victim(q)] = Free]
    ELSE q

\* enqueue, for version v of key k.  A version names one body here, so an exact
\* replay is an equal version.
Enqueue(q, k, v) ==
    IF q[k] # Free /\ q[k].ver >= v
    THEN q
    ELSE [Room(q, k) EXCEPT ![k] = [ver |-> v, hops |-> 0]]

\* The hop count a returned delta goes back to: one charge is undone, not those
\* of other messages.
Charged(q, d, max) ==
    LET hops == IF q[d.key].ver = d.ver THEN q[d.key].hops ELSE max
    IN  IF hops = 0 THEN 0 ELSE hops - 1

\* defer.
Defer(q, d, max) ==
    [Enqueue(q, d.key, d.ver) EXCEPT ![d.key].hops = Charged(q, d, max)]

\* Priority order of take: least travelled, then newest, then lowest key.
Before(q, k, o) ==
    \/ q[k].hops < q[o].hops
    \/ q[k].hops = q[o].hops /\ q[k].ver > q[o].ver
    \/ q[k].hops = q[o].hops /\ q[k].ver = q[o].ver /\ k < o

\* The keys one message carries.
Chosen(q) == {k \in Queued(q) : Cardinality({o \in Queued(q) : Before(q, o, k)}) < Batch}

\* Mutant: a delta is retired one transmission late.
Retires_Late(hops, max) == hops > max

Retires(hops, max) == hops >= max

\* What take leaves behind.
Taken(q, max) ==
    [k \in Keys |->
        IF k \notin Chosen(q) THEN q[k]
        ELSE IF Retires(q[k].hops + 1, max) THEN Free
        ELSE [q[k] EXCEPT !.hops = @ + 1]]

-----------------------------------------------------------------------------
(* Actions.                                                                *)

\* What a change of the queue pushed out to make room.
PushedOut(q) == {<<k, queue[k].ver>> : k \in {o \in Queued(queue) : q[o] = Free}}

Change == changes < MaxChanges /\ changes' = changes + 1

\* A merge changed the record of key k (absorb_outcome).
Adopt(k) ==
    /\ Change
    /\ held[k] \in 0..(MaxVersion - 1)
    /\ held' = [held EXCEPT ![k] = @ + 1]
    /\ queue' = Enqueue(queue, k, held'[k])
    /\ evicted' = evicted \cup PushedOut(queue')
    /\ UNCHANGED <<limit, sending, takes, sent, revived, lowest>>

\* A tombstone took the record; what was queued stays.
Remove(k) ==
    /\ Change
    /\ held[k] > 0
    /\ held' = [held EXCEPT ![k] = -@]
    /\ UNCHANGED <<queue, limit, sending, takes, sent, evicted, revived, lowest>>

\* The tombstone was cleared and merge_member inserts the record again, at whatever
\* version a peer still held it.  enqueue drops it beside a newer one left waiting.
Return(k, v) ==
    /\ Change
    /\ held[k] < 0
    /\ held' = [held EXCEPT ![k] = v]
    /\ queue' = Enqueue(queue, k, v)
    /\ evicted' = evicted \cup PushedOut(queue')
    /\ revived' = IF v > -held[k] THEN revived ELSE revived \cup {k}
    /\ UNCHANGED <<limit, sending, takes, sent, lowest>>

\* outbound: a message is built and its gossip charged.
Build ==
    /\ takes < MaxTakes
    /\ Queued(queue) # {}
    /\ takes' = takes + 1
    /\ sending' = sending \cup
          {[id |-> takes, deltas |-> {[key |-> k, ver |-> queue[k].ver, hops |-> queue[k].hops + 1] :
                                         k \in Chosen(queue)}]}
    /\ queue' = Taken(queue, limit)
    /\ UNCHANGED <<held, changes, limit, sent, evicted, revived, lowest>>

Carries(D, r) == \E d \in D : <<d.key, d.ver>> = r

\* The shell sends a message whole.
Sent(m) ==
    /\ sending' = sending \ {m}
    /\ sent' = [r \in Records |-> sent[r] + IF Carries(m.deltas, r) THEN 1 ELSE 0]
    /\ UNCHANGED <<held, changes, queue, limit, takes, evicted, revived, lowest>>

\* Mutant: whatever comes back is queued again.
StillCurrent_Always(d) == TRUE

\* Only the record the replica still holds goes back.
StillCurrent(d) == held[d.key] = d.ver

\* What is left of a message without delta d.
Trimmed(m, d) == IF m.deltas = {d} THEN {} ELSE {[m EXCEPT !.deltas = @ \ {d}]}

\* GossipDeferred, one delta at a time: the shell could not send it.
Deferred(m, d) ==
    /\ sending' = (sending \ {m}) \cup Trimmed(m, d)
    /\ queue' = IF d.hops <= limit /\ StillCurrent(d) THEN Defer(queue, d, limit) ELSE queue
    /\ evicted' = evicted \cup PushedOut(queue')
    /\ UNCHANGED <<held, changes, limit, takes, sent, revived, lowest>>

\* The formation changes size, between two turns of the owner: the worker
\* settles the messages of a turn within it.
Resize(n) ==
    /\ sending = {}
    /\ n # limit
    /\ limit' = n
    /\ lowest' = IF n < lowest THEN n ELSE lowest
    /\ UNCHANGED <<held, changes, queue, sending, takes, sent, evicted, revived>>

Next ==
    \/ \E k \in Keys : Adopt(k) \/ Remove(k) \/ \E v \in 1..MaxVersion : Return(k, v)
    \/ Build
    \/ \E m \in sending : Sent(m) \/ \E d \in m.deltas : Deferred(m, d)
    \/ \E n \in HopLimits : Resize(n)

Spec == Init /\ [][Next]_vars

-----------------------------------------------------------------------------
(* Properties.                                                             *)

Outstanding(r) == Cardinality({m \in sending : Carries(m.deltas, r)})

\* No record is transmitted more often than the hop limit allows, and a deferral
\* never costs one its dissemination: what has left the queue, other than by
\* eviction, replacement or removal, has been or is being transmitted as often as
\* the lowest hop limit asks, however deferrals interleave with other messages.
\* A record revived at a version that was queued or sent before its removal has
\* neither guarantee: enqueue may drop it, and it is sent in each of its lives.
DisseminatedAsAsked ==
    \A k \in Keys \ revived :
       /\ \A v \in 1..MaxVersion : sent[<<k, v>>] + Outstanding(<<k, v>>) <= Top(HopLimits)
       /\ LET r == <<k, held[k]>>
          IN  held[k] > 0 /\ queue[k] = Free /\ r \notin evicted
              => sent[r] + Outstanding(r) >= lowest

\* What waits in the queue is the record the replica holds: a deferral that
\* comes back late never puts back one that has been replaced.  Only a record
\* revived at an older version may find a newer one of its earlier life waiting.
QueueIsCurrent ==
    \A k \in Keys : queue[k] # Free /\ held[k] >= 0 =>
       /\ queue[k].ver >= held[k]
       /\ k \notin revived => queue[k].ver = held[k]
=============================================================================
