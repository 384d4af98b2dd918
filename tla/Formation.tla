----------------------------- MODULE Formation -----------------------------
(***************************************************************************)
(* The replicas of one formation: every node keeps its own view of the     *)
(* members, the tombstones and the policy, and the views meet only through *)
(* messages that may be lost, delayed, duplicated and reordered.           *)
(*                                                                         *)
(* A step is one call of `update` on one node.  The probe exchange that    *)
(* precedes a suspicion is a single nondeterministic step here (a probe    *)
(* may fail for a live target too); module Probe has it in full.  sent[n]  *)
(* is everything n ever put into gossip, an anti-entropy reply or an       *)
(* announcement: a record stays receivable for good after it was held.     *)
(***************************************************************************)
EXTENDS Merge

CONSTANTS
    Founders,       \* members of the formation at the start
    Suspectable,    \* bound: nodes whose probes may fail
    Crashable,      \* bound: nodes that may crash
    Leavers,        \* bound: nodes that may leave
    Operators,      \* bound: nodes where members are removed and tombstones cleared
    Lockers,        \* bound: nodes where the membership lock is set
    Removable       \* bound: nodes that operators remove

ASSUME RolesAssumption ==
    /\ Founders \subseteq Nodes
    /\ Suspectable \subseteq Nodes
    /\ Crashable \subseteq Nodes
    /\ Leavers \subseteq Nodes
    /\ Operators \subseteq Nodes
    /\ Lockers \subseteq Nodes
    /\ Removable \subseteq Nodes

\* The founders were admitted within the limit.
ASSUME FoundersAssumption == Cardinality(Founders) <= MaxMembers

VARIABLES
    status,     \* where a node is in its life in this formation
    rep,        \* its Membership model
    sent,       \* every message it has sent
    offer       \* the member snapshot of a JoinAccepted on its way to it

vars == <<status, rep, sent, offer>>

Statuses == {"out", "invited", "in", "left", "down"}

NoOffer == [t \in Nodes |-> NoMember]

MemberDelta(t, m) == [type |-> "member", id |-> t, rec |-> m]

TombstoneDelta(t, b) == [type |-> "tombstone", id |-> t, rec |-> b]

PolicyDelta(p) == [type |-> "policy", rec |-> p]

Announce(kind, t, i) == [type |-> "announce", kind |-> kind, id |-> t, inc |-> i]

Kinds == {"Alive", "Suspect", "Dead", "Leave"}

Messages ==
    [type : {"member"}, id : Nodes, rec : Members]
        \cup [type : {"tombstone"}, id : Nodes, rec : Tombstones]
        \cup [type : {"policy"}, rec : Policies]
        \cup [type : {"announce"}, kind : Kinds, id : Nodes, inc : Incarnations]

TypeOK ==
    /\ status \in [Nodes -> Statuses]
    /\ rep \in [Nodes -> Replicas]
    /\ sent \in [Nodes -> SUBSET Messages]
    /\ offer \in [Nodes -> [Nodes -> Members]]

-----------------------------------------------------------------------------
(* What a step sends.                                                      *)

\* Gossip of everything an update changed, and the Alive a node's own pings,
\* acks and refutations carry.
News(n, r, s) ==
    {MemberDelta(t, s.members[t]) : t \in {u \in Nodes : s.members[u] # r.members[u] /\ IsMember(s, u)}}
        \cup {TombstoneDelta(t, s.tombs[t]) : t \in {u \in Nodes : s.tombs[u] # r.tombs[u]}}
        \cup {PolicyDelta(s.policy) : x \in {y \in {1} : s.policy # r.policy}}
        \cup {Announce("Alive", n, s.inc) : x \in {y \in {1} : s.inc # r.inc}}

\* Node n's model becomes s; besides the news it sends the announcements given.
Become(n, s, announcements) ==
    /\ rep' = [rep EXCEPT ![n] = s]
    /\ sent' = [sent EXCEPT ![n] = @ \cup News(n, rep[n], s) \cup announcements]

\* What a node can send once it holds a fresh view.
Introduction(n, view) ==
    {MemberDelta(t, view[t]) : t \in {u \in Nodes : view[u].state # "Absent"}}
        \cup {Announce("Alive", n, 0)}

-----------------------------------------------------------------------------
\* The node that admitted the others.
Genesis == CHOOSE f \in Founders : TRUE

FoundingView ==
    [t \in Nodes |-> IF t \in Founders
                     THEN [state |-> "Alive", inc |-> 0, ver |-> Initial(Genesis)]
                     ELSE NoMember]

\* The founders have been admitted one after the other and know each other.
Init ==
    /\ status = [n \in Nodes |-> IF n \in Founders THEN "in" ELSE "out"]
    /\ rep = [n \in Nodes |-> IF n \in Founders
                              THEN [Bare(0) EXCEPT !.members = FoundingView]
                              ELSE Bare(0)]
    /\ sent = [n \in Nodes |-> IF n \in Founders THEN Introduction(n, FoundingView) ELSE {}]
    /\ offer = [n \in Nodes |-> NoOffer]

-----------------------------------------------------------------------------
(* Admission.                                                              *)

\* handle_node_id_allocated: introducer i inserts x under a free ID and answers
\* with a snapshot of its view.
Admit(i, x) ==
    LET s == [rep[i] EXCEPT !.members[x] =
                [state |-> "Alive", inc |-> 0, ver |-> Initial(i)]]
    IN  /\ status[i] = "in" /\ status[x] = "out"
        /\ ~IsMember(rep[i], x) /\ rep[i].tombs[x].state = "None"
        /\ ~MembershipLocked(rep[i])
        /\ MemberCount(rep[i]) < MaxMembers
        /\ Become(i, s, {})
        /\ status' = [status EXCEPT ![x] = "invited"]
        /\ offer' = [offer EXCEPT ![x] = s.members]

\* adopt_formation: the joiner replaces its model by the snapshot.  The reply
\* may also be lost, and this step then never happens.
Adopt(x) ==
    LET s == [Bare(0) EXCEPT !.members = offer[x]]
    IN  /\ status[x] = "invited"
        /\ status' = [status EXCEPT ![x] = "in"]
        /\ rep' = [rep EXCEPT ![x] = s]
        /\ sent' = [sent EXCEPT ![x] = Introduction(x, offer[x])]
        /\ offer' = [offer EXCEPT ![x] = NoOffer]

\* Whether a baseline tombstone aborts the whole baseline: a different record
\* at the version already held.
Disputes(cur, b, none) == cur # b /\ cur # none /\ b # none /\ cur.ver = b.ver

\* The view without the members in T.
Without(view, T) == [t \in Nodes |-> IF t \in T THEN NoMember ELSE view[t]]

\* baseline::merge: the policy and the tombstones of a complete source view,
\* all of them or none.
InstallBaseline(n, src) ==
    LET r == rep[n]
        b == rep[src]
        Taken == {t \in Nodes : /\ b.tombs[t] # NoTombstone
                                /\ \/ r.tombs[t] = NoTombstone
                                   \/ Precedes(r.tombs[t].ver, b.tombs[t].ver)}
        tombs == [t \in Nodes |-> IF t \in Taken THEN b.tombs[t] ELSE r.tombs[t]]
        s == [MergePolicy(r, b.policy) EXCEPT
                !.tombs = tombs,
                !.members = Without(@, Taken),
                !.susp = [t \in Nodes |-> IF t \in Taken THEN NoDeadline ELSE @[t]]]
    IN  /\ status[n] = "in" /\ n \notin Founders
        /\ status[src] = "in" /\ src # n
        /\ \A t \in Nodes : ~Disputes(r.tombs[t], b.tombs[t], NoTombstone)
        /\ ~Disputes(r.policy, b.policy, NoPolicy)
        /\ TombstoneCount([r EXCEPT !.tombs = tombs]) <= MaxTombstones
        /\ Become(n, s, {})
        /\ UNCHANGED <<status, offer>>

-----------------------------------------------------------------------------
(* Failure detection.                                                      *)

\* Every probe of t failed: suspect at the incarnation the probe recorded.
SuspectMember(n, t) ==
    LET i == rep[n].members[t].inc
    IN  /\ status[n] = "in" /\ t # n /\ t \in Suspectable
        /\ rep[n].members[t].state = "Alive"
        /\ Become(n, Suspect(n, rep[n], t, i), {Announce("Suspect", t, i)})
        /\ UNCHANGED <<status, offer>>

\* The suspicion timer fires; an adopted death is announced.
DeclareDead(n, t) ==
    LET i == rep[n].susp[t]
    IN  /\ status[n] = "in"
        /\ i # NoDeadline
        /\ Become(n, ExpireSuspicion(n, rep[n], t),
                  {Announce("Dead", t, i) : x \in {y \in {1} : Adopts(n, rep[n], n, "Dead", t, i)}})
        /\ UNCHANGED <<status, offer>>

-----------------------------------------------------------------------------
(* Receiving.                                                              *)

\* What node n's model becomes on a message m whose authenticated sender is s.
Receive(n, s, m) ==
    CASE m.type = "member" -> MergeMember(n, rep[n], m.id, m.rec)
      [] m.type = "tombstone" -> MergeTombstone(rep[n], m.id, m.rec)
      [] m.type = "policy" -> MergePolicy(rep[n], m.rec)
      [] m.type = "announce" -> ApplyAnnouncement(n, rep[n], s, m.kind, m.id, m.inc)

\* handle_peer: a sender that is no member of the receiver's view is refused.
Deliver(n, s, m) ==
    /\ status[n] = "in" /\ s # n
    /\ IsMember(rep[n], s)
    /\ m \in sent[s]
    /\ Become(n, Receive(n, s, m), {})
    /\ UNCHANGED <<status, offer>>

-----------------------------------------------------------------------------
(* Departures.                                                             *)

\* The formation state of a node that is gone; its incarnation is kept for the
\* properties.
Retire(n, st) ==
    /\ status' = [status EXCEPT ![n] = st]
    /\ rep' = [rep EXCEPT ![n] = Bare(@.inc)]
    /\ UNCHANGED offer

\* handle_leave: the departure is announced to peers seen alive and the model
\* is replaced by a standalone one under a new identity.
Leave(n) ==
    /\ n \in Leavers /\ status[n] = "in"
    /\ sent' = IF \E t \in Nodes \ {n} : rep[n].members[t].state = "Alive"
               THEN [sent EXCEPT ![n] = @ \cup {Announce("Leave", n, rep[n].inc)}]
               ELSE sent
    /\ Retire(n, "left")

\* The process dies; nothing of its membership survives it.
Crash(n) ==
    /\ n \in Crashable /\ status[n] = "in"
    /\ Retire(n, "down")
    /\ UNCHANGED sent

-----------------------------------------------------------------------------
(* Operator commands.                                                      *)

\* handle_remove's checks: membership is not locked, the target is another
\* node, a member, and its version has a successor.
CanRemove(n, t) ==
    /\ status[n] = "in" /\ t # n
    /\ ~MembershipLocked(rep[n])
    /\ IsMember(rep[n], t)
    /\ HasSuccessor(rep[n].members[t].ver)

\* The replica handle_remove leaves: the tombstone's version follows the
\* member's, and it goes through the same merge as a gossiped one.
Removed(n, t) ==
    MergeTombstone(rep[n], t, [state |-> "Fenced", ver |-> Successor(rep[n].members[t].ver, n)])

\* handle_remove.
RemoveMember(n, t) ==
    /\ n \in Operators /\ t \in Removable
    /\ CanRemove(n, t)
    /\ Become(n, Removed(n, t), {})
    /\ UNCHANGED <<status, offer>>

\* handle_clear_tombstone: a versioned update, never a deletion.
ClearTombstone(n, t) ==
    LET b == rep[n].tombs[t]
    IN  /\ n \in Operators
        /\ status[n] = "in"
        /\ b.state = "Fenced"
        /\ HasSuccessor(b.ver)
        /\ Become(n, [rep[n] EXCEPT !.tombs[t] =
                        [state |-> "Cleared", ver |-> Successor(b.ver, n)]], {})
        /\ UNCHANGED <<status, offer>>

\* SetMembershipLock: a no-op when the lock already has that value.
SetMembershipLock(n, locked) ==
    LET p == rep[n].policy
        base == IF p = NoPolicy THEN Initial(n) ELSE p.ver
    IN  /\ n \in Lockers
        /\ status[n] = "in"
        /\ MembershipLocked(rep[n]) # locked
        /\ HasSuccessor(base)
        /\ Become(n, MergePolicy(rep[n], [lock |-> IF locked THEN "Locked" ELSE "Open",
                                          ver |-> Successor(base, n)]), {})
        /\ UNCHANGED <<status, offer>>

-----------------------------------------------------------------------------
DeliverTo(n) == \E s \in Nodes : \E m \in sent[s] : Deliver(n, s, m)

Next ==
    \E n \in Nodes :
       \/ \E x \in Nodes : Admit(n, x)
       \/ Adopt(n)
       \/ \E s \in Nodes : InstallBaseline(n, s)
       \/ \E t \in Nodes : SuspectMember(n, t)
       \/ \E t \in Nodes : DeclareDead(n, t)
       \/ DeliverTo(n)
       \/ Leave(n)
       \/ Crash(n)
       \/ \E t \in Nodes : RemoveMember(n, t)
       \/ \E t \in Nodes : ClearTombstone(n, t)
       \/ \E locked \in BOOLEAN : SetMembershipLock(n, locked)

Spec == Init /\ [][Next]_vars

\* A message that would change the receiver is not ignored forever: gossip is
\* repeated and anti-entropy rounds recur.
Learn(n) == DeliverTo(n) /\ rep'[n] # rep[n]

\* The shell re-arms the probe round and fires every timer it accepted, so a
\* dead peer is probed again and again and an armed deadline passes.
FairSpec ==
    /\ Spec
    /\ \A n \in Nodes :
          /\ WF_vars(Learn(n))
          /\ \A t \in Suspectable :
                /\ WF_vars(DeclareDead(n, t))
                /\ WF_vars(status[t] = "down" /\ SuspectMember(n, t))

-----------------------------------------------------------------------------
(* Safety.                                                                 *)

\* Claim(t, state, inc) holds of every statement about a member's liveness
\* that is held in a view, on its way, or in a snapshot.
Everywhere(Claim(_, _, _)) ==
    /\ \A n, t \in Nodes :
          /\ IsMember(rep[n], t) => Claim(t, rep[n].members[t].state, rep[n].members[t].inc)
          /\ offer[n][t].state # "Absent" => Claim(t, offer[n][t].state, offer[n][t].inc)
    /\ \A n \in Nodes : \A m \in sent[n] :
          /\ m.type = "member" => Claim(m.id, m.rec.state, m.rec.inc)
          /\ m.type = "announce" => Claim(m.id, Claimed(m.kind), Effective(m.kind, m.inc))

\* Only the subject raises its incarnation.
WithinAuthority(t, state, i) ==
    \/ i <= rep[t].inc
    \/ state = "Dead" /\ status[t] = "left" /\ i = rep[t].inc + 1

\* No view, message or snapshot ever names an incarnation its subject has not
\* reached, except the death one past it that a departed node declared itself:
\* refute is the only writer, and no peer can manufacture a refutation.
IncarnationAuthority == Everywhere(WithinAuthority)

HasOrigin(t, state, i) ==
    \/ state = "Alive"
    \/ \E o \in Nodes : Announce("Suspect", t, i) \in sent[o]
    \/ /\ state = "Dead"
       /\ \E j \in Incarnations : /\ Announce("Leave", t, j) \in sent[t]
                                  /\ Effective("Leave", j) = i

\* Every suspicion, wherever it is found, was raised by some node's failed
\* probes at exactly that incarnation, and every death follows such a suspicion
\* or the subject's own Leave: merging never invents a failure.
FailureHasOrigin == Everywhere(HasOrigin)

\* An uncleared tombstone keeps its node out of the view, whatever is gossiped,
\* announced, installed or admitted later (the fence of merge_member,
\* apply_announcement and handle_node_id_allocated).
FenceHolds ==
    \A n, t \in Nodes : IsTombstoned(rep[n], t) => ~IsMember(rep[n], t)

\* A suspicion deadline exists only for a member still suspected, at the
\* incarnation it was armed for or a later one: no refuted, dead or removed
\* member has a timer left that could act on it.
DeadlineMeansSuspected ==
    \A n, t \in Nodes :
       rep[n].susp[t] # NoDeadline =>
          /\ rep[n].members[t].state = "Suspected"
          /\ rep[n].members[t].inc >= rep[n].susp[t]

\* Death is terminal while the record lasts: no step of a node that stays turns
\* a dead member into a live one or moves its incarnation (swim_supersedes).
DeathIsTerminal ==
    [][\A n, t \in Nodes :
          status'[n] = "in" /\ rep[n].members[t].state = "Dead" =>
             \/ rep'[n].members[t] = NoMember /\ rep'[n].tombs[t] # rep[n].tombs[t]
             \/ /\ rep'[n].members[t].state = "Dead"
                /\ rep'[n].members[t].inc = rep[n].members[t].inc]_vars

-----------------------------------------------------------------------------
(* What operators decide.                                                  *)

\* The policy is a register, and so is the tombstone of every node.
ThePolicy == 0
Registers == Nodes \cup {ThePolicy}

\* The decisions anybody has ever sent on.
IsOn(m, k) == IF k = ThePolicy THEN m.type = "policy" ELSE m.type = "tombstone" /\ m.id = k
Made(k) == UNION {{m.rec : m \in {x \in sent[n] : IsOn(x, k)}} : n \in Nodes}

\* The decision a replica holds, if any.
Holds(r, k) == IF k = ThePolicy THEN {r.policy} \ {NoPolicy} ELSE {r.tombs[k]} \ {NoTombstone}

D == INSTANCE Decisions WITH
        Holders <- Nodes,
        made    <- [k \in Registers |-> Made(k)],
        held    <- [n \in Nodes |-> [k \in Registers |-> Holds(rep[n], k)]]

\* The replicas implement registers of decisions: what a node holds was decided by
\* an operator, gossip, baselines and removals only ever move a node forwards, and
\* a new decision never reuses a version, although nodes decide on their own and
\* each on what it happens to know.
DecisionsAreRegisters == D!DecisionsSpec

-----------------------------------------------------------------------------
(* Liveness.                                                               *)

\* A crashed member is eventually dead, or removed, in the view of every node
\* that is still running (steps 7 and 8 of the failure detector in
\* docs/protocol-p2p.md: whoever's probes of it fail starts a suspicion timer).
\* It does not hold: suspect arms no deadline for a suspicion that came by gossip,
\* so when the raiser crashes too nobody is left to declare the death.
CrashIsDetected ==
    \A t \in Crashable :
       status[t] = "down" ~>
          \A n \in Nodes : status[n] = "in" => rep[n].members[t].state \in {"Dead", "Absent"}

\* Nodes that stay and that nobody removed.
Stable(n) == status[n] = "in" /\ \A o \in Nodes : rep[o].tombs[n] = NoTombstone

\* Operator decisions converge: once operators stop, all remaining members hold
\* the same tombstones and the same policy.
DecisionsConverge ==
    <>[](\A a, b \in Nodes : Stable(a) /\ Stable(b) =>
            rep[a].tombs = rep[b].tombs /\ rep[a].policy = rep[b].policy)
=============================================================================
