------------------------------- MODULE Merge -------------------------------
(***************************************************************************)
(* What one replica of a formation's membership does with a record it is   *)
(* told about: merge.rs, and the part of update.rs (absorb_outcome, refute,*)
(* suspect, declare_dead) that completes a merge.  Every operator is a     *)
(* function from a replica to the replica the code leaves behind, so that  *)
(* an action of Formation is one application of it.                        *)
(*                                                                         *)
(* A member record keeps what merging tells apart: the SWIM pair (state,   *)
(* inc) and the version that orders the description.  Descriptions         *)
(* themselves are left out: between honest nodes a version determines one. *)
(***************************************************************************)
EXTENDS Integers, FiniteSets

CONSTANTS
    Nodes,          \* formation-assigned node IDs, ordered as the code's strings are
    MaxInc,         \* largest Incarnation (u64::MAX in the code)
    MaxCounter,     \* largest VersionTuple.counter (u64::MAX in the code)
    MaxMembers,     \* Limits.max_members
    MaxTombstones   \* Limits.max_tombstones

ASSUME NodesAssumption == Nodes \subseteq Nat \ {0} /\ IsFiniteSet(Nodes)
ASSUME MaxIncAssumption == MaxInc \in Nat
ASSUME MaxCounterAssumption == MaxCounter \in Nat
ASSUME LimitsAssumption == MaxMembers \in Nat /\ MaxTombstones \in Nat

-----------------------------------------------------------------------------
(* Data.                                                                   *)

Incarnations == 0..MaxInc

\* VersionTuple; the epoch never moves within a formation.
Versions == [counter : 0..MaxCounter, actor : Nodes \cup {0}]

\* VersionTuple's derived order: counter, then actor.
Precedes(v, w) ==
    \/ v.counter < w.counter
    \/ v.counter = w.counter /\ v.actor < w.actor

\* checked_successor; the caller tests HasSuccessor first.
HasSuccessor(v) == v.counter < MaxCounter

\* Mutant: the version says who decided but does not move on.
Successor_SameCounter(v, actor) == [counter |-> v.counter, actor |-> actor]

Successor(v, actor) == [counter |-> v.counter + 1, actor |-> actor]

Initial(actor) == [counter |-> 0, actor |-> actor]

NoVersion == Initial(0)

\* "Absent", "None" and "Unset" stand for a key the code's map does not hold.
Members == [state : {"Absent", "Alive", "Suspected", "Dead"},
            inc   : Incarnations,
            ver   : Versions]

NoMember == [state |-> "Absent", inc |-> 0, ver |-> NoVersion]

Tombstones == [state : {"None", "Fenced", "Cleared"}, ver : Versions]

NoTombstone == [state |-> "None", ver |-> NoVersion]

Policies == [lock : {"Unset", "Open", "Locked"}, ver : Versions]

NoPolicy == [lock |-> "Unset", ver |-> NoVersion]

\* Membership.suspicions: the incarnation a deadline was armed for.
NoDeadline == -1

Replicas == [inc     : Incarnations,
             members : [Nodes -> Members],
             tombs   : [Nodes -> Tombstones],
             susp    : [Nodes -> Incarnations \cup {NoDeadline}],
             policy  : Policies]

\* A replica that holds nothing but its own incarnation.
Bare(i) == [inc     |-> i,
            members |-> [t \in Nodes |-> NoMember],
            tombs   |-> [t \in Nodes |-> NoTombstone],
            susp    |-> [t \in Nodes |-> NoDeadline],
            policy  |-> NoPolicy]

IsMember(r, t) == r.members[t].state # "Absent"

\* is_tombstoned: only an uncleared tombstone fences.
IsTombstoned(r, t) == r.tombs[t].state = "Fenced"

MemberCount(r) == Cardinality({t \in Nodes : IsMember(r, t)})

TombstoneCount(r) == Cardinality({t \in Nodes : r.tombs[t].state # "None"})

MembershipLocked(r) == r.policy.lock = "Locked"

-----------------------------------------------------------------------------
(* The SWIM override table.                                                *)

\* Mutant: a newer incarnation brings the dead back.
SwimSupersedes_DeadYields(s, n, cs, m) ==
    \/ n > m
    \/ n = m /\ (s = "Dead" \/ (s = "Suspected" /\ cs = "Alive")) /\ cs # "Dead"

\* swim_supersedes: state s at incarnation n replaces state cs at m.
SwimSupersedes(s, n, cs, m) ==
    /\ cs # "Dead"
    /\ \/ s = "Dead" /\ n >= m
       \/ s = "Suspected" /\ cs = "Alive" /\ n >= m
       \/ n > m

-----------------------------------------------------------------------------
(* Refutation.                                                             *)

\* Mutant: the increment wraps around at the width.
Refute_Wraps(self, r, challenged) ==
    [r EXCEPT !.inc = ((IF @ >= challenged THEN @ ELSE challenged) + 1) % (MaxInc + 1)]

\* refute: one past whichever is newer, own incarnation or challenge.  At the
\* last incarnation nothing changes (IncarnationExhausted); a node that has
\* lost its own record to a tombstone moves only its incarnation.
Refute(self, r, challenged) ==
    LET base == IF r.inc >= challenged THEN r.inc ELSE challenged
        own  == r.members[self]
    IN  IF base = MaxInc THEN r
        ELSE [r EXCEPT
                !.inc = base + 1,
                !.members[self] =
                    IF IsMember(r, self)
                    THEN [state |-> "Alive", inc |-> base + 1,
                          ver |-> IF HasSuccessor(own.ver)
                                  THEN Successor(own.ver, self) ELSE own.ver]
                    ELSE own]

\* A claim about this node itself: only suspicion or death at or above its own
\* incarnation is answered, everything else is ignored.
Challenge(self, r, state, i) ==
    IF state \in {"Suspected", "Dead"} /\ i >= r.inc
    THEN Refute(self, r, i)
    ELSE r

-----------------------------------------------------------------------------
(* Merging gossiped records.                                               *)

\* Whether a record's SWIM pair replaces the one held.
Wins(cur, m) == SwimSupersedes(m.state, m.inc, cur.state, cur.inc)

\* Mutant: a newer description brings its incarnation along.
Merged_TakesIncarnation(cur, m) ==
    [state |-> IF Wins(cur, m) THEN m.state ELSE cur.state,
     inc   |-> IF Wins(cur, m) \/ Precedes(cur.ver, m.ver) THEN m.inc ELSE cur.inc,
     ver   |-> IF Precedes(cur.ver, m.ver) THEN m.ver ELSE cur.ver]

\* The two projections are decided apart: the description by its version, the
\* SWIM pair by the override table.
Merged(cur, m) ==
    [state |-> IF Wins(cur, m) THEN m.state ELSE cur.state,
     inc   |-> IF Wins(cur, m) THEN m.inc ELSE cur.inc,
     ver   |-> IF Precedes(cur.ver, m.ver) THEN m.ver ELSE cur.ver]

\* Mutant: a refuted member keeps its deadline.
Deadline_Kept(cur, m, d) == IF Wins(cur, m) /\ m.state = "Dead" THEN NoDeadline ELSE d

\* A liveness that is settled has no suspicion deadline to keep.
Deadline(cur, m, d) == IF Wins(cur, m) /\ m.state # "Suspected" THEN NoDeadline ELSE d

\* merge_member.
MergeMember(self, r, t, m) ==
    IF IsTombstoned(r, t) THEN r
    ELSE IF t = self THEN Challenge(self, r, m.state, m.inc)
    ELSE IF ~IsMember(r, t)
         THEN IF MemberCount(r) >= MaxMembers THEN r
              ELSE [r EXCEPT !.members[t] = m]
    ELSE [r EXCEPT !.members[t] = Merged(@, m),
                   !.susp[t] = Deadline(r.members[t], m, @)]

\* Mutant: a tombstone is recorded but the member stays in the view.
MergeTombstone_KeepsMember(r, t, b) ==
    IF r.tombs[t].state = "None" \/ Precedes(r.tombs[t].ver, b.ver)
    THEN [r EXCEPT !.tombs[t] = b]
    ELSE r

\* merge_tombstone: an older, equal or conflicting record changes nothing, a
\* new one is refused at the limit; otherwise the member goes, whatever it was
\* and even when the record says the fence is lifted.
MergeTombstone(r, t, b) ==
    LET cur == r.tombs[t]
    IN  IF IF cur.state = "None"
           THEN TombstoneCount(r) < MaxTombstones
           ELSE Precedes(cur.ver, b.ver)
        THEN [r EXCEPT !.tombs[t] = b, !.members[t] = NoMember, !.susp[t] = NoDeadline]
        ELSE r

\* Mutant: the first policy to arrive stays.
MergePolicy_FirstWins(r, p) == IF r.policy.lock = "Unset" THEN [r EXCEPT !.policy = p] ELSE r

\* merge_policy.
MergePolicy(r, p) ==
    IF r.policy.lock = "Unset" \/ Precedes(r.policy.ver, p.ver)
    THEN [r EXCEPT !.policy = p]
    ELSE r

-----------------------------------------------------------------------------
(* Announcements.                                                          *)

\* The SWIM state an announcement claims.
Claimed(kind) ==
    CASE kind = "Alive" -> "Alive"
      [] kind = "Suspect" -> "Suspected"
      [] OTHER -> "Dead"

\* A voluntary departure lands one incarnation higher, so that it outranks the
\* subject's own latest Alive.
Effective(kind, i) == IF kind = "Leave" /\ i < MaxInc THEN i + 1 ELSE i

\* Whether apply_announcement changes the held record about somebody else.
Adopts(self, r, sender, kind, t, i) ==
    /\ kind = "Leave" => sender = t
    /\ ~IsTombstoned(r, t)
    /\ t # self
    /\ IsMember(r, t)
    /\ SwimSupersedes(Claimed(kind), Effective(kind, i), r.members[t].state, r.members[t].inc)

\* apply_announcement.  A Leave naming this node is no challenge.
ApplyAnnouncement(self, r, sender, kind, t, i) ==
    IF t = self
    THEN IF kind = "Leave" \/ IsTombstoned(r, t) THEN r
         ELSE Challenge(self, r, Claimed(kind), i)
    ELSE IF Adopts(self, r, sender, kind, t, i)
    THEN [r EXCEPT
            !.members[t].state = Claimed(kind),
            !.members[t].inc = Effective(kind, i),
            !.susp[t] = IF Claimed(kind) # "Suspected" THEN NoDeadline ELSE @]
    ELSE r

\* suspect: only an adopted suspicion arms a deadline.
Suspect(self, r, t, i) ==
    LET s == ApplyAnnouncement(self, r, self, "Suspect", t, i)
    IN  IF Adopts(self, r, self, "Suspect", t, i)
        THEN [s EXCEPT !.susp[t] = i]
        ELSE s

\* handle_suspicion_timer: the deadline is dropped, then death is declared at
\* the incarnation it was armed for.
ExpireSuspicion(self, r, t) ==
    ApplyAnnouncement(self, [r EXCEPT !.susp[t] = NoDeadline], self, "Dead", t, r.susp[t])
=============================================================================
