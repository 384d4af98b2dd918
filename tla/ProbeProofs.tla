---------------------------- MODULE ProbeProofs ----------------------------
(***************************************************************************)
(* For every set of nodes and every limit: whatever the failure detector   *)
(* of a node waits for holds an armed timer of its own, and its verdicts   *)
(* rest on all the evidence asked for and on nothing stale.                *)
(***************************************************************************)
EXTENDS Probe, FiniteSetTheorems, TLAPS

-----------------------------------------------------------------------------
(* What the view becomes.                                                  *)

\* From r to s member t stays and its incarnation does not go back.
Stays(r, s, t) == IsMember(s, t) /\ s.members[t].inc >= r.members[t].inc

\* From r to s no peer is lost and none goes back.
Advances(r, s) == \A t \in Peers : IsMember(r, t) => Stays(r, s, t)

\* s is a view that r may become without a removal.
View(r, s) == s \in Replicas /\ Advances(r, s)

LEMMA IncarnationsAreNumbers ==
    ASSUME NEW r \in Replicas, NEW t \in Nodes
    PROVE  r.members[t] \in Members /\ r.members[t].inc \in Incarnations /\ r.members[t].inc \in Int
BY MaxIncAssumption DEF Replicas, Members, Incarnations

LEMMA SameView ==
    ASSUME NEW r \in Replicas
    PROVE  View(r, r)
<1>1. \A t \in Nodes : r.members[t].inc \in Int
  BY IncarnationsAreNumbers
<1>2. \A t \in Peers : r.members[t].inc >= r.members[t].inc
  BY <1>1 DEF Peers
<1>. QED  BY <1>2 DEF View, Advances, Stays

\* A view that differs from r in t's record only.
LEMMA ViewUpdate ==
    ASSUME NEW r \in Replicas, NEW s \in Replicas, NEW t \in Nodes,
           \A u \in Nodes : u # t => s.members[u] = r.members[u],
           IsMember(r, t) => Stays(r, s, t)
    PROVE  View(r, s)
<1>1. \A u \in Nodes : r.members[u].inc \in Int
  BY IncarnationsAreNumbers
<1>2. ASSUME NEW u \in Peers, IsMember(r, u)
      PROVE  Stays(r, s, u)
  <2>1. u \in Nodes /\ r.members[u].inc \in Int
    BY <1>1 DEF Peers
  <2>2. CASE u = t
    BY <1>2, <2>2
  <2>3. CASE u # t
    BY <1>2, <2>1, <2>3 DEF IsMember, Stays
  <2>. QED  BY <2>2, <2>3
<1>. QED  BY <1>2 DEF View, Advances

\* A view with one record and its deadline replaced.
LEMMA RecordType ==
    ASSUME NEW r \in Replicas, NEW t \in Nodes, NEW m \in Members,
           NEW d \in Incarnations \cup {NoDeadline}
    PROVE  [r EXCEPT !.members[t] = m, !.susp[t] = d] \in Replicas
BY DEF Replicas

\* Refutation moves this node's own incarnation and record, nothing else.
LEMMA ChallengeView ==
    ASSUME NEW r \in Replicas, NEW st, NEW i \in Incarnations, NEW s,
           s = Challenge(Self, r, st, i)
    PROVE  View(r, s) /\ s.susp = r.susp /\ \A u \in Peers : s.members[u] = r.members[u]
<1> DEFINE base == IF r.inc >= i THEN r.inc ELSE i
           own  == r.members[Self]
           ver  == IF HasSuccessor(own.ver) THEN Successor(own.ver, Self) ELSE own.ver
           rec  == IF IsMember(r, Self)
                   THEN [state |-> "Alive", inc |-> base + 1, ver |-> ver] ELSE own
<1>0. Self \in Nodes /\ \A u \in Peers : u \in Nodes /\ u # Self
  BY SelfAssumption DEF Peers
<1>1. r.inc \in Incarnations /\ own \in Members /\ own.ver \in Versions
  BY <1>0 DEF Replicas, Members
<1>2. CASE s = r
  BY <1>2, SameView
<1>3. CASE s # r
  <2>1. base # MaxInc /\ s = [r EXCEPT !.inc = base + 1, !.members[Self] = rec]
    BY <1>3 DEF Challenge, Refute
  <2>2. base + 1 \in Incarnations
    BY <1>1, <2>1, MaxIncAssumption DEF Incarnations
  <2>3. ver \in Versions
    BY <1>0, <1>1, MaxCounterAssumption DEF Versions, HasSuccessor, Successor
  <2>4. rec \in Members
    BY <1>1, <2>2, <2>3 DEF Members
  <2>5. IsMember(r, Self) => rec.state = "Alive"
    OBVIOUS
  <2>6. ~IsMember(r, Self) => rec = own
    OBVIOUS
  <2> HIDE DEF base, rec
  <2>7. /\ s \in Replicas /\ s.members[Self] = rec /\ s.tombs = r.tombs /\ s.susp = r.susp
        /\ \A u \in Nodes : u # Self => s.members[u] = r.members[u]
    <3>1. s \in Replicas
      <4>1. ASSUME NEW j \in Incarnations, NEW m \in Members
            PROVE  [r EXCEPT !.inc = j, !.members[Self] = m] \in Replicas
        BY <1>0 DEF Replicas
      <4>. QED  BY <2>1, <2>2, <2>4, <4>1
    <3>2. s.members[Self] = rec /\ s.tombs = r.tombs /\ s.susp = r.susp
      BY <1>0, <2>1 DEF Replicas
    <3>3. \A u \in Nodes : u # Self => s.members[u] = r.members[u]
      BY <1>0, <2>1 DEF Replicas
    <3>. QED  BY <3>1, <3>2, <3>3
  <2>9. \A u \in Peers : s.members[u] = r.members[u]
    BY <1>0, <2>7
  <2>10. \A u \in Peers : r.members[u].inc \in Int
    BY <1>0, IncarnationsAreNumbers
  <2>11. \A u \in Peers : r.members[u].inc >= r.members[u].inc
    BY <2>10
  <2>12. Advances(r, s)
    BY <2>9, <2>11 DEF Advances, Stays, IsMember
  <2>. QED  BY <2>7, <2>9, <2>12 DEF View
<1>. QED  BY <1>2, <1>3

\* What an announcement about a peer leaves behind when it is adopted.
LEMMA AdoptedAnnouncement ==
    ASSUME NEW r \in Replicas, NEW from, NEW kind, NEW t \in Peers,
           NEW i \in Incarnations, Adopts(Self, r, from, kind, t, i), NEW s,
           s = ApplyAnnouncement(Self, r, from, kind, t, i)
    PROVE  /\ View(r, s)
           /\ s.members[t].state = Claimed(kind) /\ s.members[t].inc = Effective(kind, i)
           /\ s.susp[t] = IF Claimed(kind) # "Suspected" THEN NoDeadline ELSE r.susp[t]
           /\ \A u \in Nodes : u # t => s.members[u] = r.members[u] /\ s.susp[u] = r.susp[u]
<1> DEFINE m == [r.members[t] EXCEPT !.state = Claimed(kind), !.inc = Effective(kind, i)]
           d == IF Claimed(kind) # "Suspected" THEN NoDeadline ELSE r.susp[t]
<1>0. t \in Nodes /\ t # Self
  BY DEF Peers
<1>1. r.members[t] \in Members /\ d \in Incarnations \cup {NoDeadline}
  BY <1>0 DEF Replicas
<1>2. Effective(kind, i) \in Incarnations
  BY MaxIncAssumption DEF Effective, Incarnations
<1>3. Claimed(kind) \in {"Alive", "Suspected", "Dead"}
  BY DEF Claimed
<1>4. m \in Members /\ m.state = Claimed(kind) /\ m.inc = Effective(kind, i)
  BY <1>1, <1>2, <1>3 DEF Members
<1>5. s = [r EXCEPT !.members[t] = m, !.susp[t] = d]
  BY <1>0, <1>1 DEF ApplyAnnouncement, Replicas, Members
<1>6. IsMember(r, t) /\ m.inc >= r.members[t].inc
  <2>1. SwimSupersedes(Claimed(kind), m.inc, r.members[t].state, r.members[t].inc) /\ IsMember(r, t)
    BY <1>4 DEF Adopts
  <2>2. m.inc \in Int /\ r.members[t].inc \in Int
    BY <1>0, <1>2, <1>4, IncarnationsAreNumbers, MaxIncAssumption DEF Incarnations
  <2>. QED  BY <2>1, <2>2 DEF SwimSupersedes
<1> HIDE DEF m, d
<1>7. /\ s \in Replicas /\ s.members[t] = m /\ s.susp[t] = d /\ s.tombs = r.tombs
      /\ \A u \in Nodes : u # t => s.members[u] = r.members[u] /\ s.susp[u] = r.susp[u]
  <2>1. ASSUME NEW x \in Members, NEW y \in Incarnations \cup {NoDeadline},
               s = [r EXCEPT !.members[t] = x, !.susp[t] = y]
        PROVE  /\ s \in Replicas /\ s.members[t] = x /\ s.susp[t] = y /\ s.tombs = r.tombs
               /\ \A u \in Nodes : u # t => s.members[u] = r.members[u] /\ s.susp[u] = r.susp[u]
    <3>1. s \in Replicas
      <4>1. [r EXCEPT !.members[t] = x, !.susp[t] = y] \in Replicas
        BY <1>0, RecordType
      <4>. QED  BY <2>1, <4>1
    <3>2. s.members[t] = x /\ s.susp[t] = y /\ s.tombs = r.tombs
      BY <1>0, <2>1 DEF Replicas
    <3>3. \A u \in Nodes : u # t => s.members[u] = r.members[u] /\ s.susp[u] = r.susp[u]
      BY <1>0, <2>1 DEF Replicas
    <3>. QED  BY <3>1, <3>2, <3>3
  <2>. QED  BY <1>1, <1>4, <1>5, <2>1
<1>8. View(r, s)
  <2>1. Stays(r, s, t)
    BY <1>3, <1>4, <1>6, <1>7 DEF Stays, IsMember
  <2>. QED  BY <1>0, <1>7, <2>1, ViewUpdate
<1>. QED  BY <1>4, <1>7, <1>8 DEF d

LEMMA IgnoredAnnouncement ==
    ASSUME NEW r, NEW from, NEW kind, NEW t \in Peers, NEW i, ~Adopts(Self, r, from, kind, t, i)
    PROVE  ApplyAnnouncement(Self, r, from, kind, t, i) = r
BY DEF ApplyAnnouncement, Peers

\* A peer known to be alive: nobody is suspected or dead that was not before.
LEMMA AliveView ==
    ASSUME NEW r \in Replicas, NEW from, NEW t \in Peers, NEW i \in Incarnations, NEW s,
           s = ApplyAnnouncement(Self, r, from, "Alive", t, i)
    PROVE  /\ View(r, s)
           /\ \A u \in Nodes : s.members[u].state = r.members[u].state \/ s.members[u].state = "Alive"
<1>1. CASE ~Adopts(Self, r, from, "Alive", t, i)
  BY <1>1, IgnoredAnnouncement, SameView
<1>2. CASE Adopts(Self, r, from, "Alive", t, i)
  <2>1. /\ View(r, s) /\ s.members[t].state = Claimed("Alive")
        /\ \A u \in Nodes : u # t => s.members[u] = r.members[u]
    BY <1>2, AdoptedAnnouncement
  <2>. QED  BY <2>1 DEF Claimed
<1>. QED  BY <1>1, <1>2

\* An adopted suspicion.
LEMMA SuspectView ==
    ASSUME NEW r \in Replicas, NEW t \in Peers, NEW i \in Incarnations,
           Adopts(Self, r, Self, "Suspect", t, i), NEW s, s = Suspect(Self, r, t, i)
    PROVE  /\ View(r, s)
           /\ s.members[t].state = "Suspected" /\ s.members[t].inc = i /\ s.susp[t] = i
           /\ \A u \in Nodes : u # t => s.members[u] = r.members[u] /\ s.susp[u] = r.susp[u]
<1>1. PICK q : q = ApplyAnnouncement(Self, r, Self, "Suspect", t, i)
  OBVIOUS
<1>2. /\ View(r, q) /\ q.members[t].state = "Suspected" /\ q.members[t].inc = i
      /\ \A u \in Nodes : u # t => q.members[u] = r.members[u] /\ q.susp[u] = r.susp[u]
  BY <1>1, AdoptedAnnouncement DEF Claimed, Effective
<1>3. s = [q EXCEPT !.susp[t] = i] /\ q \in Replicas /\ t \in Nodes
  BY <1>1, <1>2 DEF Suspect, View, Peers
<1>4. /\ s \in Replicas /\ s.members = q.members /\ s.tombs = q.tombs /\ s.susp[t] = i
      /\ \A u \in Nodes : u # t => s.susp[u] = q.susp[u]
  BY <1>3 DEF Replicas
<1>5. View(r, s)
  BY <1>2, <1>4 DEF View, Advances, Stays, IsMember
<1>. QED  BY <1>2, <1>4, <1>5

\* A deadline that passes: its member may be dead, nothing else moves.
LEMMA ExpireView ==
    ASSUME NEW r \in Replicas, NEW t \in Peers, r.susp[t] # NoDeadline, NEW s,
           s = ExpireSuspicion(Self, r, t)
    PROVE  /\ View(r, s)
           /\ \A u \in Nodes : u # t => s.members[u] = r.members[u] /\ s.susp[u] = r.susp[u]
<1>1. PICK q : q = [r EXCEPT !.susp[t] = NoDeadline]
  OBVIOUS
<1>2. PICK i : i = r.susp[t]
  OBVIOUS
<1>3. t \in Nodes /\ s = ApplyAnnouncement(Self, q, Self, "Dead", t, i)
  BY <1>1, <1>2 DEF ExpireSuspicion, Peers
<1>4. i \in Incarnations
  BY <1>2, <1>3 DEF Replicas
<1>5. /\ q \in Replicas /\ q.members = r.members /\ q.tombs = r.tombs
      /\ \A u \in Nodes : u # t => q.susp[u] = r.susp[u]
  BY <1>1, <1>3 DEF Replicas
<1>7. View(q, s) /\ \A u \in Nodes : u # t => s.members[u] = q.members[u] /\ s.susp[u] = q.susp[u]
  <2>1. CASE Adopts(Self, q, Self, "Dead", t, i)
    BY <1>3, <1>4, <1>5, <2>1, AdoptedAnnouncement, SMTT(30)
  <2>2. CASE ~Adopts(Self, q, Self, "Dead", t, i)
    BY <1>3, <1>5, <2>2, IgnoredAnnouncement, SameView
  <2>. QED  BY <2>1, <2>2
<1>8. View(r, s)
  BY <1>5, <1>7 DEF View, Advances, Stays, IsMember
<1>. QED  BY <1>5, <1>7, <1>8

\* Gossip about a peer.
LEMMA MergeMemberView ==
    ASSUME NEW r \in Replicas, NEW t \in Peers, NEW m \in Members, m.state # "Absent",
           NEW s, s = MergeMember(Self, r, t, m)
    PROVE  View(r, s)
<1> DEFINE c == Merged(r.members[t], m)
           d == Deadline(r.members[t], m, r.susp[t])
<1>0. t \in Nodes /\ t # Self
  BY DEF Peers
<1>1. r.members[t] \in Members /\ r.susp[t] \in Incarnations \cup {NoDeadline}
      /\ m.inc \in Int /\ r.members[t].inc \in Int
  BY <1>0, MaxIncAssumption DEF Replicas, Members, Incarnations
<1>2. \/ s = r
      \/ ~IsMember(r, t) /\ s = [r EXCEPT !.members[t] = m]
      \/ IsMember(r, t) /\ s = [r EXCEPT !.members[t] = c, !.susp[t] = d]
  BY <1>0 DEF MergeMember
<1>3. c \in Members /\ d \in Incarnations \cup {NoDeadline}
  BY <1>1 DEF Merged, Deadline, Members
<1>4. IsMember(r, t) => c.state # "Absent" /\ c.inc >= r.members[t].inc
  BY <1>1 DEF Merged, Wins, SwimSupersedes, IsMember
<1> HIDE DEF c, d
<1>5. CASE s = r
  BY <1>5, SameView
<1>6. CASE IsMember(r, t) /\ s = [r EXCEPT !.members[t] = c, !.susp[t] = d]
  <2>1. /\ s \in Replicas /\ s.members[t] = c /\ s.tombs = r.tombs
        /\ \A u \in Nodes : u # t => s.members[u] = r.members[u]
    <3>1. ASSUME NEW x \in Members, NEW y \in Incarnations \cup {NoDeadline},
                 s = [r EXCEPT !.members[t] = x, !.susp[t] = y]
          PROVE  /\ s \in Replicas /\ s.members[t] = x /\ s.tombs = r.tombs
                 /\ \A u \in Nodes : u # t => s.members[u] = r.members[u]
      <4>1. s \in Replicas
        <5>1. [r EXCEPT !.members[t] = x, !.susp[t] = y] \in Replicas
          BY <1>0, RecordType
        <5>. QED  BY <3>1, <5>1
      <4>2. s.members[t] = x /\ s.tombs = r.tombs
        BY <1>0, <3>1 DEF Replicas
      <4>3. \A u \in Nodes : u # t => s.members[u] = r.members[u]
        BY <1>0, <3>1 DEF Replicas
      <4>. QED  BY <4>1, <4>2, <4>3
    <3>. QED  BY <1>3, <1>6, <3>1
  <2>2. Stays(r, s, t)
    BY <1>4, <1>6, <2>1 DEF IsMember, Stays
  <2>. QED  BY <1>0, <2>1, <2>2, ViewUpdate
<1>7. CASE ~IsMember(r, t) /\ s = [r EXCEPT !.members[t] = m]
  <2>1. s \in Replicas /\ \A u \in Nodes : u # t => s.members[u] = r.members[u]
    BY <1>0, <1>7 DEF Replicas
  <2>. QED  BY <1>0, <1>7, <2>1, ViewUpdate
<1>. QED  BY <1>2, <1>5, <1>6, <1>7

\* A tombstone takes its own member and no other.
LEMMA MergeTombstoneView ==
    ASSUME NEW r \in Replicas, NEW t \in Nodes, NEW b \in Tombstones,
           NEW s, s = MergeTombstone(r, t, b), s # r
    PROVE  /\ s \in Replicas /\ s.members[t].state = "Absent"
           /\ \A u \in Nodes : u # t => s.members[u] = r.members[u]
<1>1. NoMember \in Members /\ NoMember.state = "Absent"
  BY MaxCounterAssumption, MaxIncAssumption
     DEF NoMember, NoVersion, Initial, Members, Versions, Incarnations
<1>2. s = [r EXCEPT !.tombs[t] = b, !.members[t] = NoMember, !.susp[t] = NoDeadline]
  BY DEF MergeTombstone
<1> HIDE DEF NoMember
<1>3. s \in Replicas
  <2>1. [r EXCEPT !.tombs[t] = b, !.members[t] = NoMember, !.susp[t] = NoDeadline] \in Replicas
    BY <1>1 DEF Replicas
  <2>. QED  BY <1>2, <2>1
<1>4. s.members[t] = NoMember /\ \A u \in Nodes : u # t => s.members[u] = r.members[u]
  BY <1>2 DEF Replicas
<1>. QED  BY <1>1, <1>3, <1>4

-----------------------------------------------------------------------------
(* The inductive invariant.                                                *)

\* Every token and every correlation in use has been drawn; probes are told
\* apart by their IDs.
Booked ==
    /\ \A g \in armed \cup late : g < corr
    /\ \A p \in probes : p.id < corr
    /\ \A p, q \in probes : p.id = q.id => p = q
    /\ \A s \in selections : s.why = "Indirect" => s.probe < corr

\* A probe waits for one selection of intermediaries at most, and has none of
\* them while it does: the selection that finds nobody condemns on its own.
Asked ==
    /\ \A p \in probes : p.phase = "Direct" => p.helpers = {}
    /\ \A s \in selections, p \in probes :
          s.why = "Indirect" /\ s.probe = p.id => p.phase = "Indirect" /\ p.helpers = {}
    /\ \A s, u \in selections :
          s.why = "Indirect" /\ u.why = "Indirect" /\ s.probe = u.probe => s = u

\* A probe is of a member, and never newer than the view; a timer belongs to a
\* suspicion.
Known ==
    /\ \A p \in probes : IsMember(rep, p.target) /\ p.inc <= rep.members[p.target].inc
    /\ \A t \in Nodes : deadline[t] # NoTimer => rep.susp[t] # NoDeadline

Finite == IsFiniteSet(probes) /\ IsFiniteSet(selections)

Inv == TypeOK /\ Finite /\ NothingWaitsForever /\ Booked /\ Asked /\ Known

\* The parts of TypeOK that are used one by one.
LEMMA TypeFacts ==
    ASSUME TypeOK
    PROVE  /\ corr \in Nat /\ corr \in Int
           /\ \A g \in armed \cup late : g \in Nat /\ g \in Int
           /\ \A t \in Nodes : deadline[t] \in Int
           /\ \A p \in probes : /\ p.id \in Nat /\ p.timer \in Nat /\ p.id \in Int /\ p.timer \in Int
                                /\ p.target \in Peers /\ p.target \in Nodes /\ p.target # Self
                                /\ p.inc \in Incarnations /\ p.inc \in Int
                                /\ p.helpers \subseteq Peers /\ p.answered \subseteq Peers
           /\ \A s \in selections : s.probe \in Nat
<1>1. corr \in Nat /\ \A g \in armed \cup late : g \in Nat
  BY DEF TypeOK
<1>2. \A t \in Nodes : deadline[t] \in Nat \cup {NoTimer}
  BY DEF TypeOK
<1>3. ASSUME NEW p \in probes
      PROVE  /\ p.id \in Nat /\ p.timer \in Nat /\ p.target \in Peers /\ p.inc \in Incarnations
             /\ p.helpers \subseteq Peers /\ p.answered \subseteq Peers
  <2>1. p \in Probes
    BY DEF TypeOK
  <2>. QED  BY <2>1 DEF Probes
<1>4. ASSUME NEW s \in selections PROVE s.probe \in Nat
  <2>1. s \in Selections
    BY DEF TypeOK
  <2>. QED  BY <2>1 DEF Selections
<1>5. \A t \in Nodes : deadline[t] \in Int
  BY <1>2 DEF NoTimer
<1>6. \A t \in Peers : t \in Nodes /\ t # Self
  BY DEF Peers
<1>7. ASSUME NEW p \in probes
      PROVE  /\ p.id \in Int /\ p.timer \in Int /\ p.target \in Nodes /\ p.target # Self
             /\ p.inc \in Int
  <2>1. /\ p.id \in Nat /\ p.timer \in Nat /\ p.target \in Peers /\ p.inc \in Incarnations
    BY <1>3
  <2>2. p.inc \in Int
    BY <2>1, MaxIncAssumption DEF Incarnations
  <2>3. p.target \in Nodes /\ p.target # Self
    BY <2>1, <1>6
  <2>. QED  BY <2>1, <2>2, <2>3
<1>8. corr \in Int /\ \A g \in armed \cup late : g \in Int
  BY <1>1
<1>. QED  BY <1>1, <1>3, <1>4, <1>5, <1>7, <1>8

\* A step in which probes may end, one suspicion may get a new timer and no
\* intermediaries are asked for; the targets of the probes that go on stay.
LEMMA TargetsStay ==
    ASSUME Inv, rep' \in Replicas, probes' \subseteq probes,
           \A p \in probes' : Stays(rep, rep', p.target),
           selections' \subseteq Selections, IsFiniteSet(selections'),
           Cardinality(selections') <= MaxPending,
           \A s \in selections' : s \in selections \/ s.why # "Indirect",
           corr' \in Nat, corr' >= corr, NEW x \in Nodes,
           deadline' \in [Nodes -> Nat \cup {NoTimer}],
           \A t \in Nodes : \/ deadline'[t] = NoTimer
                            \/ deadline'[t] = deadline[t]
                            \/ t = x /\ deadline'[t] = corr,
           \A t \in Nodes : deadline'[t] # NoTimer => deadline'[t] \in armed' /\ rep'.susp[t] # NoDeadline,
           \A p \in probes' : p.timer \in armed',
           armed' \subseteq armed \cup {corr}, corr \in armed' => corr < corr',
           late' \subseteq armed \cup late
    PROVE  Inv'
<1>1. TypeOK /\ Finite /\ NothingWaitsForever /\ Booked /\ Asked /\ Known
  BY DEF Inv
<1>2. TypeOK' /\ Finite'
  <2>1. IsFiniteSet(probes') /\ Cardinality(probes') <= Cardinality(probes)
    BY <1>1, FS_Subset DEF Finite
  <2>2. IsFiniteSet(probes) /\ Cardinality(probes) \in Nat /\ Cardinality(probes') \in Nat
    BY <1>1, <2>1, FS_CardinalityType DEF Finite
  <2>3. Cardinality(probes') <= MaxPending
    BY <1>1, <2>1, <2>2, ProbeLimitsAssumption DEF TypeOK
  <2>4. probes' \subseteq Probes /\ armed' \subseteq Nat /\ late' \subseteq Nat
    BY <1>1 DEF TypeOK
  <2>. QED  BY <2>1, <2>3, <2>4 DEF TypeOK, Finite
<1>3. Booked'
  <2>1. ASSUME NEW g \in armed' \cup late' PROVE g < corr'
    BY <1>1, TypeFacts DEF Booked
  <2>2. \A p \in probes' : p.id < corr'
    BY <1>1, TypeFacts DEF Booked
  <2>3. \A s \in selections' : s.why = "Indirect" => s.probe < corr'
    BY <1>1, TypeFacts DEF Booked
  <2>4. \A p, q \in probes' : p.id = q.id => p = q
    BY <1>1 DEF Booked
  <2>. QED  BY <2>1, <2>2, <2>3, <2>4 DEF Booked
<1>4. NothingWaitsForever'
  <2>0. ASSUME NEW t \in Nodes, deadline[t] # NoTimer PROVE deadline[t] < corr /\ deadline[t] # corr
    <3>1. deadline[t] \in armed
      BY <1>1, <2>0 DEF NothingWaitsForever
    <3>. QED  BY <1>1, <3>1, TypeFacts DEF Booked
  <2>1. ASSUME NEW p \in probes' PROVE p.timer \in armed /\ p.timer # corr /\ p.timer # NoTimer
    <3>1. p.timer \in armed
      BY <1>1 DEF NothingWaitsForever
    <3>2. p.timer < corr /\ p.timer \in Nat
      BY <1>1, <3>1, TypeFacts DEF Booked
    <3>. QED  BY <1>1, <3>1, <3>2, TypeFacts DEF NoTimer
  <2>2. \A p, q \in probes' : p.timer = q.timer => p = q
    BY <1>1 DEF NothingWaitsForever
  <2>3. ASSUME NEW p \in probes', NEW t \in Nodes PROVE p.timer # deadline'[t]
    BY <1>1, <2>1 DEF NothingWaitsForever
  <2>4. ASSUME NEW t \in Nodes, NEW u \in Nodes, deadline'[t] = deadline'[u], deadline'[t] # NoTimer
        PROVE  t = u
    <3>1. CASE deadline'[t] = corr
      <4>1. deadline[t] # corr /\ deadline[u] # corr
        BY <1>1, <2>0, <2>4, <3>1, TypeFacts DEF NoTimer
      <4>. QED  BY <2>4, <3>1, <4>1
    <3>2. CASE deadline'[t] # corr
      <4>1. deadline'[t] = deadline[t] /\ deadline'[u] = deadline[u]
        BY <2>4, <3>2
      <4>. QED  BY <1>1, <2>4, <4>1 DEF NothingWaitsForever
    <3>. QED  BY <3>1, <3>2
  <2>. QED  BY <2>2, <2>3, <2>4 DEF NothingWaitsForever
<1>5. Asked'
  BY <1>1 DEF Asked
<1>6. Known'
  <2>1. ASSUME NEW p \in probes'
        PROVE  IsMember(rep', p.target) /\ p.inc <= rep'.members[p.target].inc
    <3>1. p.target \in Peers /\ p.inc \in Int /\ p.target \in Nodes
      BY <1>1, TypeFacts
    <3>2. IsMember(rep', p.target) /\ rep'.members[p.target].inc >= rep.members[p.target].inc
      BY DEF Stays
    <3>3. p.inc <= rep.members[p.target].inc
      BY <1>1 DEF Known
    <3>4. rep.members[p.target].inc \in Int /\ rep'.members[p.target].inc \in Int
      BY <1>1, <3>1, IncarnationsAreNumbers DEF TypeOK
    <3>. QED  BY <3>1, <3>2, <3>3, <3>4
  <2>. QED  BY <2>1 DEF Known
<1>. QED  BY <1>2, <1>3, <1>4, <1>5, <1>6 DEF Inv

\* The same step when nobody is removed.
LEMMA ProbesEnd ==
    ASSUME Inv, View(rep, rep'), probes' \subseteq probes,
           selections' \subseteq Selections, IsFiniteSet(selections'),
           Cardinality(selections') <= MaxPending,
           \A s \in selections' : s \in selections \/ s.why # "Indirect",
           corr' \in Nat, corr' >= corr, NEW x \in Nodes,
           deadline' \in [Nodes -> Nat \cup {NoTimer}],
           \A t \in Nodes : \/ deadline'[t] = NoTimer
                            \/ deadline'[t] = deadline[t]
                            \/ t = x /\ deadline'[t] = corr,
           \A t \in Nodes : deadline'[t] # NoTimer => deadline'[t] \in armed' /\ rep'.susp[t] # NoDeadline,
           \A p \in probes' : p.timer \in armed',
           armed' \subseteq armed \cup {corr}, corr \in armed' => corr < corr',
           late' \subseteq armed \cup late
    PROVE  Inv'
<1>1. rep' \in Replicas
  BY DEF View
<1>2. ASSUME NEW p \in probes' PROVE Stays(rep, rep', p.target)
  <2>1. p.target \in Peers /\ IsMember(rep, p.target)
    BY TypeFacts DEF Inv, Known
  <2>. QED  BY <2>1 DEF View, Advances
<1>. QED  BY <1>1, <1>2, TargetsStay

-----------------------------------------------------------------------------
(* Selections and verdicts.                                                *)

\* One more element.
LEMMA AddOne ==
    ASSUME NEW S, IsFiniteSet(S), NEW x
    PROVE  IsFiniteSet(S \cup {x}) /\ Cardinality(S \cup {x}) <= Cardinality(S) + 1
<1>1. Cardinality(S) \in Nat
  BY FS_CardinalityType
<1>. QED  BY <1>1, FS_AddElement

\* What request_peers leaves behind.
LEMMA AskFacts ==
    ASSUME NEW sel \in SUBSET Selections, IsFiniteSet(sel), Cardinality(sel) <= MaxPending,
           NEW c \in Nat, NEW why \in {"Direct", "Indirect", "Announce"}, NEW p \in Nat,
           Ask(sel, c, why, p)
    PROVE  /\ selections' \subseteq Selections /\ IsFiniteSet(selections')
           /\ Cardinality(selections') <= MaxPending
           /\ \A s \in selections' : s \in sel \/ s = [id |-> c, why |-> why, probe |-> p]
           /\ corr' \in Nat /\ (corr' = c \/ corr' = c + 1)
<1> DEFINE s == [id |-> c, why |-> why, probe |-> p]
<1>1. s \in Selections
  BY DEF Selections
<1>2. Cardinality(sel) \in Nat
  BY FS_CardinalityType
<1>3. CASE Full(sel)
  BY <1>3 DEF Ask
<1>4. CASE ~Full(sel)
  <2>1. Cardinality(sel) < MaxPending
    BY <1>2, <1>4, ProbeLimitsAssumption DEF Full
  <2>2. selections' = sel \cup {s} /\ corr' = c + 1
    BY <1>4 DEF Ask
  <2> HIDE DEF s
  <2>3. IsFiniteSet(sel \cup {s}) /\ Cardinality(sel \cup {s}) <= Cardinality(sel) + 1
    BY AddOne
  <2>4. Cardinality(sel \cup {s}) \in Nat
    BY <2>3, FS_CardinalityType
  <2>5. Cardinality(selections') <= MaxPending
    BY <1>2, <2>1, <2>2, <2>3, <2>4, ProbeLimitsAssumption
  <2>. QED  BY <1>1, <2>2, <2>3, <2>5 DEF s
<1>. QED  BY <1>3, <1>4

\* Fewer selections are no worse.
LEMMA FewerSelections ==
    ASSUME Inv, NEW sel \in SUBSET selections
    PROVE  sel \subseteq Selections /\ IsFiniteSet(sel) /\ Cardinality(sel) <= MaxPending
<1>1. IsFiniteSet(selections) /\ selections \subseteq Selections /\ Cardinality(selections) <= MaxPending
  BY DEF Inv, TypeOK, Finite
<1>2. IsFiniteSet(sel) /\ Cardinality(sel) <= Cardinality(selections)
  BY <1>1, FS_Subset
<1>3. Cardinality(sel) \in Nat /\ Cardinality(selections) \in Nat
  BY <1>1, <1>2, FS_CardinalityType
<1>4. Cardinality(sel) <= MaxPending
  BY <1>1, <1>2, <1>3, ProbeLimitsAssumption
<1>. QED  BY <1>1, <1>2, <1>4

\* A verdict that stands is on a member still alive, at the incarnation probed.
LEMMA VerdictIsCurrent ==
    ASSUME Inv, NEW p \in probes, Condemns(p.target, p.inc)
    PROVE  rep.members[p.target].state = "Alive" /\ rep.members[p.target].inc = p.inc
<1>1. /\ TypeOK /\ Known
  BY DEF Inv
<1>2. p.target \in Nodes /\ p.inc \in Int /\ p.inc \in Incarnations
  BY <1>1, TypeFacts
<1>3. /\ IsMember(rep, p.target)
      /\ SwimSupersedes("Suspected", p.inc, rep.members[p.target].state, rep.members[p.target].inc)
  BY DEF Condemns, Adopts, Claimed, Effective
<1>4. p.inc <= rep.members[p.target].inc
  BY <1>1, <1>3 DEF Known
<1>5. rep.members[p.target].inc \in Int
  BY <1>1, <1>2, IncarnationsAreNumbers DEF TypeOK
<1>. QED  BY <1>2, <1>3, <1>4, <1>5 DEF SwimSupersedes

\* A probe ends with a verdict.
LEMMA RaiseStep ==
    ASSUME Inv, NEW p \in probes, probes' = probes \ {p},
           NEW sel \in SUBSET selections, RaiseSuspicion(p.target, p.inc, sel, armed \ {p.timer}),
           late' \subseteq late \cup {p.timer}
    PROVE  /\ Inv'
           /\ VerdictRespectsRefutation
           /\ \A u \in Nodes : rep'.members[u].state = "Dead" => rep.members[u].state = "Dead"
<1> DEFINE t == p.target
           i == p.inc
           tokens == armed \ {p.timer}
<1>1. TypeOK /\ Finite /\ NothingWaitsForever /\ Booked /\ Asked /\ Known
  BY DEF Inv
<1>2. /\ t \in Peers /\ t \in Nodes /\ i \in Incarnations /\ p.timer \in armed
      /\ rep \in Replicas /\ deadline \in [Nodes -> Nat \cup {NoTimer}]
      /\ corr \in Nat
  BY <1>1, TypeFacts DEF TypeOK, Known, NothingWaitsForever
<1>3. sel \subseteq Selections /\ IsFiniteSet(sel) /\ Cardinality(sel) <= MaxPending
  BY FewerSelections
<1>4. /\ \A q \in probes' : q.timer \in tokens
      /\ \A u \in Nodes : deadline[u] # NoTimer => deadline[u] \in tokens /\ rep.susp[u] # NoDeadline
      /\ \A q \in probes' : q \in probes
  BY <1>1 DEF NothingWaitsForever, Known
<1>5. late' \subseteq armed \cup late /\ tokens \subseteq armed /\ corr \notin armed
  BY <1>1, <1>2, TypeFacts DEF Booked
<1> HIDE DEF tokens, t, i
<1>6. CASE ~Condemns(t, i)
  <2>1. armed' = tokens /\ selections' = sel /\ rep' = rep /\ deadline' = deadline /\ corr' = corr
    BY <1>6 DEF RaiseSuspicion, t, i, tokens
  <2>2. View(rep, rep')
    BY <1>2, <2>1, SameView
  <2>3. corr' \in Nat /\ corr' >= corr
    BY <1>2, <2>1
  <2>4. Inv'
    BY <1>2, <1>3, <1>4, <1>5, <2>1, <2>2, <2>3, ProbesEnd
  <2>. QED  BY <2>1, <2>4 DEF VerdictRespectsRefutation
<1>7. CASE Condemns(t, i)
  <2>1. /\ rep' = Suspect(Self, rep, t, i) /\ deadline' = [deadline EXCEPT ![t] = corr]
        /\ armed' = tokens \cup {corr} /\ Ask(sel, corr + 1, "Announce", 0)
    BY <1>7 DEF RaiseSuspicion, t, i, tokens
  <2>2. /\ View(rep, rep') /\ rep'.members[t].state = "Suspected"
        /\ rep'.members[t].inc = i /\ rep'.susp[t] = i
        /\ \A u \in Nodes : u # t => rep'.members[u] = rep.members[u] /\ rep'.susp[u] = rep.susp[u]
    BY <1>2, <1>7, <2>1, SuspectView DEF Condemns
  <2>3. corr + 1 \in Nat /\ 0 \in Nat
    BY <1>2
  <2>4. /\ selections' \subseteq Selections /\ IsFiniteSet(selections')
        /\ Cardinality(selections') <= MaxPending
        /\ \A s \in selections' : s \in sel \/ s = [id |-> corr + 1, why |-> "Announce", probe |-> 0]
        /\ corr' \in Nat /\ (corr' = corr + 1 \/ corr' = corr + 1 + 1)
    BY <1>3, <2>1, <2>3, AskFacts
  <2>5. \A s \in selections' : s \in selections \/ s.why # "Indirect"
    BY <2>4
  <2>6. corr' >= corr /\ corr < corr'
    BY <1>2, <2>4
  <2>7. i # NoDeadline
    BY <1>2, MaxIncAssumption DEF Incarnations, NoDeadline
  <2>8. /\ deadline' \in [Nodes -> Nat \cup {NoTimer}]
        /\ deadline'[t] = corr /\ \A u \in Nodes : u # t => deadline'[u] = deadline[u]
    BY <1>2, <2>1
  <2>9. ASSUME NEW u \in Nodes, deadline'[u] # NoTimer
        PROVE  deadline'[u] \in armed' /\ rep'.susp[u] # NoDeadline
    BY <1>4, <2>1, <2>2, <2>7, <2>8, <2>9
  <2>10. Inv'
    BY <1>2, <1>4, <1>5, <2>1, <2>2, <2>4, <2>5, <2>6, <2>8, <2>9, ProbesEnd
  <2>11. rep.members[t].state = "Alive" /\ rep.members[t].inc = i /\ i \in Int
    BY <1>7, <1>1, VerdictIsCurrent, TypeFacts DEF t, i
  <2>12. VerdictRespectsRefutation
    <3>1. ASSUME NEW u \in Peers, deadline'[u] # deadline[u]
          PROVE  u = t
      BY <2>8, <3>1 DEF Peers
    <3>. QED  BY <2>2, <2>11, <3>1 DEF VerdictRespectsRefutation
  <2>13. ASSUME NEW u \in Nodes, rep'.members[u].state = "Dead" PROVE rep.members[u].state = "Dead"
    BY <2>2, <2>13
  <2>. QED  BY <2>10, <2>12, <2>13
<1>. QED  BY <1>6, <1>7

-----------------------------------------------------------------------------
(* Probes that start and probes that change.                               *)

\* A probe is launched: its ID and its timer are new.
LEMMA LaunchStep ==
    ASSUME Inv, NEW t \in Peers, IsMember(rep, t), NEW phase \in {"Direct", "Relay"}, Launch(t, phase),
           selections' \subseteq selections, UNCHANGED <<rep, deadline, late>>
    PROVE  Inv'
<1> DEFINE n == NewProbe(t, phase)
<1>1. TypeOK /\ Finite /\ NothingWaitsForever /\ Booked /\ Asked /\ Known
  BY DEF Inv
<1>2. t \in Nodes /\ corr \in Nat /\ rep \in Replicas
  BY <1>1 DEF TypeOK, Peers
<1>3. selections' \subseteq Selections /\ IsFiniteSet(selections') /\ Cardinality(selections') <= MaxPending
  BY FewerSelections
<1>4. CASE Cardinality(probes) >= MaxPending
  <2>1. probes' = probes /\ armed' = armed /\ corr' = corr
    BY <1>4 DEF Launch
  <2>2. View(rep, rep')
    BY <1>1, <1>2, SameView DEF Known
  <2>3. corr' \in Nat /\ corr' >= corr /\ corr \notin armed
    BY <1>1, <1>2, <2>1, TypeFacts DEF Booked
  <2>4. /\ deadline' \in [Nodes -> Nat \cup {NoTimer}]
        /\ \A u \in Nodes : deadline'[u] # NoTimer => deadline'[u] \in armed' /\ rep'.susp[u] # NoDeadline
        /\ \A p \in probes' : p.timer \in armed'
    BY <1>1, <2>1 DEF TypeOK, NothingWaitsForever, Known
  <2>. QED  BY <1>2, <1>3, <2>1, <2>2, <2>3, <2>4, ProbesEnd
<1>5. CASE ~(Cardinality(probes) >= MaxPending)
  <2>1. probes' = probes \cup {n} /\ armed' = armed \cup {corr + 1} /\ corr' = corr + 2
    BY <1>5 DEF Launch
  <2>2. /\ n \in Probes /\ n.id = corr /\ n.timer = corr + 1 /\ n.target = t
        /\ n.inc = rep.members[t].inc /\ n.helpers = {} /\ n.phase = phase
    <3>1. rep.members[t].inc \in Incarnations /\ corr + 1 \in Nat
      BY <1>2, IncarnationsAreNumbers
    <3>. QED  BY <1>2, <3>1 DEF NewProbe, Probes
  <2> HIDE DEF n
  <2>3. TypeOK' /\ Finite'
    <3>1. IsFiniteSet(probes) /\ Cardinality(probes) \in Nat
      BY <1>1, FS_CardinalityType DEF Finite
    <3>2. IsFiniteSet(probes \cup {n}) /\ Cardinality(probes \cup {n}) <= Cardinality(probes) + 1
      BY <3>1, AddOne
    <3>3. Cardinality(probes \cup {n}) \in Nat
      BY <3>2, FS_CardinalityType
    <3>4. Cardinality(probes') <= MaxPending
      BY <1>5, <2>1, <3>1, <3>2, <3>3, ProbeLimitsAssumption
    <3>5. probes' \subseteq Probes /\ armed' \subseteq Nat /\ corr' \in Nat
      BY <1>1, <1>2, <2>1, <2>2 DEF TypeOK
    <3>6. rep' \in Replicas /\ late' \subseteq Nat /\ deadline' \in [Nodes -> Nat \cup {NoTimer}]
      BY <1>1 DEF TypeOK
    <3>. QED  BY <1>3, <2>1, <3>2, <3>4, <3>5, <3>6 DEF TypeOK, Finite
  <2>4. Booked'
    <3>1. ASSUME NEW g \in armed' \cup late' PROVE g < corr'
      BY <1>1, <1>2, <2>1, TypeFacts DEF Booked
    <3>2. ASSUME NEW p \in probes' PROVE p.id < corr'
      BY <1>1, <1>2, <2>1, <2>2, TypeFacts DEF Booked
    <3>3. ASSUME NEW p \in probes', NEW q \in probes', p.id = q.id PROVE p = q
      BY <1>1, <1>2, <2>1, <2>2, <3>3, TypeFacts DEF Booked
    <3>4. ASSUME NEW s \in selections', s.why = "Indirect" PROVE s.probe < corr'
      BY <1>1, <1>2, <2>1, <3>4, TypeFacts DEF Booked
    <3>. QED  BY <3>1, <3>2, <3>3, <3>4 DEF Booked
  <2>5. NothingWaitsForever'
    <3>1. \A g \in armed : g < corr /\ g \in Nat
      BY <1>1, TypeFacts DEF Booked
    <3>2. \A p \in probes : p.timer \in armed /\ p.timer # corr + 1
      BY <1>1, <1>2, <3>1 DEF NothingWaitsForever
    <3>3. \A u \in Nodes : deadline'[u] # corr + 1
      <4>1. ASSUME NEW u \in Nodes, deadline[u] # NoTimer PROVE deadline[u] # corr + 1
        BY <1>1, <1>2, <3>1, <4>1 DEF NothingWaitsForever
      <4>. QED  BY <1>2, <4>1 DEF NoTimer
    <3>4. \A p \in probes' : p.timer \in armed'
      BY <2>1, <2>2, <3>2
    <3>5. \A u \in Nodes : deadline'[u] # NoTimer => deadline'[u] \in armed'
      BY <1>1, <2>1 DEF NothingWaitsForever
    <3>6. \A p, q \in probes' : p.timer = q.timer => p = q
      BY <1>1, <2>1, <2>2, <3>2 DEF NothingWaitsForever
    <3>7. \A p \in probes', u \in Nodes : p.timer # deadline'[u]
      BY <1>1, <2>1, <2>2, <3>3 DEF NothingWaitsForever
    <3>8. \A u, v \in Nodes : deadline'[u] = deadline'[v] /\ deadline'[u] # NoTimer => u = v
      BY <1>1 DEF NothingWaitsForever
    <3>. QED  BY <3>4, <3>5, <3>6, <3>7, <3>8 DEF NothingWaitsForever
  <2>6. Asked'
    <3>1. \A s \in selections' : s.why = "Indirect" => s.probe # n.id
      BY <1>1, <1>2, <2>2, TypeFacts DEF Booked
    <3>. QED  BY <1>1, <2>1, <2>2, <3>1 DEF Asked
  <2>7. Known'
    <3>1. rep.members[t].inc <= rep.members[t].inc
      BY <1>2, IncarnationsAreNumbers
    <3>. QED  BY <1>1, <2>1, <2>2, <3>1 DEF Known
  <2>. QED  BY <2>3, <2>4, <2>5, <2>6, <2>7 DEF Inv
<1>. QED  BY <1>4, <1>5

\* Probe p becomes q: the same probe in another phase, with its timer or a new
\* one, and no intermediaries while a selection of them is outstanding.
LEMMA ReplaceStep ==
    ASSUME Inv, NEW p \in probes, NEW q \in Probes, q.id = p.id, q.target = p.target, q.inc = p.inc,
           q.phase = "Indirect", q.timer = p.timer \/ q.timer = corr,
           probes' = (probes \ {p}) \cup {q}, UNCHANGED <<rep, deadline>>,
           selections' \subseteq Selections, IsFiniteSet(selections'),
           Cardinality(selections') <= MaxPending,
           \A s \in selections' : \/ s \in selections /\ (s.why = "Indirect" => s.probe # p.id)
                                  \/ s.probe = p.id /\ q.helpers = {},
           \A s, u \in selections' : s.probe = p.id /\ u.probe = p.id
                                     /\ s.why = "Indirect" /\ u.why = "Indirect" => s = u,
           corr' \in Nat, corr' >= corr, q.timer = corr => corr < corr',
           armed' \subseteq armed \cup {q.timer}, late' \subseteq armed \cup late,
           \A g \in armed : g # p.timer => g \in armed', q.timer \in armed'
    PROVE  Inv'
<1>1. TypeOK /\ Finite /\ NothingWaitsForever /\ Booked /\ Asked /\ Known
  BY DEF Inv
<1>2. corr \in Nat /\ p.timer \in armed
  BY <1>1 DEF TypeOK, NothingWaitsForever
<1>3. TypeOK' /\ Finite'
  <2>1. IsFiniteSet(probes) /\ Cardinality(probes) \in Nat
    BY <1>1, FS_CardinalityType DEF Finite
  <2>2. IsFiniteSet(probes \ {p}) /\ Cardinality(probes \ {p}) = Cardinality(probes) - 1
    BY <2>1, FS_RemoveElement
  <2>3. IsFiniteSet(probes') /\ Cardinality(probes') <= Cardinality(probes \ {p}) + 1
    <3>1. PICK P : P = probes \ {p}
      OBVIOUS
    <3>2. IsFiniteSet(P) /\ Cardinality(P) \in Nat
      BY <2>2, <3>1, FS_CardinalityType
    <3>3. IsFiniteSet(P \cup {q}) /\ Cardinality(P \cup {q}) <= Cardinality(P) + 1
      BY <3>2, AddOne
    <3>. QED  BY <3>1, <3>3
  <2>4. Cardinality(probes') \in Nat
    BY <2>3, FS_CardinalityType
  <2>5. Cardinality(probes') <= MaxPending
    BY <1>1, <2>1, <2>2, <2>3, <2>4, ProbeLimitsAssumption DEF TypeOK
  <2>6. probes' \subseteq Probes /\ armed' \subseteq Nat /\ late' \subseteq Nat
    BY <1>1, <1>2 DEF TypeOK
  <2>7. rep' \in Replicas /\ deadline' \in [Nodes -> Nat \cup {NoTimer}]
    BY <1>1 DEF TypeOK
  <2>. QED  BY <2>3, <2>5, <2>6, <2>7 DEF TypeOK, Finite
<1>4. \A x \in probes' : x = q \/ (x \in probes /\ x.id # p.id /\ x.timer # p.timer)
  BY <1>1 DEF Booked, NothingWaitsForever
<1>5. Booked'
  <2>1. ASSUME NEW g \in armed' \cup late' PROVE g < corr'
    <3>1. g \in armed \cup late \/ g = corr
      BY <1>2
    <3>. QED  BY <1>1, <1>2, <3>1, TypeFacts DEF Booked
  <2>2. ASSUME NEW x \in probes' PROVE x.id < corr'
    BY <1>1, <1>4, TypeFacts DEF Booked
  <2>3. ASSUME NEW x \in probes', NEW y \in probes', x.id = y.id PROVE x = y
    BY <1>1, <1>4, <2>3 DEF Booked
  <2>4. ASSUME NEW s \in selections', s.why = "Indirect" PROVE s.probe < corr'
    BY <1>1, <2>4, TypeFacts DEF Booked
  <2>. QED  BY <2>1, <2>2, <2>3, <2>4 DEF Booked
<1>6. NothingWaitsForever'
  <2>1. \A g \in armed : g < corr /\ g \in Nat /\ g # corr
    BY <1>1, TypeFacts DEF Booked
  <2>2. \A x \in probes' : x # q => x.timer \in armed /\ x.timer # corr
    BY <1>1, <1>4, <2>1 DEF NothingWaitsForever
  <2>3. \A u \in Nodes : deadline'[u] # corr /\ deadline'[u] # p.timer
    <3>1. ASSUME NEW u \in Nodes, deadline[u] # NoTimer PROVE deadline[u] # corr
      BY <1>1, <2>1, <3>1 DEF NothingWaitsForever
    <3>2. NoTimer # corr
      BY <1>2 DEF NoTimer
    <3>. QED  BY <1>1, <3>1, <3>2 DEF NothingWaitsForever
  <2>4. \A x \in probes' : x.timer \in armed'
    BY <1>4, <2>2
  <2>5. \A u \in Nodes : deadline'[u] # NoTimer => deadline'[u] \in armed'
    BY <1>1, <2>3 DEF NothingWaitsForever
  <2>6. \A x, y \in probes' : x.timer = y.timer => x = y
    BY <1>1, <1>4, <2>2 DEF NothingWaitsForever
  <2>7. \A x \in probes', u \in Nodes : x.timer # deadline'[u]
    BY <1>1, <1>4, <2>3 DEF NothingWaitsForever
  <2>8. \A u, v \in Nodes : deadline'[u] = deadline'[v] /\ deadline'[u] # NoTimer => u = v
    BY <1>1 DEF NothingWaitsForever
  <2>. QED  BY <2>4, <2>5, <2>6, <2>7, <2>8 DEF NothingWaitsForever
<1>7. Asked'
  <2>1. \A x \in probes' : x.phase = "Direct" => x.helpers = {}
    BY <1>1, <1>4 DEF Asked
  <2>2. ASSUME NEW s \in selections', NEW x \in probes', s.why = "Indirect", s.probe = x.id
        PROVE  x.phase = "Indirect" /\ x.helpers = {}
    BY <1>1, <1>4, <2>2 DEF Asked
  <2>3. ASSUME NEW s \in selections', NEW u \in selections', s.why = "Indirect", u.why = "Indirect",
               s.probe = u.probe
        PROVE  s = u
    BY <1>1, <2>3 DEF Asked
  <2>. QED  BY <2>1, <2>2, <2>3 DEF Asked
<1>8. Known'
  BY <1>1, <1>4 DEF Known
<1>. QED  BY <1>3, <1>5, <1>6, <1>7, <1>8 DEF Inv

-----------------------------------------------------------------------------
(* One lemma per action.                                                   *)

\* VerdictsRestOnEvidence, of one step.
Evidence == DeathOnlyOnItsOwnDeadline /\ VerdictNeedsAllHelpers /\ VerdictRespectsRefutation

\* A step that suspects and kills nobody and sets no suspicion timer.
LEMMA QuietEvidence ==
    ASSUME TypeOK,
           \A u \in Nodes : \/ rep'.members[u].state = rep.members[u].state
                            \/ rep'.members[u].state = "Alive",
           \A u \in Nodes : deadline'[u] = deadline[u] \/ deadline'[u] = NoTimer
    PROVE  Evidence
<1>1. \A u \in Peers : u \in Nodes
  BY DEF Peers
<1>2. \A p \in probes : p.target \in Nodes
  BY TypeFacts
<1>3. DeathOnlyOnItsOwnDeadline
  BY <1>1 DEF DeathOnlyOnItsOwnDeadline
<1>4. VerdictNeedsAllHelpers
  BY <1>2 DEF VerdictNeedsAllHelpers
<1>5. VerdictRespectsRefutation
  BY <1>1 DEF VerdictRespectsRefutation
<1>. QED  BY <1>3, <1>4, <1>5 DEF Evidence

\* A step that leaves the timers of suspicions alone, or settles some.
LEMMA InvFacts ==
    ASSUME Inv
    PROVE  /\ TypeOK /\ rep \in Replicas /\ corr \in Nat /\ corr \notin armed
           /\ deadline \in [Nodes -> Nat \cup {NoTimer}]
           /\ \A t \in Nodes : deadline[t] # NoTimer => deadline[t] \in armed /\ rep.susp[t] # NoDeadline
           /\ \A p \in probes : p.timer \in armed
<1>1. TypeOK /\ NothingWaitsForever /\ Booked /\ Known
  BY DEF Inv
<1>2. corr \notin armed
  BY <1>1, TypeFacts DEF Booked
<1>. QED  BY <1>1, <1>2 DEF TypeOK, NothingWaitsForever, Known

LEMMA SettledFacts ==
    ASSUME Inv, deadline' = Settled(rep')
    PROVE  /\ deadline' \in [Nodes -> Nat \cup {NoTimer}]
           /\ \A t \in Nodes : deadline'[t] = deadline[t] \/ deadline'[t] = NoTimer
           /\ \A t \in Nodes : deadline'[t] # NoTimer =>
                 deadline'[t] = deadline[t] /\ deadline'[t] \in armed /\ rep'.susp[t] # NoDeadline
<1>1. \A t \in Nodes : deadline'[t] = IF rep'.susp[t] = NoDeadline THEN NoTimer ELSE deadline[t]
  BY DEF Settled
<1>2. deadline' \in [Nodes -> Nat \cup {NoTimer}]
  BY InvFacts DEF Settled
<1>. QED  BY <1>1, <1>2, InvFacts

\* Only the selections and the counter move, and no intermediaries are asked for.
LEMMA SelectionStep ==
    ASSUME Inv, UNCHANGED <<rep, probes, deadline, armed, late>>,
           selections' \subseteq Selections, IsFiniteSet(selections'),
           Cardinality(selections') <= MaxPending,
           \A s \in selections' : s \in selections \/ s.why # "Indirect",
           corr' \in Nat, corr' >= corr
    PROVE  Inv' /\ Evidence
<1>1. View(rep, rep')
  BY InvFacts, SameView
<1>2. /\ deadline' \in [Nodes -> Nat \cup {NoTimer}]
      /\ \A t \in Nodes : deadline'[t] = deadline[t]
      /\ \A t \in Nodes : deadline'[t] # NoTimer => deadline'[t] \in armed' /\ rep'.susp[t] # NoDeadline
      /\ \A p \in probes' : p.timer \in armed'
      /\ corr \notin armed'
  BY InvFacts
<1>3. Inv'
  BY <1>1, <1>2, SelfAssumption, ProbesEnd
<1>4. Evidence
  BY InvFacts, QuietEvidence
<1>. QED  BY <1>3, <1>4

LEMMA StartProbeRoundStep ==
    ASSUME Inv, StartProbeRound
    PROVE  Inv' /\ Evidence
<1>1. /\ Ask(selections, corr, "Direct", 0) /\ UNCHANGED <<rep, probes, deadline, armed, late>>
      /\ corr \in Nat /\ 0 \in Nat
  BY InvFacts DEF StartProbeRound
<1>2. selections \subseteq Selections /\ IsFiniteSet(selections) /\ Cardinality(selections) <= MaxPending
  BY FewerSelections
<1>3. /\ selections' \subseteq Selections /\ IsFiniteSet(selections')
      /\ Cardinality(selections') <= MaxPending
      /\ \A s \in selections' : s \in selections \/ s = [id |-> corr, why |-> "Direct", probe |-> 0]
      /\ corr' \in Nat /\ (corr' = corr \/ corr' = corr + 1)
  BY <1>1, <1>2, AskFacts
<1>4. corr' >= corr /\ \A s \in selections' : s \in selections \/ s.why # "Indirect"
  BY <1>1, <1>3
<1>. QED  BY <1>1, <1>3, <1>4, SelectionStep

LEMMA SelectionSpentStep ==
    ASSUME Inv, NEW s \in selections, SelectionSpent(s)
    PROVE  Inv' /\ Evidence
<1>1. /\ selections' = selections \ {s} /\ UNCHANGED <<rep, probes, deadline, armed, late, corr>>
  BY DEF SelectionSpent
<1>2. /\ selections' \subseteq Selections /\ IsFiniteSet(selections')
      /\ Cardinality(selections') <= MaxPending
  BY <1>1, FewerSelections
<1>3. corr' \in Nat /\ corr' >= corr
  BY <1>1, InvFacts
<1>. QED  BY <1>1, <1>2, <1>3, SelectionStep

LEMMA LaunchedStep ==
    ASSUME Inv, NEW t \in Peers, (\E s \in selections : ProbeSelected(s, t)) \/ RelayRequested(t)
    PROVE  Inv' /\ Evidence
<1>1. /\ IsMember(rep, t) /\ (Launch(t, "Direct") \/ Launch(t, "Relay"))
      /\ selections' \subseteq selections /\ UNCHANGED <<rep, deadline, late>>
  BY DEF ProbeSelected, RelayRequested
<1>2. Inv'
  BY <1>1, LaunchStep
<1>3. Evidence
  BY <1>1, InvFacts, QuietEvidence
<1>. QED  BY <1>2, <1>3

\* The target is known to be alive: the probe ends.
LEMMA AnsweredStep ==
    ASSUME Inv, NEW p \in probes, NEW i \in Incarnations,
           Ack(p, i) \/ \E h \in p.helpers : HelperReached(p, h, i)
    PROVE  Inv' /\ Evidence
<1>1. /\ probes' = probes \ {p} /\ armed' = armed \ {p.timer} /\ late' = late \cup {p.timer}
      /\ rep' = ApplyAnnouncement(Self, rep, p.target, "Alive", p.target, i)
      /\ deadline' = Settled(rep') /\ selections' = selections /\ corr' = corr
  BY DEF Ack, HelperReached, Finish, SeenAlive
<1>2. p.target \in Peers /\ NothingWaitsForever /\ p.timer \in armed
  BY InvFacts, TypeFacts DEF Inv
<1>3. /\ View(rep, rep')
      /\ \A u \in Nodes : rep'.members[u].state = rep.members[u].state \/ rep'.members[u].state = "Alive"
  BY <1>1, <1>2, InvFacts, AliveView
<1>4. /\ deadline' \in [Nodes -> Nat \cup {NoTimer}]
      /\ \A t \in Nodes : deadline'[t] = deadline[t] \/ deadline'[t] = NoTimer
      /\ \A t \in Nodes : deadline'[t] # NoTimer =>
            deadline'[t] = deadline[t] /\ deadline'[t] \in armed /\ rep'.susp[t] # NoDeadline
  BY <1>1, SettledFacts
<1>5. \A t \in Nodes : deadline'[t] # NoTimer => deadline'[t] \in armed' /\ rep'.susp[t] # NoDeadline
  BY <1>1, <1>2, <1>4 DEF NothingWaitsForever
<1>6. \A q \in probes' : q.timer \in armed'
  BY <1>1, <1>2 DEF NothingWaitsForever
<1>7. selections' \subseteq Selections /\ IsFiniteSet(selections') /\ Cardinality(selections') <= MaxPending
  BY <1>1, FewerSelections
<1>8. corr' \in Nat /\ corr' >= corr /\ corr \notin armed'
  BY <1>1, InvFacts
<1>9. Inv'
  BY <1>1, <1>2, <1>3, <1>4, <1>5, <1>6, <1>7, <1>8, SelfAssumption, ProbesEnd
<1>10. Evidence
  BY <1>3, <1>4, InvFacts, QuietEvidence
<1>. QED  BY <1>9, <1>10

LEMMA StaleTimerStep ==
    ASSUME Inv, NEW g \in armed \cup late, StaleTimer(g)
    PROVE  Inv' /\ Evidence
<1>1. /\ armed' = armed \ {g} /\ late' = late \ {g}
      /\ UNCHANGED <<rep, probes, selections, deadline, corr>>
      /\ \A p \in probes : p.timer # g
      /\ \A t \in Nodes : deadline[t] # g
  BY DEF StaleTimer
<1>2. View(rep, rep')
  BY <1>1, InvFacts, SameView
<1>3. /\ deadline' \in [Nodes -> Nat \cup {NoTimer}]
      /\ \A t \in Nodes : deadline'[t] # NoTimer => deadline'[t] \in armed' /\ rep'.susp[t] # NoDeadline
      /\ \A p \in probes' : p.timer \in armed'
      /\ corr' \in Nat /\ corr' >= corr /\ corr \notin armed'
  BY <1>1, InvFacts
<1>4. selections' \subseteq Selections /\ IsFiniteSet(selections') /\ Cardinality(selections') <= MaxPending
  BY <1>1, FewerSelections
<1>5. Inv'
  BY <1>1, <1>2, <1>3, <1>4, SelfAssumption, ProbesEnd
<1>6. Evidence
  BY <1>1, InvFacts, QuietEvidence
<1>. QED  BY <1>5, <1>6

\* A verdict is backed by the probe that ends: at most one intermediary of it
\* had not reported before, or its own timer fired.
LEMMA VerdictEvidence ==
    ASSUME Inv, NEW p \in probes, probes' = probes \ {p},
           NEW sel \in SUBSET selections, RaiseSuspicion(p.target, p.inc, sel, armed \ {p.timer}),
           late' \subseteq late \cup {p.timer},
           Cardinality(p.helpers \ p.answered) <= 1 \/ p.timer \notin late'
    PROVE  Inv' /\ Evidence
<1>1. /\ Inv' /\ VerdictRespectsRefutation
      /\ \A u \in Nodes : rep'.members[u].state = "Dead" => rep.members[u].state = "Dead"
  BY RaiseStep
<1>2. \A u \in Peers : u \in Nodes
  BY DEF Peers
<1>3. DeathOnlyOnItsOwnDeadline
  BY <1>1, <1>2 DEF DeathOnlyOnItsOwnDeadline
<1>4. VerdictNeedsAllHelpers
  BY DEF VerdictNeedsAllHelpers
<1>. QED  BY <1>1, <1>3, <1>4 DEF Evidence

LEMMA HelpersSelectedStep ==
    ASSUME Inv, NEW s \in selections, NEW p \in probes, NEW H \in SUBSET Peers,
           HelpersSelected(s, p, H)
    PROVE  Inv' /\ Evidence
<1>1. s.why = "Indirect" /\ p.id = s.probe
  BY DEF HelpersSelected
<1>2. TypeOK /\ Asked /\ NothingWaitsForever
  BY DEF Inv
<1>3. p.helpers = {} /\ p \in Probes
  BY <1>1, <1>2 DEF Asked, TypeOK
<1>4. CASE H = {}
  <2>1. /\ probes' = probes \ {p} /\ late' = late \cup {p.timer}
        /\ RaiseSuspicion(p.target, p.inc, selections \ {s}, armed \ {p.timer})
    BY <1>4 DEF HelpersSelected
  <2>2. p.helpers \ p.answered = {} /\ Cardinality({}) = 0
    BY <1>3, FS_EmptySet
  <2>3. Cardinality(p.helpers \ p.answered) <= 1
    BY <2>2
  <2>4. selections \ {s} \in SUBSET selections /\ late' \subseteq late \cup {p.timer}
    BY <2>1
  <2>. QED  BY <2>1, <2>3, <2>4, VerdictEvidence
<1>5. CASE H # {}
  <2> DEFINE q == [p EXCEPT !.phase = "Indirect", !.helpers = H, !.answered = {}]
  <2>1. /\ probes' = (probes \ {p}) \cup {q} /\ selections' = selections \ {s}
        /\ UNCHANGED <<rep, deadline, armed, late, corr>>
    BY <1>5 DEF HelpersSelected
  <2>2. /\ q \in Probes /\ q.id = p.id /\ q.target = p.target /\ q.inc = p.inc
        /\ q.phase = "Indirect" /\ q.timer = p.timer
    BY <1>3 DEF Probes
  <2> HIDE DEF q
  <2>3. \A u \in selections' : u \in selections /\ (u.why = "Indirect" => u.probe # p.id)
    BY <1>1, <1>2, <2>1 DEF Asked
  <2>4. selections' \subseteq Selections /\ IsFiniteSet(selections') /\ Cardinality(selections') <= MaxPending
    BY <2>1, FewerSelections
  <2>5. corr' \in Nat /\ corr' >= corr /\ corr \notin armed /\ p.timer \in armed
    BY <2>1, InvFacts
  <2>6. /\ q.timer = corr => corr < corr'
        /\ armed' \subseteq armed \cup {q.timer} /\ late' \subseteq armed \cup late
        /\ \A g \in armed : g \in armed'
        /\ q.timer \in armed'
    BY <2>1, <2>2, <2>5
  <2>7. Inv'
    BY <2>1, <2>2, <2>3, <2>4, <2>5, <2>6, ReplaceStep
  <2>8. Evidence
    BY <1>2, <2>1, QuietEvidence
  <2>. QED  BY <2>7, <2>8
<1>. QED  BY <1>4, <1>5

LEMMA HelperFailedStep ==
    ASSUME Inv, NEW p \in probes, NEW h \in p.helpers, HelperFailed(p, h)
    PROVE  Inv' /\ Evidence
<1>1. p.phase = "Indirect"
  BY DEF HelperFailed
<1>2. TypeOK /\ Asked /\ NothingWaitsForever
  BY DEF Inv
<1>3. p \in Probes
  BY <1>2 DEF TypeOK
<1>4. CASE Exhausted(p, h)
  <2>1. /\ probes' = probes \ {p} /\ late' = late \cup {p.timer}
        /\ RaiseSuspicion(p.target, p.inc, selections, armed \ {p.timer})
    BY <1>4 DEF HelperFailed
  <2>2. p.helpers \ p.answered = {} \/ p.helpers \ p.answered = {h}
    BY <1>4 DEF Exhausted
  <2>3. Cardinality({}) = 0 /\ Cardinality({h}) = 1
    BY FS_EmptySet, FS_Singleton
  <2>4. Cardinality(p.helpers \ p.answered) <= 1
    BY <2>2, <2>3
  <2>5. selections \in SUBSET selections /\ late' \subseteq late \cup {p.timer}
    BY <2>1
  <2>. QED  BY <2>1, <2>4, <2>5, VerdictEvidence
<1>5. CASE ~Exhausted(p, h)
  <2> DEFINE q == [p EXCEPT !.answered = p.answered \cup {h}]
  <2>1. /\ probes' = (probes \ {p}) \cup {q}
        /\ UNCHANGED <<rep, selections, deadline, armed, late, corr>>
    BY <1>5 DEF HelperFailed
  <2>2. p.answered \cup {h} \in SUBSET Peers
    BY <1>3 DEF Probes
  <2>3. /\ q \in Probes /\ q.id = p.id /\ q.target = p.target /\ q.inc = p.inc
        /\ q.phase = "Indirect" /\ q.timer = p.timer
    BY <1>1, <1>3, <2>2 DEF Probes
  <2> HIDE DEF q
  <2>4. \A u \in selections' : u \in selections /\ (u.why = "Indirect" => u.probe # p.id)
    BY <1>2, <2>1 DEF Asked
  <2>5. selections' \subseteq Selections /\ IsFiniteSet(selections') /\ Cardinality(selections') <= MaxPending
    BY <2>1, FewerSelections
  <2>6. corr' \in Nat /\ corr' >= corr /\ corr \notin armed /\ p.timer \in armed
    BY <2>1, InvFacts
  <2>7. /\ q.timer = corr => corr < corr'
        /\ armed' \subseteq armed \cup {q.timer} /\ late' \subseteq armed \cup late
        /\ \A g \in armed : g \in armed'
        /\ q.timer \in armed'
    BY <2>1, <2>3, <2>6
  <2>8. Inv'
    BY <2>1, <2>3, <2>4, <2>5, <2>6, <2>7, ReplaceStep
  <2>9. Evidence
    BY <1>2, <2>1, QuietEvidence
  <2>. QED  BY <2>8, <2>9
<1>. QED  BY <1>4, <1>5

LEMMA ProbeTimerStep ==
    ASSUME Inv, NEW g \in armed \cup late, NEW p \in probes, ProbeTimer(g, p)
    PROVE  Inv' /\ Evidence
<1>1. p.timer = g /\ late' = late \ {g}
  BY DEF ProbeTimer
<1>2. TypeOK /\ Asked /\ NothingWaitsForever
  BY DEF Inv
<1>3. p \in Probes /\ g \in armed /\ corr \in Nat /\ corr \notin armed
  BY <1>1, <1>2, InvFacts DEF TypeOK
<1>4. CASE p.phase = "Direct"
  <2> DEFINE q == [p EXCEPT !.phase = "Indirect", !.timer = corr]
             n == [id |-> corr + 1, why |-> "Indirect", probe |-> p.id]
  <2>1. /\ probes' = (probes \ {p}) \cup {q} /\ armed' = (armed \ {g}) \cup {corr}
        /\ Ask(selections, corr + 1, "Indirect", p.id) /\ UNCHANGED <<rep, deadline>>
    BY <1>4 DEF ProbeTimer, Escalated
  <2>2. /\ q \in Probes /\ q.id = p.id /\ q.target = p.target /\ q.inc = p.inc
        /\ q.phase = "Indirect" /\ q.timer = corr /\ q.helpers = p.helpers
    BY <1>3 DEF Probes
  <2>3. q.helpers = {}
    BY <1>2, <1>4, <2>2 DEF Asked
  <2> HIDE DEF q
  <2>4. selections \subseteq Selections /\ IsFiniteSet(selections) /\ Cardinality(selections) <= MaxPending
    BY FewerSelections
  <2>5. corr + 1 \in Nat /\ p.id \in Nat
    BY <1>2, <1>3, TypeFacts
  <2>6. /\ selections' \subseteq Selections /\ IsFiniteSet(selections')
        /\ Cardinality(selections') <= MaxPending
        /\ \A s \in selections' : s \in selections \/ s = n
        /\ corr' \in Nat /\ (corr' = corr + 1 \/ corr' = corr + 1 + 1)
    BY <2>1, <2>4, <2>5, AskFacts
  <2>7. n.probe = p.id
    OBVIOUS
  <2> HIDE DEF n
  <2>8. \A s \in selections : s.why = "Indirect" => s.probe # p.id
    BY <1>2, <1>4 DEF Asked
  <2>9. \A s \in selections' : \/ s \in selections /\ (s.why = "Indirect" => s.probe # p.id)
                               \/ s.probe = p.id /\ q.helpers = {}
    BY <2>3, <2>6, <2>7, <2>8
  <2>10. \A s, u \in selections' : s.probe = p.id /\ u.probe = p.id
                                   /\ s.why = "Indirect" /\ u.why = "Indirect" => s = u
    BY <2>6, <2>8
  <2>11. corr' >= corr /\ corr < corr'
    BY <1>3, <2>6
  <2>12. /\ armed' \subseteq armed \cup {q.timer} /\ late' \subseteq armed \cup late
         /\ \A a \in armed : a # p.timer => a \in armed'
         /\ q.timer \in armed'
    BY <1>1, <2>1, <2>2
  <2>13. Inv'
    BY <2>1, <2>2, <2>6, <2>9, <2>10, <2>11, <2>12, ReplaceStep
  <2>14. Evidence
    BY <1>2, <2>1, QuietEvidence
  <2>. QED  BY <2>13, <2>14
<1>5. CASE p.phase = "Indirect"
  <2>1. probes' = probes \ {p} /\ RaiseSuspicion(p.target, p.inc, selections, armed \ {p.timer})
    BY <1>1, <1>5 DEF ProbeTimer
  <2>2. selections \in SUBSET selections /\ late' \subseteq late \cup {p.timer} /\ p.timer \notin late'
    BY <1>1
  <2>. QED  BY <2>1, <2>2, VerdictEvidence
<1>6. CASE p.phase = "Relay"
  <2>1. /\ probes' = probes \ {p} /\ armed' = armed \ {g}
        /\ UNCHANGED <<rep, selections, deadline, corr>>
    BY <1>6 DEF ProbeTimer
  <2>2. View(rep, rep')
    BY <2>1, InvFacts, SameView
  <2>3. /\ deadline' \in [Nodes -> Nat \cup {NoTimer}]
        /\ corr' \in Nat /\ corr' >= corr /\ corr \notin armed'
    BY <2>1, InvFacts
  <2>4. \A t \in Nodes : deadline'[t] # NoTimer => deadline'[t] \in armed' /\ rep'.susp[t] # NoDeadline
    BY <1>1, <1>2, <2>1, InvFacts DEF NothingWaitsForever
  <2>5. \A q \in probes' : q.timer \in armed'
    BY <1>1, <1>2, <2>1 DEF NothingWaitsForever
  <2>6. selections' \subseteq Selections /\ IsFiniteSet(selections') /\ Cardinality(selections') <= MaxPending
    BY <2>1, FewerSelections
  <2>7. Inv'
    BY <1>1, <2>1, <2>2, <2>3, <2>4, <2>5, <2>6, SelfAssumption, ProbesEnd
  <2>8. Evidence
    BY <1>2, <2>1, QuietEvidence
  <2>. QED  BY <2>7, <2>8
<1>. QED  BY <1>3, <1>4, <1>5, <1>6 DEF Probes

\* A suspicion's own timer fires.
LEMMA SuspicionTimerStep ==
    ASSUME Inv, NEW g \in armed \cup late, NEW t \in Peers, SuspicionTimer(g, t)
    PROVE  Inv' /\ Evidence
<1>1. /\ deadline[t] = g /\ armed' = armed \ {g} /\ late' = late \ {g}
      /\ rep' = ExpireSuspicion(Self, rep, t) /\ deadline' = [deadline EXCEPT ![t] = NoTimer]
      /\ \/ Ask(selections, corr, "Announce", 0)
         \/ selections' = selections /\ corr' = corr
      /\ probes' = probes
  BY DEF SuspicionTimer, Owns
<1>2. TypeOK /\ NothingWaitsForever /\ t \in Nodes
  BY DEF Inv, Peers
<1>3. g # NoTimer /\ g \in armed /\ rep.susp[t] # NoDeadline
  <2>1. g \in Nat
    BY <1>2, TypeFacts
  <2>2. g # NoTimer
    BY <2>1 DEF NoTimer
  <2>. QED  BY <1>1, <1>2, <2>2, InvFacts
<1>4. /\ View(rep, rep')
      /\ \A u \in Nodes : u # t => rep'.members[u] = rep.members[u] /\ rep'.susp[u] = rep.susp[u]
  BY <1>1, <1>3, InvFacts, ExpireView
<1>5. /\ deadline' \in [Nodes -> Nat \cup {NoTimer}] /\ deadline'[t] = NoTimer
      /\ \A u \in Nodes : u # t => deadline'[u] = deadline[u]
  BY <1>1, <1>2, InvFacts
<1>6. /\ selections' \subseteq Selections /\ IsFiniteSet(selections')
      /\ Cardinality(selections') <= MaxPending
      /\ \A s \in selections' : s \in selections \/ s.why # "Indirect"
      /\ corr' \in Nat /\ corr' >= corr
  <2>1. selections \subseteq Selections /\ IsFiniteSet(selections) /\ Cardinality(selections) <= MaxPending
    BY FewerSelections
  <2>2. corr \in Nat /\ 0 \in Nat
    BY InvFacts
  <2>3. CASE Ask(selections, corr, "Announce", 0)
    <3>1. /\ selections' \subseteq Selections /\ IsFiniteSet(selections')
          /\ Cardinality(selections') <= MaxPending
          /\ \A s \in selections' : s \in selections \/ s = [id |-> corr, why |-> "Announce", probe |-> 0]
          /\ corr' \in Nat /\ (corr' = corr \/ corr' = corr + 1)
      BY <2>1, <2>2, <2>3, AskFacts
    <3>. QED  BY <2>2, <3>1
  <2>. QED  BY <1>1, <2>1, <2>2, <2>3
<1>7. \A u \in Nodes : deadline'[u] # NoTimer => deadline'[u] \in armed' /\ rep'.susp[u] # NoDeadline
  BY <1>1, <1>2, <1>4, <1>5, InvFacts DEF NothingWaitsForever
<1>8. \A p \in probes' : p.timer \in armed'
  BY <1>1, <1>2 DEF NothingWaitsForever
<1>9. \A u \in Nodes : deadline'[u] = NoTimer \/ deadline'[u] = deadline[u]
  BY <1>5
<1>10. corr \notin armed' /\ armed' \subseteq armed \cup {corr} /\ late' \subseteq armed \cup late
  BY <1>1, InvFacts
<1>11. Inv'
  BY <1>1, <1>2, <1>4, <1>5, <1>6, <1>7, <1>8, <1>9, <1>10, ProbesEnd
<1>12. Evidence
  <2>1. DeathOnlyOnItsOwnDeadline
    BY <1>1, <1>3, <1>4 DEF DeathOnlyOnItsOwnDeadline, Peers
  <2>2. VerdictNeedsAllHelpers
    BY <1>1 DEF VerdictNeedsAllHelpers
  <2>3. VerdictRespectsRefutation
    BY <1>9 DEF VerdictRespectsRefutation, Peers
  <2>. QED  BY <2>1, <2>2, <2>3 DEF Evidence
<1>. QED  BY <1>11, <1>12

\* Gossip moves the view and settles suspicions.
LEMMA GossipStep ==
    ASSUME Inv, NEW t \in Subjects, NEW m \in Rumours, Gossip(t, m)
    PROVE  Inv' /\ Evidence
<1>1. deadline' = Settled(rep') /\ UNCHANGED <<probes, selections, armed, late, corr>>
  BY DEF Gossip
<1>2. t \in Peers /\ t \in Nodes /\ Initial(Self) \in Versions
  BY ProbeBoundsAssumption, SelfAssumption, MaxCounterAssumption DEF Peers, Initial, Versions
<1>3. View(rep, rep')
  <2>1. m \in Members /\ m.state # "Absent"
    BY <1>2 DEF Rumours, Members
  <2>. QED  BY <1>2, <2>1, InvFacts, MergeMemberView DEF Gossip
<1>4. /\ deadline' \in [Nodes -> Nat \cup {NoTimer}]
      /\ \A u \in Nodes : deadline'[u] = deadline[u] \/ deadline'[u] = NoTimer
      /\ \A u \in Nodes : deadline'[u] # NoTimer => deadline'[u] \in armed' /\ rep'.susp[u] # NoDeadline
  BY <1>1, SettledFacts
<1>5. /\ \A p \in probes' : p.timer \in armed'
      /\ corr' \in Nat /\ corr' >= corr /\ corr \notin armed'
  BY <1>1, InvFacts
<1>6. selections' \subseteq Selections /\ IsFiniteSet(selections') /\ Cardinality(selections') <= MaxPending
  BY <1>1, FewerSelections
<1>7. Inv'
  BY <1>1, <1>2, <1>3, <1>4, <1>5, <1>6, ProbesEnd
<1>8. Evidence
  <2>1. DeathOnlyOnItsOwnDeadline
    BY <1>1 DEF DeathOnlyOnItsOwnDeadline
  <2>2. VerdictNeedsAllHelpers
    BY <1>1 DEF VerdictNeedsAllHelpers
  <2>3. VerdictRespectsRefutation
    BY <1>4 DEF VerdictRespectsRefutation, Peers
  <2>. QED  BY <2>1, <2>2, <2>3 DEF Evidence
<1>. QED  BY <1>7, <1>8

\* A removal takes the probes of its member along; the other targets stay.
LEMMA RemovalStep ==
    ASSUME Inv, NEW t \in Subjects, NEW b \in Notices, Removal(t, b)
    PROVE  Inv' /\ Evidence
<1>1. /\ deadline' = Settled(rep') /\ UNCHANGED <<selections, armed, late, corr>>
      /\ probes' = {p \in probes : p.target # t}
      /\ rep' = MergeTombstone(rep, t, b) /\ rep' # rep
  BY DEF Removal
<1>2. t \in Peers /\ t \in Nodes /\ b \in Tombstones
  <2>1. Initial(Self) \in Versions
    BY SelfAssumption, MaxCounterAssumption DEF Initial, Versions
  <2>2. b \in Tombstones
    BY <2>1, ProbeBoundsAssumption DEF Notices, Tombstones
  <2>. QED  BY <2>2, ProbeBoundsAssumption DEF Peers
<1>3. /\ rep' \in Replicas /\ rep'.members[t].state = "Absent"
      /\ \A u \in Nodes : u # t => rep'.members[u] = rep.members[u]
  BY <1>1, <1>2, InvFacts, MergeTombstoneView
<1>4. ASSUME NEW p \in probes' PROVE Stays(rep, rep', p.target)
  <2>1. p \in probes /\ p.target # t
    BY <1>1
  <2>2. p.target \in Nodes /\ IsMember(rep, p.target)
    BY <2>1, TypeFacts DEF Inv, Known
  <2>3. rep.members[p.target].inc \in Int
    BY <2>2, InvFacts, IncarnationsAreNumbers
  <2>. QED  BY <1>3, <2>1, <2>2, <2>3 DEF Stays, IsMember
<1>5. /\ deadline' \in [Nodes -> Nat \cup {NoTimer}]
      /\ \A u \in Nodes : deadline'[u] = deadline[u] \/ deadline'[u] = NoTimer
      /\ \A u \in Nodes : deadline'[u] # NoTimer => deadline'[u] \in armed' /\ rep'.susp[u] # NoDeadline
  BY <1>1, SettledFacts
<1>6. /\ \A p \in probes' : p.timer \in armed'
      /\ corr' \in Nat /\ corr' >= corr /\ corr \notin armed'
  BY <1>1, InvFacts
<1>7. selections' \subseteq Selections /\ IsFiniteSet(selections') /\ Cardinality(selections') <= MaxPending
  BY <1>1, FewerSelections
<1>8. Inv'
  BY <1>1, <1>2, <1>3, <1>4, <1>5, <1>6, <1>7, TargetsStay
<1>9. Evidence
  <2>1. DeathOnlyOnItsOwnDeadline
    BY <1>1 DEF DeathOnlyOnItsOwnDeadline
  <2>2. VerdictNeedsAllHelpers
    BY <1>1, <1>3 DEF VerdictNeedsAllHelpers
  <2>3. VerdictRespectsRefutation
    BY <1>5 DEF VerdictRespectsRefutation, Peers
  <2>. QED  BY <2>1, <2>2, <2>3 DEF Evidence
<1>. QED  BY <1>8, <1>9

LEMMA ChallengedStep ==
    ASSUME Inv, NEW i \in Incarnations, Challenged(i)
    PROVE  Inv' /\ Evidence
<1>1. /\ rep' = Challenge(Self, rep, "Suspected", i) /\ Ask(selections, corr, "Announce", 0)
      /\ UNCHANGED <<probes, deadline, armed, late>>
  BY DEF Challenged
<1>2. /\ View(rep, rep') /\ rep'.susp = rep.susp
      /\ \A u \in Peers : rep'.members[u] = rep.members[u]
  BY <1>1, InvFacts, ChallengeView
<1>3. /\ deadline' \in [Nodes -> Nat \cup {NoTimer}]
      /\ \A u \in Nodes : deadline'[u] # NoTimer => deadline'[u] \in armed' /\ rep'.susp[u] # NoDeadline
      /\ \A p \in probes' : p.timer \in armed'
      /\ corr \notin armed'
  BY <1>1, <1>2, InvFacts
<1>4. /\ selections' \subseteq Selections /\ IsFiniteSet(selections')
      /\ Cardinality(selections') <= MaxPending
      /\ \A s \in selections' : s \in selections \/ s.why # "Indirect"
      /\ corr' \in Nat /\ corr' >= corr
  <2>1. selections \subseteq Selections /\ IsFiniteSet(selections) /\ Cardinality(selections) <= MaxPending
    BY FewerSelections
  <2>2. corr \in Nat /\ 0 \in Nat
    BY InvFacts
  <2>3. /\ selections' \subseteq Selections /\ IsFiniteSet(selections')
        /\ Cardinality(selections') <= MaxPending
        /\ \A s \in selections' : s \in selections \/ s = [id |-> corr, why |-> "Announce", probe |-> 0]
        /\ corr' \in Nat /\ (corr' = corr \/ corr' = corr + 1)
    BY <1>1, <2>1, <2>2, AskFacts
  <2>. QED  BY <2>2, <2>3
<1>5. Inv'
  BY <1>1, <1>2, <1>3, <1>4, SelfAssumption, ProbesEnd
<1>6. Evidence
  <2>1. DeathOnlyOnItsOwnDeadline
    BY <1>2 DEF DeathOnlyOnItsOwnDeadline
  <2>2. VerdictNeedsAllHelpers
    BY <1>1 DEF VerdictNeedsAllHelpers
  <2>3. VerdictRespectsRefutation
    BY <1>1 DEF VerdictRespectsRefutation
  <2>. QED  BY <2>1, <2>2, <2>3 DEF Evidence
<1>. QED  BY <1>5, <1>6

LEMMA InitInv == Init => Inv
<1>. SUFFICES ASSUME Init PROVE Inv
  OBVIOUS
<1> DEFINE m == [state |-> "Alive", inc |-> 0, ver |-> Initial(Self)]
<1>1. m \in Members /\ m.state = "Alive"
  BY SelfAssumption, MaxCounterAssumption, MaxIncAssumption
     DEF Members, Initial, Versions, Incarnations
<1>2. NoTombstone \in Tombstones /\ NoPolicy \in Policies /\ 0 \in Incarnations
  BY MaxCounterAssumption, MaxIncAssumption
     DEF NoTombstone, NoPolicy, NoVersion, Initial, Tombstones, Policies, Versions, Incarnations
<1>3. rep = [Bare(0) EXCEPT !.members = [t \in Nodes |-> m]]
  BY DEF Init
<1> HIDE DEF m, NoTombstone, NoPolicy
<1>4. rep \in Replicas /\ rep.members = [t \in Nodes |-> m]
  BY <1>1, <1>2, <1>3 DEF Bare, Replicas
<1>6. IsFiniteSet({}) /\ Cardinality({}) = 0
  BY FS_EmptySet
<1>7. /\ probes = {} /\ selections = {} /\ deadline = [t \in Nodes |-> NoTimer]
      /\ armed = {} /\ late = {} /\ corr = 0
  BY DEF Init
<1>8. TypeOK
  BY <1>4, <1>6, <1>7, ProbeLimitsAssumption DEF TypeOK
<1>9. Finite /\ NothingWaitsForever /\ Booked /\ Asked /\ Known
  BY <1>6, <1>7 DEF Finite, NothingWaitsForever, Booked, Asked, Known
<1>. QED  BY <1>8, <1>9 DEF Inv

LEMMA NextInv ==
    ASSUME Inv, Next
    PROVE  Inv' /\ Evidence
<1>1. CASE StartProbeRound
  BY <1>1, StartProbeRoundStep
<1>2. CASE \E s \in selections : SelectionSpent(s)
  BY <1>2, SelectionSpentStep
<1>3. CASE \E t \in Peers : (\E s \in selections : ProbeSelected(s, t)) \/ RelayRequested(t)
  BY <1>3, LaunchedStep
<1>0. Probed \subseteq Peers
  BY ProbeBoundsAssumption DEF Peers
<1>4. CASE \E s \in selections, p \in probes : \E H \in SUBSET Peers : HelpersSelected(s, p, H)
  BY <1>4, HelpersSelectedStep
<1>5. CASE \E p \in probes, i \in Incarnations :
              Ack(p, i) \/ \E h \in p.helpers : HelperReached(p, h, i)
  BY <1>5, AnsweredStep
<1>6. CASE \E p \in probes : \E h \in p.helpers : HelperFailed(p, h)
  BY <1>6, HelperFailedStep
<1>7. CASE \E g \in armed \cup late : \E p \in probes : ProbeTimer(g, p)
  BY <1>7, ProbeTimerStep
<1>8. CASE \E g \in armed \cup late : \E t \in Peers : SuspicionTimer(g, t)
  BY <1>8, SuspicionTimerStep
<1>9. CASE \E g \in armed \cup late : StaleTimer(g)
  BY <1>9, StaleTimerStep
<1>10. CASE \E t \in Subjects : \/ \E m \in Rumours : Gossip(t, m)
                                \/ \E b \in Notices : Removal(t, b)
  BY <1>10, GossipStep, RemovalStep
<1>11. CASE \E i \in Incarnations : Challenged(i)
  BY <1>11, ChallengedStep
<1>. QED
  BY <1>0, <1>1, <1>2, <1>3, <1>4, <1>5, <1>6, <1>7, <1>8, <1>9, <1>10, <1>11 DEF Next

LEMMA StutterInv ==
    ASSUME Inv, UNCHANGED vars
    PROVE  Inv'
BY DEF vars, Inv, TypeOK, Finite, NothingWaitsForever, Booked, Asked, Known

LEMMA StepInv == Inv /\ [Next]_vars => Inv'
BY NextInv, StutterInv

-----------------------------------------------------------------------------
(* The theorems.                                                           *)

\* For any nodes, limits and order of events: the detector's state is
\* well-typed, and neither its probes nor its selections outgrow
\* max_pending_probes (TypeOK).
THEOREM TypeCorrect == Spec => []TypeOK
<1>1. Inv => TypeOK
  BY DEF Inv
<1>. QED  BY <1>1, InitInv, StepInv, PTL DEF Spec

\* For any nodes, limits and order of events: every probe in every phase and
\* every suspicion holds an armed timer that is its own (NothingWaitsForever),
\* so none of them is left waiting when answers are lost.
THEOREM EveryWaitHasATimer == Spec => []NothingWaitsForever
<1>1. Inv => NothingWaitsForever
  BY DEF Inv
<1>. QED  BY <1>1, InitInv, StepInv, PTL DEF Spec

\* For any nodes, limits and order of events: a timer kills only the member
\* whose deadline it is, a verdict needs every intermediary's failure or the
\* indirect deadline, and it falls only on a member still alive at the
\* incarnation that was probed (VerdictsRestOnEvidence).
THEOREM VerdictsAreFounded == Spec => VerdictsRestOnEvidence
<1>1. Inv /\ [Next]_vars =>
         [DeathOnlyOnItsOwnDeadline /\ VerdictNeedsAllHelpers /\ VerdictRespectsRefutation]_vars
  BY NextInv DEF Evidence
<1>. QED  BY <1>1, InitInv, StepInv, PTL DEF Spec, VerdictsRestOnEvidence
=============================================================================
