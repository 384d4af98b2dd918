-------------------------- MODULE FormationProofs --------------------------
(***************************************************************************)
(* For every set of nodes, every limit and every bound: the replicas of a  *)
(* formation stay well-typed, an uncleared tombstone fences its node, a    *)
(* suspicion deadline only ever belongs to a suspected member, no claim    *)
(* outruns its subject's own incarnation, every failure goes back to one   *)
(* that was announced, and a dead member stays dead.  What operators       *)
(* decide is held in registers as module Decisions says, so no two         *)
(* decisions share a version and no baseline ever disputes one.  Views and *)
(* their tombstones stay within the limits of the code.                    *)
(***************************************************************************)
EXTENDS Formation, FiniteSetTheorems, TLAPS

-----------------------------------------------------------------------------
(* The merge operators keep a replica a replica.                           *)

\* A version has a successor of the right type when the counter is not full.
LEMMA SuccessorType ==
    ASSUME NEW v \in Versions, HasSuccessor(v), NEW n \in Nodes
    PROVE  Successor(v, n) \in Versions
BY MaxCounterAssumption DEF Versions, HasSuccessor, Successor

LEMMA ConstantTypes ==
    /\ NoVersion \in Versions /\ NoMember \in Members
    /\ NoTombstone \in Tombstones /\ NoPolicy \in Policies
    /\ \A n \in Nodes : Initial(n) \in Versions
BY MaxCounterAssumption, MaxIncAssumption
   DEF NoVersion, NoMember, NoTombstone, NoPolicy, Initial, Versions, Members,
       Tombstones, Policies, Incarnations

LEMMA BareType ==
    ASSUME NEW i \in Incarnations
    PROVE  Bare(i) \in Replicas
BY ConstantTypes DEF Bare, Replicas

LEMMA OwnRecordType ==
    ASSUME NEW self \in Nodes, NEW r \in Replicas, NEW i \in Incarnations, NEW m \in Members
    PROVE  [r EXCEPT !.inc = i, !.members[self] = m] \in Replicas
BY DEF Replicas

\* Refutation moves a node's own incarnation and record, nothing else.
LEMMA RefuteType ==
    ASSUME NEW self \in Nodes, NEW r \in Replicas, NEW i \in Incarnations
    PROVE  Refute(self, r, i) \in Replicas
<1> DEFINE base == IF r.inc >= i THEN r.inc ELSE i
           own  == r.members[self]
           ver  == IF HasSuccessor(own.ver) THEN Successor(own.ver, self) ELSE own.ver
           rec  == IF IsMember(r, self)
                   THEN [state |-> "Alive", inc |-> base + 1, ver |-> ver] ELSE own
<1>1. r.inc \in Incarnations /\ own \in Members /\ own.ver \in Versions
  BY DEF Replicas, Members
<1>2. CASE base = MaxInc
  BY <1>2 DEF Refute
<1>3. CASE base # MaxInc
  <2>1. base + 1 \in Incarnations
    BY <1>1, <1>3, MaxIncAssumption DEF Incarnations
  <2>2. ver \in Versions
    BY <1>1, SuccessorType
  <2>3. rec \in Members
    BY <1>1, <2>1, <2>2 DEF Members
  <2>4. Refute(self, r, i) = [r EXCEPT !.inc = base + 1, !.members[self] = rec]
    BY <1>3 DEF Refute
  <2>5. [r EXCEPT !.inc = base + 1, !.members[self] = rec] \in Replicas
    <3> HIDE DEF base, rec
    <3>. QED  BY <2>1, <2>3, OwnRecordType
  <2>. QED  BY <2>4, <2>5
<1>. QED  BY <1>2, <1>3

LEMMA ChallengeType ==
    ASSUME NEW self \in Nodes, NEW r \in Replicas, NEW s, NEW i \in Incarnations
    PROVE  Challenge(self, r, s, i) \in Replicas
BY RefuteType DEF Challenge

LEMMA MergeMemberType ==
    ASSUME NEW self \in Nodes, NEW r \in Replicas, NEW t \in Nodes, NEW m \in Members
    PROVE  MergeMember(self, r, t, m) \in Replicas
<1>1. r.members[t] \in Members /\ r.susp[t] \in Incarnations \cup {NoDeadline} /\ m.inc \in Incarnations
  BY DEF Replicas, Members
<1>2. Merged(r.members[t], m) \in Members
  BY <1>1 DEF Merged, Members
<1>3. Deadline(r.members[t], m, r.susp[t]) \in Incarnations \cup {NoDeadline}
  BY <1>1 DEF Deadline
<1>4. [r EXCEPT !.members[t] = m] \in Replicas
  BY DEF Replicas
<1>5. [r EXCEPT !.members[t] = Merged(r.members[t], m),
                !.susp[t] = Deadline(r.members[t], m, r.susp[t])] \in Replicas
  BY <1>2, <1>3 DEF Replicas
<1>6. Challenge(self, r, m.state, m.inc) \in Replicas
  BY <1>1, ChallengeType
<1>. QED  BY <1>4, <1>5, <1>6 DEF MergeMember

LEMMA MergeTombstoneType ==
    ASSUME NEW r \in Replicas, NEW t \in Nodes, NEW b \in Tombstones
    PROVE  MergeTombstone(r, t, b) \in Replicas
<1>1. [r EXCEPT !.tombs[t] = b, !.members[t] = NoMember, !.susp[t] = NoDeadline] \in Replicas
  BY ConstantTypes DEF Replicas
<1>. QED  BY <1>1 DEF MergeTombstone

LEMMA MergePolicyType ==
    ASSUME NEW r \in Replicas, NEW p \in Policies
    PROVE  MergePolicy(r, p) \in Replicas
BY DEF MergePolicy, Replicas

LEMMA AnnouncementType ==
    ASSUME NEW self \in Nodes, NEW r \in Replicas, NEW s, NEW kind, NEW t \in Nodes,
           NEW i \in Incarnations
    PROVE  ApplyAnnouncement(self, r, s, kind, t, i) \in Replicas
<1> DEFINE m == [r.members[t] EXCEPT !.state = Claimed(kind), !.inc = Effective(kind, i)]
           d == IF Claimed(kind) # "Suspected" THEN NoDeadline ELSE r.susp[t]
<1>1. r.members[t] \in Members /\ d \in Incarnations \cup {NoDeadline}
  BY DEF Replicas
<1>2. Effective(kind, i) \in Incarnations
  BY MaxIncAssumption DEF Effective, Incarnations
<1>3. Claimed(kind) \in {"Alive", "Suspected", "Dead"}
  BY DEF Claimed
<1>4. m \in Members
  BY <1>1, <1>2, <1>3 DEF Members
<1>5. [r EXCEPT !.members[t] = m, !.susp[t] = d] \in Replicas
  BY <1>1, <1>4 DEF Replicas
<1>6. [r EXCEPT !.members[t].state = Claimed(kind), !.members[t].inc = Effective(kind, i),
                !.susp[t] = IF Claimed(kind) # "Suspected" THEN NoDeadline ELSE @]
      = [r EXCEPT !.members[t] = m, !.susp[t] = d]
  BY DEF Replicas, Members
<1>7. Challenge(self, r, Claimed(kind), i) \in Replicas
  BY ChallengeType
<1>. QED  BY <1>5, <1>6, <1>7 DEF ApplyAnnouncement

LEMMA SuspectType ==
    ASSUME NEW self \in Nodes, NEW r \in Replicas, NEW t \in Nodes, NEW i \in Incarnations
    PROVE  Suspect(self, r, t, i) \in Replicas
<1> DEFINE s == ApplyAnnouncement(self, r, self, "Suspect", t, i)
<1>1. s \in Replicas
  BY AnnouncementType
<1> HIDE DEF s
<1>2. [s EXCEPT !.susp[t] = i] \in Replicas
  BY <1>1 DEF Replicas
<1>. QED  BY <1>1, <1>2 DEF Suspect, s

LEMMA ExpireSuspicionType ==
    ASSUME NEW self \in Nodes, NEW r \in Replicas, NEW t \in Nodes, r.susp[t] # NoDeadline
    PROVE  ExpireSuspicion(self, r, t) \in Replicas
<1>1. [r EXCEPT !.susp[t] = NoDeadline] \in Replicas
  BY DEF Replicas
<1>2. r.susp[t] \in Incarnations
  BY DEF Replicas
<1>. QED  BY <1>1, <1>2, AnnouncementType DEF ExpireSuspicion

-----------------------------------------------------------------------------
(* What is sent is a message.                                              *)

LEMMA MessageTypes ==
    /\ \A t \in Nodes, m \in Members : MemberDelta(t, m) \in Messages
    /\ \A t \in Nodes, b \in Tombstones : TombstoneDelta(t, b) \in Messages
    /\ \A p \in Policies : PolicyDelta(p) \in Messages
    /\ \A k \in Kinds, t \in Nodes, i \in Incarnations : Announce(k, t, i) \in Messages
BY DEF MemberDelta, TombstoneDelta, PolicyDelta, Announce, Messages

LEMMA NewsType ==
    ASSUME NEW n \in Nodes, NEW r, NEW s \in Replicas
    PROVE  News(n, r, s) \subseteq Messages
<1>1. \A t \in Nodes : s.members[t] \in Members /\ s.tombs[t] \in Tombstones
  BY DEF Replicas
<1>2. s.policy \in Policies /\ s.inc \in Incarnations
  BY DEF Replicas
<1>3. "Alive" \in Kinds
  BY DEF Kinds
<1>. QED  BY <1>1, <1>2, <1>3, MessageTypes DEF News

LEMMA IntroductionType ==
    ASSUME NEW n \in Nodes, NEW view \in [Nodes -> Members]
    PROVE  Introduction(n, view) \subseteq Messages
<1>1. "Alive" \in Kinds /\ 0 \in Incarnations
  BY MaxIncAssumption DEF Kinds, Incarnations
<1>. QED  BY <1>1, MessageTypes DEF Introduction

\* A node that becomes a replica and announces messages keeps the types.
LEMMA BecomeType ==
    ASSUME TypeOK, NEW n \in Nodes, NEW s \in Replicas, NEW A \in SUBSET Messages,
           Become(n, s, A)
    PROVE  rep' \in [Nodes -> Replicas] /\ sent' \in [Nodes -> SUBSET Messages]
<1>1. News(n, rep[n], s) \subseteq Messages
  BY NewsType
<1>. QED  BY <1>1 DEF Become, TypeOK

-----------------------------------------------------------------------------
(* Type correctness.                                                       *)

LEMMA FoundingType ==
    FoundingView \in [Nodes -> Members] /\ NoOffer \in [Nodes -> Members]
<1>1. \A t \in Founders : Initial(Genesis) \in Versions
  BY ConstantTypes, RolesAssumption DEF Genesis
<1>2. \A t \in Founders : [state |-> "Alive", inc |-> 0, ver |-> Initial(Genesis)] \in Members
  BY <1>1, MaxIncAssumption DEF Members, Incarnations
<1>. QED  BY <1>2, ConstantTypes DEF FoundingView, NoOffer

LEMMA InitType == Init => TypeOK
<1>. SUFFICES ASSUME Init PROVE TypeOK
  OBVIOUS
<1>1. Bare(0) \in Replicas
  BY BareType, MaxIncAssumption DEF Incarnations
<1>2. [Bare(0) EXCEPT !.members = FoundingView] \in Replicas
  BY <1>1, FoundingType DEF Replicas
<1>3. \A n \in Nodes : Introduction(n, FoundingView) \subseteq Messages
  BY FoundingType, IntroductionType
<1>4. status \in [Nodes -> Statuses]
  BY DEF Init, Statuses
<1>5. rep \in [Nodes -> Replicas]
  BY <1>1, <1>2 DEF Init
<1>6. sent \in [Nodes -> SUBSET Messages]
  BY <1>3 DEF Init
<1>7. offer \in [Nodes -> [Nodes -> Members]]
  BY FoundingType DEF Init
<1>. QED  BY <1>4, <1>5, <1>6, <1>7 DEF TypeOK

\* The baseline's outcome, as an operator of its own.
LEMMA BaselineType ==
    ASSUME NEW r \in Replicas, NEW b \in Replicas, NEW T \in SUBSET Nodes
    PROVE  [MergePolicy(r, b.policy) EXCEPT
              !.tombs = [t \in Nodes |-> IF t \in T THEN b.tombs[t] ELSE r.tombs[t]],
              !.members = Without(@, T),
              !.susp = [t \in Nodes |-> IF t \in T THEN NoDeadline ELSE @[t]]] \in Replicas
<1> DEFINE q == MergePolicy(r, b.policy)
<1>1. q \in Replicas
  BY MergePolicyType DEF Replicas
<1> HIDE DEF q
<1>2. [t \in Nodes |-> IF t \in T THEN b.tombs[t] ELSE r.tombs[t]] \in [Nodes -> Tombstones]
  BY DEF Replicas
<1>3. Without(q.members, T) \in [Nodes -> Members]
  BY <1>1, ConstantTypes DEF Replicas, Without
<1>4. [t \in Nodes |-> IF t \in T THEN NoDeadline ELSE q.susp[t]]
         \in [Nodes -> Incarnations \cup {NoDeadline}]
  BY <1>1 DEF Replicas
<1>5. ASSUME NEW f \in [Nodes -> Tombstones], NEW g \in [Nodes -> Members],
             NEW h \in [Nodes -> Incarnations \cup {NoDeadline}]
      PROVE  [q EXCEPT !.tombs = f, !.members = g, !.susp = h] \in Replicas
  BY <1>1 DEF Replicas
<1>. QED  BY <1>2, <1>3, <1>4, <1>5 DEF q

\* A step that is one Become keeps the types.
LEMMA BecomeStepType ==
    ASSUME TypeOK, NEW n \in Nodes, NEW s \in Replicas, NEW A \in SUBSET Messages,
           Become(n, s, A), UNCHANGED <<status, offer>>
    PROVE  TypeOK'
BY BecomeType DEF TypeOK

LEMMA AdmitType ==
    ASSUME TypeOK, NEW n \in Nodes, NEW x \in Nodes, Admit(n, x)
    PROVE  TypeOK'
<1> DEFINE m == [state |-> "Alive", inc |-> 0, ver |-> Initial(n)]
           s == [rep[n] EXCEPT !.members[x] = m]
<1>1. m \in Members
  BY ConstantTypes, MaxIncAssumption DEF Members, Incarnations
<1>2. rep[n] \in Replicas
  BY DEF TypeOK
<1>3. s \in Replicas
  <2> HIDE DEF m
  <2>. QED  BY <1>1, <1>2 DEF Replicas
<1>4. Become(n, s, {}) /\ status' = [status EXCEPT ![x] = "invited"]
      /\ offer' = [offer EXCEPT ![x] = s.members]
  BY DEF Admit
<1>5. s.members \in [Nodes -> Members]
  BY <1>3 DEF Replicas
<1> HIDE DEF s
<1>6. rep' \in [Nodes -> Replicas] /\ sent' \in [Nodes -> SUBSET Messages]
  BY <1>3, <1>4, BecomeType
<1>7. status' \in [Nodes -> Statuses] /\ offer' \in [Nodes -> [Nodes -> Members]]
  BY <1>4, <1>5 DEF TypeOK, Statuses
<1>. QED  BY <1>6, <1>7 DEF TypeOK

LEMMA AdoptType ==
    ASSUME TypeOK, NEW x \in Nodes, Adopt(x)
    PROVE  TypeOK'
<1>1. offer[x] \in [Nodes -> Members]
  BY DEF TypeOK
<1>2. Bare(0) \in Replicas
  BY BareType, MaxIncAssumption DEF Incarnations
<1>3. [Bare(0) EXCEPT !.members = offer[x]] \in Replicas
  BY <1>1, <1>2 DEF Replicas
<1>4. Introduction(x, offer[x]) \subseteq Messages
  BY <1>1, IntroductionType
<1>5. rep' \in [Nodes -> Replicas]
  BY <1>3 DEF TypeOK, Adopt
<1>6. sent' \in [Nodes -> SUBSET Messages]
  BY <1>4 DEF TypeOK, Adopt
<1>7. status' \in [Nodes -> Statuses] /\ offer' \in [Nodes -> [Nodes -> Members]]
  BY FoundingType DEF TypeOK, Adopt, Statuses
<1>. QED  BY <1>5, <1>6, <1>7 DEF TypeOK

LEMMA InstallBaselineType ==
    ASSUME TypeOK, NEW n \in Nodes, NEW src \in Nodes, InstallBaseline(n, src)
    PROVE  TypeOK'
<1> DEFINE Taken == {t \in Nodes : /\ rep[src].tombs[t] # NoTombstone
                                   /\ \/ rep[n].tombs[t] = NoTombstone
                                      \/ Precedes(rep[n].tombs[t].ver, rep[src].tombs[t].ver)}
           s == [MergePolicy(rep[n], rep[src].policy) EXCEPT
                   !.tombs = [t \in Nodes |-> IF t \in Taken THEN rep[src].tombs[t] ELSE rep[n].tombs[t]],
                   !.members = Without(@, Taken),
                   !.susp = [t \in Nodes |-> IF t \in Taken THEN NoDeadline ELSE @[t]]]
<1>1. Become(n, s, {}) /\ UNCHANGED <<status, offer>>
  BY DEF InstallBaseline
<1>2. s \in Replicas
  <2>1. rep[n] \in Replicas /\ rep[src] \in Replicas
    BY DEF TypeOK
  <2>2. Taken \in SUBSET Nodes
    OBVIOUS
  <2> HIDE DEF Taken
  <2>. QED  BY <2>1, <2>2, BaselineType
<1> HIDE DEF s
<1>. QED  BY <1>1, <1>2, BecomeStepType

LEMMA SuspectMemberType ==
    ASSUME TypeOK, NEW n \in Nodes, NEW t \in Nodes, SuspectMember(n, t)
    PROVE  TypeOK'
<1> DEFINE i == rep[n].members[t].inc
           s == Suspect(n, rep[n], t, i)
           A == {Announce("Suspect", t, i)}
<1>1. rep[n] \in Replicas /\ i \in Incarnations
  BY DEF TypeOK, Replicas, Members
<1>2. s \in Replicas
  BY <1>1, SuspectType
<1>3. A \in SUBSET Messages
  BY <1>1, MessageTypes DEF Kinds
<1>4. Become(n, s, A) /\ UNCHANGED <<status, offer>>
  BY DEF SuspectMember
<1> HIDE DEF s, A
<1>. QED  BY <1>2, <1>3, <1>4, BecomeStepType

LEMMA DeclareDeadType ==
    ASSUME TypeOK, NEW n \in Nodes, NEW t \in Nodes, DeclareDead(n, t)
    PROVE  TypeOK'
<1> DEFINE i == rep[n].susp[t]
           s == ExpireSuspicion(n, rep[n], t)
           A == {Announce("Dead", t, i) : x \in {y \in {1} : Adopts(n, rep[n], n, "Dead", t, i)}}
<1>1. rep[n] \in Replicas /\ i # NoDeadline
  BY DEF TypeOK, DeclareDead
<1>2. s \in Replicas
  BY <1>1, ExpireSuspicionType
<1>3. i \in Incarnations
  BY <1>1 DEF Replicas
<1>4. A \in SUBSET Messages
  BY <1>3, MessageTypes DEF Kinds
<1>5. Become(n, s, A) /\ UNCHANGED <<status, offer>>
  BY DEF DeclareDead
<1> HIDE DEF s, A
<1>. QED  BY <1>2, <1>4, <1>5, BecomeStepType

\* A message is one of four kinds of record.
LEMMA MessageCases ==
    ASSUME NEW m \in Messages
    PROVE  \/ m.type = "member" /\ m.id \in Nodes /\ m.rec \in Members
           \/ m.type = "tombstone" /\ m.id \in Nodes /\ m.rec \in Tombstones
           \/ m.type = "policy" /\ m.rec \in Policies
           \/ /\ m.type = "announce" /\ m.kind \in Kinds
              /\ m.id \in Nodes /\ m.inc \in Incarnations
BY DEF Messages

LEMMA ReceiveType ==
    ASSUME TypeOK, NEW n \in Nodes, NEW s \in Nodes, NEW m \in Messages
    PROVE  Receive(n, s, m) \in Replicas
<1>0. rep[n] \in Replicas
  BY DEF TypeOK
<1>1. CASE m.type = "member" /\ m.id \in Nodes /\ m.rec \in Members
  BY <1>0, <1>1, MergeMemberType DEF Receive
<1>2. CASE m.type = "tombstone" /\ m.id \in Nodes /\ m.rec \in Tombstones
  BY <1>0, <1>2, MergeTombstoneType DEF Receive
<1>3. CASE m.type = "policy" /\ m.rec \in Policies
  BY <1>0, <1>3, MergePolicyType DEF Receive
<1>4. CASE m.type = "announce" /\ m.id \in Nodes /\ m.inc \in Incarnations
  BY <1>0, <1>4, AnnouncementType DEF Receive
<1>. QED  BY <1>1, <1>2, <1>3, <1>4, MessageCases

LEMMA DeliverType ==
    ASSUME TypeOK, NEW n \in Nodes, NEW s \in Nodes, NEW m \in sent[s], Deliver(n, s, m)
    PROVE  TypeOK'
<1>1. m \in Messages
  BY DEF TypeOK
<1>2. Receive(n, s, m) \in Replicas
  BY <1>1, ReceiveType
<1>. QED  BY <1>2, BecomeStepType DEF Deliver

LEMMA RetireType ==
    ASSUME TypeOK, NEW n \in Nodes, NEW st \in Statuses, Retire(n, st)
    PROVE  /\ rep' \in [Nodes -> Replicas] /\ status' \in [Nodes -> Statuses]
           /\ offer' \in [Nodes -> [Nodes -> Members]]
<1>1. Bare(rep[n].inc) \in Replicas
  BY BareType DEF TypeOK, Replicas
<1>. QED  BY <1>1 DEF Retire, TypeOK

LEMMA LeaveType ==
    ASSUME TypeOK, NEW n \in Nodes, Leave(n)
    PROVE  TypeOK'
<1>1. Announce("Leave", n, rep[n].inc) \in Messages
  BY MessageTypes DEF TypeOK, Replicas, Kinds
<1>2. sent' \in [Nodes -> SUBSET Messages]
  BY <1>1 DEF Leave, TypeOK
<1>3. Retire(n, "left") /\ "left" \in Statuses
  BY DEF Leave, Statuses
<1>. QED  BY <1>2, <1>3, RetireType DEF TypeOK

LEMMA CrashType ==
    ASSUME TypeOK, NEW n \in Nodes, Crash(n)
    PROVE  TypeOK'
<1>1. Retire(n, "down") /\ "down" \in Statuses /\ sent' = sent
  BY DEF Crash, Statuses
<1>. QED  BY <1>1, RetireType DEF TypeOK

\* The tombstone of a removal is one, and so is a cleared one.
LEMMA NewTombstoneType ==
    ASSUME NEW v \in Versions, HasSuccessor(v), NEW n \in Nodes, NEW st \in {"Fenced", "Cleared"}
    PROVE  [state |-> st, ver |-> Successor(v, n)] \in Tombstones
BY SuccessorType DEF Tombstones

LEMMA RemoveMemberType ==
    ASSUME TypeOK, NEW n \in Nodes, NEW t \in Nodes, RemoveMember(n, t)
    PROVE  TypeOK'
<1>1. rep[n] \in Replicas /\ rep[n].members[t].ver \in Versions
  BY DEF TypeOK, Replicas, Members
<1>2. HasSuccessor(rep[n].members[t].ver)
  BY DEF RemoveMember, CanRemove
<1>3. Removed(n, t) \in Replicas
  BY <1>1, <1>2, NewTombstoneType, MergeTombstoneType DEF Removed
<1>. QED  BY <1>3, BecomeStepType DEF RemoveMember

LEMMA ClearTombstoneType ==
    ASSUME TypeOK, NEW n \in Nodes, NEW t \in Nodes, ClearTombstone(n, t)
    PROVE  TypeOK'
<1> DEFINE b == [state |-> "Cleared", ver |-> Successor(rep[n].tombs[t].ver, n)]
           s == [rep[n] EXCEPT !.tombs[t] = b]
<1>1. rep[n] \in Replicas /\ rep[n].tombs[t].ver \in Versions
  BY DEF TypeOK, Replicas, Tombstones
<1>2. b \in Tombstones
  BY <1>1, NewTombstoneType DEF ClearTombstone
<1>3. s \in Replicas
  <2> HIDE DEF b
  <2>. QED  BY <1>1, <1>2 DEF Replicas
<1>4. Become(n, s, {}) /\ UNCHANGED <<status, offer>>
  BY DEF ClearTombstone
<1> HIDE DEF s
<1>. QED  BY <1>3, <1>4, BecomeStepType

LEMMA SetMembershipLockType ==
    ASSUME TypeOK, NEW n \in Nodes, NEW locked \in BOOLEAN, SetMembershipLock(n, locked)
    PROVE  TypeOK'
<1> DEFINE base == IF rep[n].policy = NoPolicy THEN Initial(n) ELSE rep[n].policy.ver
           p == [lock |-> IF locked THEN "Locked" ELSE "Open", ver |-> Successor(base, n)]
           s == MergePolicy(rep[n], p)
<1>1. rep[n] \in Replicas /\ rep[n].policy.ver \in Versions
  BY DEF TypeOK, Replicas, Policies
<1>2. base \in Versions
  BY <1>1, ConstantTypes
<1>3. HasSuccessor(base) /\ Become(n, s, {}) /\ UNCHANGED <<status, offer>>
  BY DEF SetMembershipLock
<1> HIDE DEF base
<1>4. Successor(base, n) \in Versions
  BY <1>2, <1>3, SuccessorType
<1>5. p \in Policies
  BY <1>4 DEF Policies
<1> HIDE DEF p
<1>6. s \in Replicas
  BY <1>1, <1>5, MergePolicyType
<1> HIDE DEF s
<1>. QED  BY <1>3, <1>6, BecomeStepType

LEMMA NextType == TypeOK /\ [Next]_vars => TypeOK'
<1>. SUFFICES ASSUME TypeOK, [Next]_vars PROVE TypeOK'
  OBVIOUS
<1>1. CASE UNCHANGED vars
  BY <1>1 DEF TypeOK, vars
<1>2. ASSUME NEW n \in Nodes, DeliverTo(n) PROVE TypeOK'
  BY <1>2, DeliverType DEF DeliverTo
<1>. QED
  BY <1>1, <1>2, AdmitType, AdoptType, InstallBaselineType, SuspectMemberType, DeclareDeadType,
     LeaveType, CrashType, RemoveMemberType, ClearTombstoneType, SetMembershipLockType
     DEF Next

\* Every replica, message and snapshot of every behaviour is well-typed: no
\* increment leaves its width, no merge leaves a partial record (TypeOK).
THEOREM FormationTypeCorrect == Spec => []TypeOK
BY InitType, NextType, PTL DEF Spec

-----------------------------------------------------------------------------
(* Fences and deadlines.                                                   *)

\* What one replica keeps of FenceHolds and DeadlineMeansSuspected, about one
\* member.  The last part makes it inductive: refutation rewrites a node's own
\* record, so a node must never hold a deadline against itself.
SoundAt(self, r, t) ==
    /\ IsTombstoned(r, t) => ~IsMember(r, t)
    /\ r.susp[t] # NoDeadline =>
          /\ r.members[t].state = "Suspected"
          /\ r.members[t].inc >= r.susp[t]
          /\ t # self

Sound(self, r) == \A t \in Nodes : SoundAt(self, r, t)

Healthy == \A n \in Nodes : Sound(n, rep[n])

\* Healthy is the conjunction of the two properties and the strengthening.
LEMMA HealthyImplies == Healthy => FenceHolds /\ DeadlineMeansSuspected
BY DEF Healthy, Sound, SoundAt, FenceHolds, DeadlineMeansSuspected

\* SoundAt reads three entries of the replica.
LEMMA SoundLocal ==
    ASSUME NEW self, NEW r, NEW s, NEW t \in Nodes, SoundAt(self, r, t),
           s.members[t] = r.members[t], s.tombs[t] = r.tombs[t], s.susp[t] = r.susp[t]
    PROVE  SoundAt(self, s, t)
BY DEF SoundAt, IsTombstoned, IsMember

LEMMA BareSound ==
    ASSUME NEW self \in Nodes, NEW i, NEW view \in [Nodes -> Members]
    PROVE  Sound(self, Bare(i)) /\ Sound(self, [Bare(i) EXCEPT !.members = view])
BY DEF Sound, SoundAt, Bare, IsTombstoned, NoTombstone

LEMMA RefuteSound ==
    ASSUME NEW self \in Nodes, NEW r \in Replicas, NEW i \in Incarnations, Sound(self, r)
    PROVE  Sound(self, Refute(self, r, i))
<1> DEFINE s == Refute(self, r, i)
<1>1. s.tombs = r.tombs /\ s.susp = r.susp
  BY DEF Refute, Replicas
<1>2. \A t \in Nodes : t # self => s.members[t] = r.members[t]
  BY DEF Refute, Replicas
<1>3. ~IsMember(r, self) => s.members[self] = r.members[self]
  BY DEF Refute, Replicas
<1> HIDE DEF s
<1>4. SoundAt(self, s, self)
  BY <1>1, <1>3 DEF Sound, SoundAt, IsTombstoned, IsMember
<1>5. ASSUME NEW t \in Nodes, t # self PROVE SoundAt(self, s, t)
  BY <1>1, <1>2, <1>5, SoundLocal DEF Sound
<1>. QED  BY <1>4, <1>5 DEF Sound, s

LEMMA ChallengeSound ==
    ASSUME NEW self \in Nodes, NEW r \in Replicas, NEW st, NEW i \in Incarnations, Sound(self, r)
    PROVE  Sound(self, Challenge(self, r, st, i))
BY RefuteSound DEF Challenge

\* A step that rewrites one member's entries only has to be sound there.
LEMMA SoundUpdate ==
    ASSUME NEW self \in Nodes, NEW r \in Replicas, NEW t \in Nodes, NEW s,
           Sound(self, r),
           \A u \in Nodes : u # t => /\ s.members[u] = r.members[u]
                                    /\ s.susp[u] = r.susp[u]
                                    /\ s.tombs[u] = r.tombs[u],
           SoundAt(self, s, t)
    PROVE  Sound(self, s)
BY SoundLocal DEF Sound

\* A record that supersedes is at least as new.
LEMMA WinsIsNewer ==
    ASSUME NEW s, NEW n \in Nat, NEW cs, NEW m \in Nat, SwimSupersedes(s, n, cs, m)
    PROVE  n >= m /\ cs # "Dead"
BY DEF SwimSupersedes

LEMMA MergeMemberSound ==
    ASSUME NEW self \in Nodes, NEW r \in Replicas, NEW t \in Nodes, NEW m \in Members, Sound(self, r)
    PROVE  Sound(self, MergeMember(self, r, t, m))
<1>0. /\ r.members[t] \in Members /\ r.members[t].inc \in Nat /\ m.inc \in Nat
      /\ m.inc \in Incarnations /\ r.susp[t] \in Nat \cup {NoDeadline}
  BY MaxIncAssumption DEF Replicas, Members, Incarnations
<1>1. CASE IsTombstoned(r, t)
  BY <1>1 DEF MergeMember
<1>2. CASE ~IsTombstoned(r, t) /\ t = self
  BY <1>0, <1>2, ChallengeSound DEF MergeMember
<1>3. CASE ~IsTombstoned(r, t) /\ t # self /\ ~IsMember(r, t)
  <2>1. r.susp[t] = NoDeadline /\ r.tombs[t].state # "Fenced"
    BY <1>3 DEF Sound, SoundAt, IsMember, IsTombstoned
  <2> DEFINE s == [r EXCEPT !.members[t] = m]
  <2>2. /\ s.members[t] = m /\ s.susp = r.susp /\ s.tombs = r.tombs
        /\ \A u \in Nodes : u # t => s.members[u] = r.members[u]
    BY DEF Replicas
  <2> HIDE DEF s
  <2>3. Sound(self, s)
    BY <2>1, <2>2, SoundUpdate DEF SoundAt, IsTombstoned
  <2>. QED  BY <1>3, <2>3 DEF MergeMember, s
<1>4. CASE ~IsTombstoned(r, t) /\ t # self /\ IsMember(r, t)
  <2> DEFINE c == Merged(r.members[t], m)
             d == Deadline(r.members[t], m, r.susp[t])
  <2>1. d # NoDeadline => c.state = "Suspected" /\ c.inc >= d
    <3>1. CASE Wins(r.members[t], m)
      BY <1>0, <3>1, WinsIsNewer DEF Merged, Deadline, Sound, SoundAt, Wins
    <3>2. CASE ~Wins(r.members[t], m)
      BY <1>0, <3>2 DEF Merged, Deadline, Sound, SoundAt
    <3>. QED  BY <3>1, <3>2
  <2>2. MergeMember(self, r, t, m) = [r EXCEPT !.members[t] = c, !.susp[t] = d]
    BY <1>4 DEF MergeMember
  <2> HIDE DEF c, d
  <2> DEFINE s == [r EXCEPT !.members[t] = c, !.susp[t] = d]
  <2>3. /\ s.members[t] = c /\ s.susp[t] = d /\ s.tombs = r.tombs
        /\ \A u \in Nodes : u # t => s.members[u] = r.members[u] /\ s.susp[u] = r.susp[u]
    BY DEF Replicas
  <2> HIDE DEF s
  <2>4. SoundAt(self, s, t)
    BY <1>4, <2>1, <2>3 DEF SoundAt, IsTombstoned
  <2>5. Sound(self, s)
    BY <2>3, <2>4, SoundUpdate
  <2>. QED  BY <2>2, <2>5 DEF s
<1>. QED  BY <1>1, <1>2, <1>3, <1>4

LEMMA MergeTombstoneSound ==
    ASSUME NEW self \in Nodes, NEW r \in Replicas, NEW t \in Nodes, NEW b \in Tombstones,
           Sound(self, r)
    PROVE  Sound(self, MergeTombstone(r, t, b))
<1> DEFINE s == [r EXCEPT !.tombs[t] = b, !.members[t] = NoMember, !.susp[t] = NoDeadline]
<1>1. /\ s.members[t] = NoMember /\ s.susp[t] = NoDeadline
      /\ \A u \in Nodes : u # t => /\ s.members[u] = r.members[u]
                                   /\ s.susp[u] = r.susp[u]
                                   /\ s.tombs[u] = r.tombs[u]
  BY DEF Replicas
<1>2. MergeTombstone(r, t, b) = s \/ MergeTombstone(r, t, b) = r
  BY DEF MergeTombstone
<1> HIDE DEF s
<1>3. SoundAt(self, s, t)
  BY <1>1 DEF SoundAt, IsMember, NoMember
<1>. QED  BY <1>1, <1>2, <1>3, SoundUpdate

LEMMA MergePolicySound ==
    ASSUME NEW self \in Nodes, NEW r \in Replicas, NEW p, Sound(self, r)
    PROVE  Sound(self, MergePolicy(r, p))
<1> DEFINE s == MergePolicy(r, p)
<1>1. s.members = r.members /\ s.susp = r.susp /\ s.tombs = r.tombs
  BY DEF MergePolicy, Replicas
<1> HIDE DEF s
<1>. QED  BY <1>1, SoundLocal DEF Sound, s

\* What an adopted announcement leaves behind.
LEMMA AdoptedAnnouncement ==
    ASSUME NEW self \in Nodes, NEW r \in Replicas, NEW from, NEW kind, NEW t \in Nodes,
           NEW i \in Incarnations, Adopts(self, r, from, kind, t, i), NEW s,
           s = ApplyAnnouncement(self, r, from, kind, t, i)
    PROVE  /\ s.members[t].state = Claimed(kind)
           /\ s.members[t].inc = Effective(kind, i)
           /\ s.members[t].ver = r.members[t].ver
           /\ s.susp[t] = IF Claimed(kind) # "Suspected" THEN NoDeadline ELSE r.susp[t]
           /\ s.tombs = r.tombs /\ s.policy = r.policy /\ s.inc = r.inc
           /\ \A u \in Nodes : u # t => s.members[u] = r.members[u] /\ s.susp[u] = r.susp[u]
<1>1. t # self
  BY DEF Adopts
<1>2. s = [r EXCEPT
            !.members[t].state = Claimed(kind),
            !.members[t].inc = Effective(kind, i),
            !.susp[t] = IF Claimed(kind) # "Suspected" THEN NoDeadline ELSE @]
  BY <1>1 DEF ApplyAnnouncement
<1>. QED  BY <1>2 DEF Replicas, Members

LEMMA AnnouncementSound ==
    ASSUME NEW self \in Nodes, NEW r \in Replicas, NEW from, NEW kind, NEW t \in Nodes,
           NEW i \in Incarnations, Sound(self, r)
    PROVE  Sound(self, ApplyAnnouncement(self, r, from, kind, t, i))
<1> DEFINE s == ApplyAnnouncement(self, r, from, kind, t, i)
<1>1. CASE t = self
  BY <1>1, ChallengeSound DEF ApplyAnnouncement
<1>2. CASE t # self /\ ~Adopts(self, r, from, kind, t, i)
  BY <1>2 DEF ApplyAnnouncement
<1>3. CASE Adopts(self, r, from, kind, t, i)
  <2>1. r.members[t].inc \in Nat /\ Effective(kind, i) \in Nat /\ r.susp[t] \in Nat \cup {NoDeadline}
    BY MaxIncAssumption DEF Replicas, Members, Incarnations, Effective
  <2>2. Effective(kind, i) >= r.members[t].inc /\ t # self /\ ~IsTombstoned(r, t)
    BY <1>3, <2>1, WinsIsNewer DEF Adopts
  <2>3. /\ s.members[t].state = Claimed(kind) /\ s.members[t].inc = Effective(kind, i)
        /\ s.susp[t] = IF Claimed(kind) # "Suspected" THEN NoDeadline ELSE r.susp[t]
        /\ s.tombs = r.tombs
        /\ \A u \in Nodes : u # t => s.members[u] = r.members[u] /\ s.susp[u] = r.susp[u]
    BY <1>3, AdoptedAnnouncement
  <2> HIDE DEF s
  <2>4. SoundAt(self, s, t)
    BY <2>1, <2>2, <2>3 DEF Sound, SoundAt, IsTombstoned
  <2>. QED  BY <2>3, <2>4, SoundUpdate DEF s
<1>. QED  BY <1>1, <1>2, <1>3

LEMMA SuspectSound ==
    ASSUME NEW self \in Nodes, NEW r \in Replicas, NEW t \in Nodes, NEW i \in Incarnations,
           Sound(self, r)
    PROVE  Sound(self, Suspect(self, r, t, i))
<1> DEFINE s == ApplyAnnouncement(self, r, self, "Suspect", t, i)
           q == [s EXCEPT !.susp[t] = i]
<1>1. s \in Replicas /\ Sound(self, s)
  BY AnnouncementType, AnnouncementSound
<1>2. CASE ~Adopts(self, r, self, "Suspect", t, i)
  BY <1>1, <1>2 DEF Suspect
<1>3. CASE Adopts(self, r, self, "Suspect", t, i)
  <2>1. s.members[t].state = "Suspected" /\ s.members[t].inc = i /\ s.tombs = r.tombs
    BY <1>3, AdoptedAnnouncement DEF Claimed, Effective
  <2>2. t # self /\ ~IsTombstoned(r, t) /\ i >= i
    BY <1>3, MaxIncAssumption DEF Adopts, Incarnations
  <2>3. Suspect(self, r, t, i) = q
    BY <1>3 DEF Suspect
  <2> HIDE DEF s
  <2>4. /\ q.members = s.members /\ q.tombs = s.tombs /\ q.susp[t] = i
        /\ \A u \in Nodes : u # t => q.susp[u] = s.susp[u]
    BY <1>1 DEF Replicas
  <2> HIDE DEF q
  <2>5. SoundAt(self, q, t)
    BY <2>1, <2>2, <2>4 DEF SoundAt, IsTombstoned
  <2>. QED  BY <1>1, <2>3, <2>4, <2>5, SoundUpdate
<1>. QED  BY <1>2, <1>3

LEMMA ExpireSuspicionSound ==
    ASSUME NEW self \in Nodes, NEW r \in Replicas, NEW t \in Nodes, r.susp[t] # NoDeadline,
           Sound(self, r)
    PROVE  Sound(self, ExpireSuspicion(self, r, t))
<1> DEFINE s == [r EXCEPT !.susp[t] = NoDeadline]
<1>1. s \in Replicas /\ r.susp[t] \in Incarnations
  BY DEF Replicas
<1>2. /\ s.members = r.members /\ s.tombs = r.tombs /\ s.susp[t] = NoDeadline
      /\ \A u \in Nodes : u # t => s.susp[u] = r.susp[u]
  BY DEF Replicas
<1> HIDE DEF s
<1>3. SoundAt(self, s, t)
  BY <1>2 DEF Sound, SoundAt, IsTombstoned, IsMember
<1>4. Sound(self, s)
  BY <1>2, <1>3, SoundUpdate
<1>. QED  BY <1>1, <1>4, AnnouncementSound DEF ExpireSuspicion, s

LEMMA ReceiveSound ==
    ASSUME TypeOK, NEW n \in Nodes, NEW s \in Nodes, NEW m \in Messages, Sound(n, rep[n])
    PROVE  Sound(n, Receive(n, s, m))
<1>0. rep[n] \in Replicas
  BY DEF TypeOK
<1>1. CASE m.type = "member" /\ m.id \in Nodes /\ m.rec \in Members
  BY <1>0, <1>1, MergeMemberSound DEF Receive
<1>2. CASE m.type = "tombstone" /\ m.id \in Nodes /\ m.rec \in Tombstones
  BY <1>0, <1>2, MergeTombstoneSound DEF Receive
<1>3. CASE m.type = "policy" /\ m.rec \in Policies
  BY <1>0, <1>3, MergePolicySound DEF Receive
<1>4. CASE m.type = "announce" /\ m.id \in Nodes /\ m.inc \in Incarnations
  BY <1>0, <1>4, AnnouncementSound DEF Receive
<1>. QED  BY <1>1, <1>2, <1>3, <1>4, MessageCases

LEMMA BaselineSound ==
    ASSUME NEW self \in Nodes, NEW r \in Replicas, NEW b \in Replicas, NEW T \in SUBSET Nodes,
           Sound(self, r), NEW s,
           s = [MergePolicy(r, b.policy) EXCEPT
                  !.tombs = [t \in Nodes |-> IF t \in T THEN b.tombs[t] ELSE r.tombs[t]],
                  !.members = Without(@, T),
                  !.susp = [t \in Nodes |-> IF t \in T THEN NoDeadline ELSE @[t]]]
    PROVE  Sound(self, s)
<1> DEFINE q == MergePolicy(r, b.policy)
<1>1. q \in Replicas
  BY MergePolicyType DEF Replicas
<1>2. q.members = r.members /\ q.susp = r.susp
  BY DEF MergePolicy, Replicas
<1> HIDE DEF q
<1>3. ASSUME NEW t \in Nodes
      PROVE  /\ s.members[t] = IF t \in T THEN NoMember ELSE r.members[t]
             /\ s.susp[t] = IF t \in T THEN NoDeadline ELSE r.susp[t]
             /\ t \notin T => s.tombs[t] = r.tombs[t]
  BY <1>1, <1>2 DEF q, Replicas, Without
<1>4. ASSUME NEW t \in T PROVE SoundAt(self, s, t)
  BY <1>3 DEF SoundAt, IsMember, NoMember
<1>5. ASSUME NEW t \in Nodes \ T PROVE SoundAt(self, s, t)
  BY <1>3, SoundLocal, ZenonT(40) DEF Sound
<1>. QED  BY <1>4, <1>5 DEF Sound

\* A step that moves only node n's replica only has to keep that one sound.
LEMMA HealthyUpdate ==
    ASSUME TypeOK, Healthy, NEW n \in Nodes, NEW s, Sound(n, s), rep' = [rep EXCEPT ![n] = s]
    PROVE  Healthy'
<1>1. \A m \in Nodes : rep'[m] = IF m = n THEN s ELSE rep[m]
  BY DEF TypeOK
<1>2. ASSUME NEW m \in Nodes PROVE Sound(m, rep'[m])
  BY <1>1 DEF Healthy
<1>. QED  BY <1>2 DEF Healthy

LEMMA InitHealthy == Init => Healthy
<1>. SUFFICES ASSUME Init PROVE Healthy
  OBVIOUS
<1>1. \A n \in Nodes : rep[n] = IF n \in Founders
                                THEN [Bare(0) EXCEPT !.members = FoundingView] ELSE Bare(0)
  BY DEF Init
<1>2. \A n \in Nodes : Sound(n, Bare(0)) /\ Sound(n, [Bare(0) EXCEPT !.members = FoundingView])
  BY BareSound, FoundingType
<1>. QED  BY <1>1, <1>2 DEF Healthy

LEMMA NextHealthy == TypeOK /\ Healthy /\ [Next]_vars => Healthy'
<1>. SUFFICES ASSUME TypeOK, Healthy, [Next]_vars PROVE Healthy'
  OBVIOUS
<1>0. \A n \in Nodes : rep[n] \in Replicas /\ Sound(n, rep[n])
  BY DEF TypeOK, Healthy
<1>1. CASE UNCHANGED vars
  <2>1. rep' = rep
    BY <1>1 DEF vars
  <2>. QED  BY <2>1 DEF Healthy
<1>2. ASSUME NEW n \in Nodes, NEW x \in Nodes, Admit(n, x) PROVE Healthy'
  <2> DEFINE m == [state |-> "Alive", inc |-> 0, ver |-> Initial(n)]
             s == [rep[n] EXCEPT !.members[x] = m]
  <2>1. rep' = [rep EXCEPT ![n] = s] /\ ~IsMember(rep[n], x) /\ rep[n].tombs[x].state = "None"
    BY <1>2 DEF Admit, Become
  <2> HIDE DEF m
  <2>2. /\ s.members[x] = m /\ s.susp = rep[n].susp /\ s.tombs = rep[n].tombs
        /\ \A u \in Nodes : u # x => s.members[u] = rep[n].members[u]
    BY <1>0 DEF Replicas
  <2> HIDE DEF s
  <2>3. rep[n].susp[x] = NoDeadline
    BY <1>0, <2>1 DEF Sound, SoundAt, IsMember
  <2>4. SoundAt(n, s, x)
    BY <2>1, <2>2, <2>3 DEF SoundAt, IsTombstoned
  <2>5. Sound(n, s)
    BY <1>0, <2>2, <2>4, SoundUpdate
  <2>. QED  BY <2>1, <2>5, HealthyUpdate
<1>3. ASSUME NEW x \in Nodes, Adopt(x) PROVE Healthy'
  <2>1. rep' = [rep EXCEPT ![x] = [Bare(0) EXCEPT !.members = offer[x]]]
    BY <1>3 DEF Adopt
  <2>2. Sound(x, [Bare(0) EXCEPT !.members = offer[x]])
    BY BareSound DEF TypeOK
  <2>. QED  BY <2>1, <2>2, HealthyUpdate
<1>4. ASSUME NEW n \in Nodes, NEW src \in Nodes, InstallBaseline(n, src) PROVE Healthy'
  <2> DEFINE Taken == {t \in Nodes : /\ rep[src].tombs[t] # NoTombstone
                                     /\ \/ rep[n].tombs[t] = NoTombstone
                                        \/ Precedes(rep[n].tombs[t].ver, rep[src].tombs[t].ver)}
             s == [MergePolicy(rep[n], rep[src].policy) EXCEPT
                     !.tombs = [t \in Nodes |-> IF t \in Taken THEN rep[src].tombs[t]
                                                ELSE rep[n].tombs[t]],
                     !.members = Without(@, Taken),
                     !.susp = [t \in Nodes |-> IF t \in Taken THEN NoDeadline ELSE @[t]]]
  <2>1. rep' = [rep EXCEPT ![n] = s]
    BY <1>4 DEF InstallBaseline, Become
  <2>2. Taken \in SUBSET Nodes
    OBVIOUS
  <2> HIDE DEF Taken
  <2>3. Sound(n, s)
    <3>1. rep[n] \in Replicas /\ rep[src] \in Replicas /\ Sound(n, rep[n])
      BY <1>0
    <3>. QED  BY <2>2, <3>1, BaselineSound, Zenon
  <2> HIDE DEF s
  <2>. QED  BY <2>1, <2>3, HealthyUpdate
<1>5. ASSUME NEW n \in Nodes, NEW t \in Nodes, SuspectMember(n, t) PROVE Healthy'
  <2> DEFINE s == Suspect(n, rep[n], t, rep[n].members[t].inc)
  <2>1. rep' = [rep EXCEPT ![n] = s]
    BY <1>5 DEF SuspectMember, Become
  <2>2. rep[n].members[t].inc \in Incarnations
    BY <1>0 DEF Replicas, Members
  <2>3. Sound(n, s)
    BY <1>0, <2>2, SuspectSound
  <2> HIDE DEF s
  <2>. QED  BY <2>1, <2>3, HealthyUpdate
<1>6. ASSUME NEW n \in Nodes, NEW t \in Nodes, DeclareDead(n, t) PROVE Healthy'
  <2>1. rep' = [rep EXCEPT ![n] = ExpireSuspicion(n, rep[n], t)] /\ rep[n].susp[t] # NoDeadline
    BY <1>6 DEF DeclareDead, Become
  <2>2. Sound(n, ExpireSuspicion(n, rep[n], t))
    BY <1>0, <2>1, ExpireSuspicionSound
  <2>. QED  BY <2>1, <2>2, HealthyUpdate
<1>7. ASSUME NEW n \in Nodes, DeliverTo(n) PROVE Healthy'
  <2>1. PICK s \in Nodes : \E m \in sent[s] : Deliver(n, s, m)
    BY <1>7 DEF DeliverTo
  <2>2. PICK m \in sent[s] : Deliver(n, s, m)
    BY <2>1
  <2>3. m \in Messages /\ rep' = [rep EXCEPT ![n] = Receive(n, s, m)]
    BY <2>2 DEF TypeOK, Deliver, Become
  <2>4. Sound(n, Receive(n, s, m))
    BY <1>0, <2>3, ReceiveSound
  <2>. QED  BY <2>3, <2>4, HealthyUpdate
<1>8. ASSUME NEW n \in Nodes, Leave(n) \/ Crash(n) PROVE Healthy'
  <2>1. rep' = [rep EXCEPT ![n] = Bare(rep[n].inc)]
    BY <1>8 DEF Leave, Crash, Retire
  <2>2. Sound(n, Bare(rep[n].inc))
    BY BareSound, FoundingType
  <2>. QED  BY <2>1, <2>2, HealthyUpdate
<1>9. ASSUME NEW n \in Nodes, NEW t \in Nodes, RemoveMember(n, t) PROVE Healthy'
  <2>1. rep' = [rep EXCEPT ![n] = Removed(n, t)] /\ HasSuccessor(rep[n].members[t].ver)
    BY <1>9 DEF RemoveMember, CanRemove, Become
  <2>2. rep[n].members[t].ver \in Versions
    BY <1>0 DEF Replicas, Members
  <2>3. Sound(n, Removed(n, t))
    BY <1>0, <2>1, <2>2, NewTombstoneType, MergeTombstoneSound DEF Removed
  <2>. QED  BY <2>1, <2>3, HealthyUpdate
<1>10. ASSUME NEW n \in Nodes, NEW t \in Nodes, ClearTombstone(n, t) PROVE Healthy'
  <2> DEFINE b == [state |-> "Cleared", ver |-> Successor(rep[n].tombs[t].ver, n)]
             s == [rep[n] EXCEPT !.tombs[t] = b]
  <2>1. rep' = [rep EXCEPT ![n] = s] /\ b.state = "Cleared"
    BY <1>10 DEF ClearTombstone, Become
  <2> HIDE DEF b
  <2>2. /\ s.members = rep[n].members /\ s.susp = rep[n].susp /\ s.tombs[t] = b
        /\ \A u \in Nodes : u # t => s.tombs[u] = rep[n].tombs[u]
    BY <1>0 DEF Replicas
  <2> HIDE DEF s
  <2>3. SoundAt(n, s, t)
    BY <1>0, <2>1, <2>2 DEF Sound, SoundAt, IsTombstoned
  <2>4. Sound(n, s)
    BY <1>0, <2>2, <2>3, SoundUpdate, SMTT(30)
  <2>. QED  BY <2>1, <2>4, HealthyUpdate
<1>11. ASSUME NEW n \in Nodes, NEW l \in BOOLEAN, SetMembershipLock(n, l) PROVE Healthy'
  <2>1. PICK p : rep' = [rep EXCEPT ![n] = MergePolicy(rep[n], p)]
    BY <1>11 DEF SetMembershipLock, Become
  <2>2. Sound(n, MergePolicy(rep[n], p))
    BY <1>0, MergePolicySound
  <2>. QED  BY <2>1, <2>2, HealthyUpdate
<1>. QED
  BY <1>1, <1>2, <1>3, <1>4, <1>5, <1>6, <1>7, <1>8, <1>9, <1>10, <1>11 DEF Next

\* For any nodes, limits and loss or reordering of messages: an uncleared
\* tombstone keeps its node out of every view that holds it (FenceHolds).
THEOREM FenceAlwaysHolds == Spec => []FenceHolds
BY InitType, NextType, InitHealthy, NextHealthy, HealthyImplies, PTL DEF Spec

\* For any nodes, limits and loss or reordering of messages: no refuted, dead
\* or removed member has a suspicion deadline left (DeadlineMeansSuspected).
THEOREM DeadlinesAreCurrent == Spec => []DeadlineMeansSuspected
BY InitType, NextType, InitHealthy, NextHealthy, HealthyImplies, PTL DEF Spec

-----------------------------------------------------------------------------
(* Authority over incarnations.                                            *)

\* A claim a message makes about a member's liveness.
MessageWithin(m) ==
    /\ m.type = "member" => WithinAuthority(m.id, m.rec.state, m.rec.inc)
    /\ m.type = "announce" => WithinAuthority(m.id, Claimed(m.kind), Effective(m.kind, m.inc))

ViewWithin(r) ==
    \A t \in Nodes : IsMember(r, t) => WithinAuthority(t, r.members[t].state, r.members[t].inc)

OfferWithin(view) ==
    \A t \in Nodes : view[t].state # "Absent" => WithinAuthority(t, view[t].state, view[t].inc)

\* The three places a claim can be in.
AuthorityParts ==
    /\ \A n \in Nodes : ViewWithin(rep[n])
    /\ \A n \in Nodes : OfferWithin(offer[n])
    /\ \A n \in Nodes : \A m \in sent[n] : MessageWithin(m)

LEMMA AuthorityIsParts == IncarnationAuthority <=> AuthorityParts
BY DEF IncarnationAuthority, Everywhere, AuthorityParts, ViewWithin, OfferWithin, MessageWithin

\* Where the claims of a replica s that replaces r at node self come from: r
\* itself, a refutation by self, or one received claim (st, i) about t.
From(self, r, s, t, st, i) ==
    /\ s.inc >= r.inc
    /\ \A u \in Nodes : IsMember(s, u) =>
          \/ /\ IsMember(r, u)
             /\ s.members[u].state = r.members[u].state
             /\ s.members[u].inc = r.members[u].inc
          \/ u = self /\ s.members[u].state = "Alive" /\ s.members[u].inc = s.inc
          \/ u = t /\ u # self /\ s.members[u].state = st /\ s.members[u].inc = i

LEMMA FromItself ==
    ASSUME NEW self, NEW r \in Replicas, NEW t, NEW st, NEW i
    PROVE  From(self, r, r, t, st, i)
<1>1. r.inc >= r.inc
  BY MaxIncAssumption DEF Replicas, Incarnations
<1>. QED  BY <1>1 DEF From

LEMMA RefuteFrom ==
    ASSUME NEW self \in Nodes, NEW r \in Replicas, NEW c \in Incarnations, NEW t, NEW st, NEW i
    PROVE  From(self, r, Refute(self, r, c), t, st, i)
<1> DEFINE base == IF r.inc >= c THEN r.inc ELSE c
           s == Refute(self, r, c)
<1>0. r.inc \in Nat /\ c \in Nat
  BY MaxIncAssumption DEF Replicas, Incarnations
<1>1. CASE base = MaxInc
  BY <1>1, FromItself DEF Refute
<1>2. CASE base # MaxInc
  <2>1. s.inc = base + 1
    BY <1>2 DEF Refute, Replicas
  <2>2. s.inc >= r.inc
    BY <1>0, <2>1
  <2>3. \A u \in Nodes : u # self => s.members[u] = r.members[u]
    BY DEF Refute, Replicas
  <2>4. IsMember(r, self) => s.members[self].state = "Alive" /\ s.members[self].inc = base + 1
    BY <1>2 DEF Refute, Replicas
  <2>5. ~IsMember(r, self) => s.members[self] = r.members[self]
    BY DEF Refute, Replicas
  <2> HIDE DEF s, base
  <2>6. ASSUME NEW u \in Nodes, IsMember(s, u), u # self
        PROVE  /\ IsMember(r, u) /\ s.members[u].state = r.members[u].state
               /\ s.members[u].inc = r.members[u].inc
    BY <2>3, <2>6 DEF IsMember
  <2>7. IsMember(s, self) => s.members[self].state = "Alive" /\ s.members[self].inc = s.inc
    BY <2>1, <2>4, <2>5 DEF IsMember
  <2>. QED  BY <2>2, <2>6, <2>7 DEF From, s
<1>. QED  BY <1>1, <1>2

LEMMA ChallengeFrom ==
    ASSUME NEW self \in Nodes, NEW r \in Replicas, NEW cs, NEW c \in Incarnations,
           NEW t, NEW st, NEW i
    PROVE  From(self, r, Challenge(self, r, cs, c), t, st, i)
BY RefuteFrom, FromItself DEF Challenge

\* A replica that differs from r in t's record only, which is r's or the claim.
LEMMA FromUpdate ==
    ASSUME NEW self \in Nodes, NEW r \in Replicas, NEW s, NEW t \in Nodes, NEW st, NEW i,
           s.inc = r.inc,
           \A u \in Nodes : u # t => s.members[u] = r.members[u],
           IsMember(s, t) =>
              \/ /\ IsMember(r, t)
                 /\ s.members[t].state = r.members[t].state
                 /\ s.members[t].inc = r.members[t].inc
              \/ t # self /\ s.members[t].state = st /\ s.members[t].inc = i
    PROVE  From(self, r, s, t, st, i)
<1>1. s.inc >= r.inc
  BY MaxIncAssumption DEF Replicas, Incarnations
<1>. QED  BY <1>1 DEF From, IsMember

LEMMA MergeMemberFrom ==
    ASSUME NEW self \in Nodes, NEW r \in Replicas, NEW t \in Nodes, NEW m \in Members
    PROVE  From(self, r, MergeMember(self, r, t, m), t, m.state, m.inc)
<1>0. m.inc \in Incarnations
  BY DEF Members
<1>1. CASE t = self
  BY <1>0, <1>1, ChallengeFrom, FromItself DEF MergeMember
<1>2. CASE t # self /\ ~IsMember(r, t)
  <2> DEFINE s == [r EXCEPT !.members[t] = m]
  <2>1. s.inc = r.inc /\ s.members[t] = m /\ \A u \in Nodes : u # t => s.members[u] = r.members[u]
    BY DEF Replicas
  <2> HIDE DEF s
  <2>2. From(self, r, s, t, m.state, m.inc)
    BY <1>2, <2>1, FromUpdate
  <2>. QED  BY <1>2, <2>2, FromItself DEF MergeMember, s
<1>3. CASE t # self /\ IsMember(r, t)
  <2> DEFINE c == Merged(r.members[t], m)
             d == Deadline(r.members[t], m, r.susp[t])
             s == [r EXCEPT !.members[t] = c, !.susp[t] = d]
  <2>1. \/ c.state = r.members[t].state /\ c.inc = r.members[t].inc
        \/ c.state = m.state /\ c.inc = m.inc
    BY DEF Merged
  <2>2. MergeMember(self, r, t, m) = s \/ MergeMember(self, r, t, m) = r
    BY <1>3 DEF MergeMember
  <2> HIDE DEF c, d
  <2>3. s.inc = r.inc /\ s.members[t] = c /\ \A u \in Nodes : u # t => s.members[u] = r.members[u]
    BY DEF Replicas
  <2> HIDE DEF s
  <2>4. From(self, r, s, t, m.state, m.inc)
    BY <1>3, <2>1, <2>3, FromUpdate
  <2>. QED  BY <2>2, <2>4, FromItself
<1>. QED  BY <1>1, <1>2, <1>3

LEMMA MergeTombstoneFrom ==
    ASSUME NEW self \in Nodes, NEW r \in Replicas, NEW t \in Nodes, NEW b, NEW st, NEW i
    PROVE  From(self, r, MergeTombstone(r, t, b), t, st, i)
<1> DEFINE s == [r EXCEPT !.tombs[t] = b, !.members[t] = NoMember, !.susp[t] = NoDeadline]
<1>1. s.inc = r.inc /\ s.members[t] = NoMember
      /\ \A u \in Nodes : u # t => s.members[u] = r.members[u]
  BY DEF Replicas
<1>2. MergeTombstone(r, t, b) = s \/ MergeTombstone(r, t, b) = r
  BY DEF MergeTombstone
<1> HIDE DEF s
<1>3. From(self, r, s, t, st, i)
  BY <1>1, FromUpdate DEF IsMember, NoMember
<1>. QED  BY <1>2, <1>3, FromItself

LEMMA MergePolicyFrom ==
    ASSUME NEW self \in Nodes, NEW r \in Replicas, NEW p, NEW t \in Nodes, NEW st, NEW i
    PROVE  From(self, r, MergePolicy(r, p), t, st, i)
<1> DEFINE s == MergePolicy(r, p)
<1>1. s.members = r.members /\ s.inc = r.inc
  BY DEF MergePolicy, Replicas
<1> HIDE DEF s
<1>2. From(self, r, s, t, st, i)
  BY <1>1, FromUpdate DEF IsMember
<1>. QED  BY <1>2 DEF s

LEMMA AnnouncementFrom ==
    ASSUME NEW self \in Nodes, NEW r \in Replicas, NEW from, NEW kind, NEW t \in Nodes,
           NEW i \in Incarnations
    PROVE  From(self, r, ApplyAnnouncement(self, r, from, kind, t, i), t, Claimed(kind), Effective(kind, i))
<1> DEFINE s == ApplyAnnouncement(self, r, from, kind, t, i)
<1>1. CASE t = self
  BY <1>1, ChallengeFrom, FromItself DEF ApplyAnnouncement
<1>2. CASE t # self /\ ~Adopts(self, r, from, kind, t, i)
  BY <1>2, FromItself DEF ApplyAnnouncement
<1>3. CASE t # self /\ Adopts(self, r, from, kind, t, i)
  <2>1. /\ s.members[t].state = Claimed(kind) /\ s.members[t].inc = Effective(kind, i)
        /\ s.inc = r.inc
        /\ \A u \in Nodes : u # t => s.members[u] = r.members[u]
    BY <1>3, AdoptedAnnouncement
  <2> HIDE DEF s
  <2>2. From(self, r, s, t, Claimed(kind), Effective(kind, i))
    BY <1>3, <2>1, FromUpdate
  <2>. QED  BY <2>2 DEF s
<1>. QED  BY <1>1, <1>2, <1>3

\* Incarnations only rise, and a departed node's stands still for good.
Monotone ==
    \A t \in Nodes :
       /\ rep'[t].inc >= rep[t].inc
       /\ status[t] = "left" => status'[t] = "left" /\ rep'[t].inc = rep[t].inc

LEMMA WithinStable ==
    ASSUME TypeOK, TypeOK', Monotone, NEW t \in Nodes, NEW st, NEW i \in Nat,
           WithinAuthority(t, st, i)
    PROVE  WithinAuthority(t, st, i)'
<1>1. rep[t].inc \in Nat /\ rep'[t].inc \in Nat
  BY MaxIncAssumption DEF TypeOK, Replicas, Incarnations
<1>2. /\ rep'[t].inc >= rep[t].inc
      /\ status[t] = "left" => status'[t] = "left" /\ rep'[t].inc = rep[t].inc
  BY DEF Monotone
<1>3. \/ i <= rep[t].inc
      \/ st = "Dead" /\ status[t] = "left" /\ i = rep[t].inc + 1
  BY DEF WithinAuthority
<1>. QED  BY <1>1, <1>2, <1>3 DEF WithinAuthority

LEMMA MessageStable ==
    ASSUME TypeOK, TypeOK', Monotone, NEW m \in Messages, MessageWithin(m)
    PROVE  MessageWithin(m)'
<1>1. CASE m.type = "member" /\ m.id \in Nodes /\ m.rec \in Members
  <2>1. m.rec.inc \in Nat
    BY <1>1, MaxIncAssumption DEF Members, Incarnations
  <2>. QED  BY <1>1, <2>1, WithinStable DEF MessageWithin
<1>2. CASE m.type = "announce" /\ m.id \in Nodes /\ m.inc \in Incarnations
  <2>1. Effective(m.kind, m.inc) \in Nat
    BY <1>2, MaxIncAssumption DEF Effective, Incarnations
  <2>. QED  BY <1>2, <2>1, WithinStable DEF MessageWithin
<1>3. CASE m.type = "tombstone" \/ m.type = "policy"
  BY <1>3 DEF MessageWithin
<1>. QED  BY <1>1, <1>2, <1>3, MessageCases

LEMMA ViewStable ==
    ASSUME TypeOK, TypeOK', Monotone, NEW r \in Replicas, ViewWithin(r)
    PROVE  ViewWithin(r)'
<1>1. ASSUME NEW t \in Nodes PROVE r.members[t].inc \in Nat
  BY MaxIncAssumption DEF Replicas, Members, Incarnations
<1>. QED  BY <1>1, WithinStable DEF ViewWithin

LEMMA OfferStable ==
    ASSUME TypeOK, TypeOK', Monotone, NEW view \in [Nodes -> Members], OfferWithin(view)
    PROVE  OfferWithin(view)'
<1>1. ASSUME NEW t \in Nodes PROVE view[t].inc \in Nat
  BY MaxIncAssumption DEF Members, Incarnations
<1>. QED  BY <1>1, WithinStable DEF OfferWithin

\* The news of a replica whose claims are all within authority.
LEMMA NewsWithin ==
    ASSUME NEW n \in Nodes, NEW r, NEW s \in Replicas, ViewWithin(s)', rep'[n] = s,
           NEW m \in News(n, r, s)
    PROVE  MessageWithin(m)'
<1>1. CASE \E u \in Nodes : IsMember(s, u) /\ m = MemberDelta(u, s.members[u])
  <2>1. PICK u \in Nodes : IsMember(s, u) /\ m = MemberDelta(u, s.members[u])
    BY <1>1
  <2>2. m.type = "member" /\ m.id = u /\ m.rec = s.members[u]
    BY <2>1 DEF MemberDelta
  <2>3. WithinAuthority(u, s.members[u].state, s.members[u].inc)'
    BY <2>1 DEF ViewWithin
  <2>. QED  BY <2>2, <2>3 DEF MessageWithin
<1>2. CASE \E u \in Nodes : m = TombstoneDelta(u, s.tombs[u])
  BY <1>2 DEF TombstoneDelta, MessageWithin
<1>3. CASE m = PolicyDelta(s.policy)
  BY <1>3 DEF PolicyDelta, MessageWithin
<1>4. CASE m = Announce("Alive", n, s.inc)
  <2>1. m.type = "announce" /\ m.kind = "Alive" /\ m.id = n /\ m.inc = s.inc
    BY <1>4 DEF Announce
  <2>2. s.inc <= s.inc
    BY MaxIncAssumption DEF Replicas, Incarnations
  <2>3. WithinAuthority(n, "Alive", s.inc)'
    BY <2>2 DEF WithinAuthority
  <2>. QED  BY <2>1, <2>3 DEF MessageWithin, Claimed, Effective
<1>. QED  BY <1>1, <1>2, <1>3, <1>4 DEF News

\* One node's step on a claim within authority.
LEMMA BecomeAuthority ==
    ASSUME TypeOK, AuthorityParts, NEW n \in Nodes, status[n] # "left",
           NEW s \in Replicas, NEW A \in SUBSET Messages, Become(n, s, A),
           TypeOK',
           \A u \in Nodes : status[u] = "left" => status'[u] = "left",
           NEW t \in Nodes, NEW st, NEW i \in Nat, WithinAuthority(t, st, i),
           From(n, rep[n], s, t, st, i),
           \A m \in A : MessageWithin(m),
           \A u \in Nodes : offer'[u] = offer[u] \/ offer'[u] = s.members
    PROVE  AuthorityParts'
<1>1. \A u \in Nodes : rep'[u] = IF u = n THEN s ELSE rep[u]
  BY DEF Become, TypeOK
<1>2. \A u \in Nodes : sent'[u] = IF u = n THEN sent[n] \cup News(n, rep[n], s) \cup A ELSE sent[u]
  BY DEF Become, TypeOK
<1>3. \A u \in Nodes : rep[u].inc \in Nat /\ rep[u] \in Replicas
  BY MaxIncAssumption DEF TypeOK, Replicas, Incarnations
<1>4. Monotone
  <2>1. s.inc >= rep[n].inc
    BY DEF From
  <2>. QED  BY <1>1, <1>3, <2>1 DEF Monotone
<1>5. ViewWithin(s)'
  <2>1. ASSUME NEW u \in Nodes, IsMember(s, u)
        PROVE  WithinAuthority(u, s.members[u].state, s.members[u].inc)'
    <3>0. s.members[u].inc \in Nat /\ s.inc \in Nat
      BY MaxIncAssumption DEF Replicas, Members, Incarnations
    <3>1. CASE IsMember(rep[n], u) /\ s.members[u].state = rep[n].members[u].state
               /\ s.members[u].inc = rep[n].members[u].inc
      <4>1. WithinAuthority(u, s.members[u].state, s.members[u].inc)
        BY <3>1 DEF AuthorityParts, ViewWithin
      <4>. QED  BY <1>4, <3>0, <4>1, WithinStable
    <3>2. CASE u = n /\ s.members[u].inc = s.inc
      BY <1>1, <3>0, <3>2 DEF WithinAuthority
    <3>3. CASE u = t /\ s.members[u].state = st /\ s.members[u].inc = i
      BY <1>4, <3>3, WithinStable
    <3>. QED  BY <2>1, <3>1, <3>2, <3>3 DEF From
  <2>. QED  BY <2>1 DEF ViewWithin
<1>6. ASSUME NEW u \in Nodes PROVE ViewWithin(rep[u])'
  <2>1. CASE u = n
    BY <1>1, <1>5, <2>1
  <2>2. CASE u # n
    <3>1. rep'[u] = rep[u] /\ rep[u] \in Replicas /\ ViewWithin(rep[u])
      BY <1>1, <1>3, <2>2 DEF AuthorityParts
    <3>2. ASSUME NEW r \in Replicas, r = rep[u] PROVE ViewWithin(r)'
      BY <1>4, <3>1, <3>2, ViewStable
    <3>. QED  BY <3>1, <3>2
  <2>. QED  BY <2>1, <2>2
<1>7. ASSUME NEW u \in Nodes PROVE OfferWithin(offer[u])'
  <2>1. CASE offer'[u] = s.members
    BY <1>5, <2>1 DEF OfferWithin, ViewWithin, IsMember
  <2>2. CASE offer'[u] = offer[u]
    <3>1. offer[u] \in [Nodes -> Members] /\ OfferWithin(offer[u])
      BY DEF TypeOK, AuthorityParts
    <3>2. ASSUME NEW v \in [Nodes -> Members], v = offer[u] PROVE OfferWithin(v)'
      BY <1>4, <3>1, <3>2, OfferStable
    <3>. QED  BY <2>2, <3>1, <3>2
  <2>. QED  BY <2>1, <2>2
<1>8. ASSUME NEW u \in Nodes, NEW m \in sent'[u] PROVE MessageWithin(m)'
  <2>1. CASE m \in sent[u]
    <3>1. m \in Messages /\ MessageWithin(m)
      BY <2>1 DEF TypeOK, AuthorityParts
    <3>. QED  BY <1>4, <3>1, MessageStable
  <2>2. CASE u = n /\ m \in News(n, rep[n], s)
    BY <1>1, <1>5, <2>2, NewsWithin
  <2>3. CASE m \in A
    <3>1. m \in Messages /\ MessageWithin(m)
      BY <2>3
    <3>. QED  BY <1>4, <3>1, MessageStable
  <2>. QED  BY <1>2, <2>1, <2>2, <2>3
<1>. QED  BY <1>6, <1>7, <1>8 DEF AuthorityParts

\* A node that has not joined yet has not refuted anything.
Fresh == \A n \in Nodes : status[n] \in {"out", "invited"} => rep[n].inc = 0

LEMMA FreshStep == TypeOK /\ Fresh /\ [Next]_vars => Fresh'
<1>. SUFFICES ASSUME TypeOK, Fresh, [Next]_vars PROVE Fresh'
  OBVIOUS
<1>1. CASE UNCHANGED vars
  BY <1>1 DEF Fresh, vars
<1>2. ASSUME NEW n \in Nodes, NEW s, NEW A, Become(n, s, A), status[n] = "in", status' = status
      PROVE  Fresh'
  BY <1>2 DEF Fresh, Become, TypeOK
<1>3. ASSUME NEW n \in Nodes, NEW x \in Nodes, Admit(n, x) PROVE Fresh'
  BY <1>3 DEF Fresh, Become, Admit, TypeOK
<1>4. ASSUME NEW x \in Nodes, Adopt(x) PROVE Fresh'
  BY <1>4 DEF Fresh, Adopt, TypeOK
<1>5. ASSUME NEW n \in Nodes, Leave(n) \/ Crash(n) PROVE Fresh'
  BY <1>5 DEF Fresh, Leave, Crash, Retire, TypeOK
<1>6. ASSUME NEW n \in Nodes, NEW t \in Nodes,
             \/ InstallBaseline(n, t) \/ SuspectMember(n, t) \/ DeclareDead(n, t)
             \/ RemoveMember(n, t) \/ ClearTombstone(n, t)
      PROVE  Fresh'
  <2>1. CASE InstallBaseline(n, t)
    BY <1>2, <2>1 DEF InstallBaseline
  <2>2. CASE SuspectMember(n, t)
    BY <1>2, <2>2 DEF SuspectMember
  <2>3. CASE DeclareDead(n, t)
    BY <1>2, <2>3 DEF DeclareDead
  <2>4. CASE RemoveMember(n, t)
    BY <1>2, <2>4 DEF RemoveMember, CanRemove
  <2>5. CASE ClearTombstone(n, t)
    BY <1>2, <2>5 DEF ClearTombstone
  <2>. QED  BY <1>6, <2>1, <2>2, <2>3, <2>4, <2>5
<1>7. ASSUME NEW n \in Nodes, NEW l \in BOOLEAN, SetMembershipLock(n, l) PROVE Fresh'
  BY <1>2, <1>7 DEF SetMembershipLock
<1>8. ASSUME NEW n \in Nodes, DeliverTo(n) PROVE Fresh'
  BY <1>2, <1>8 DEF DeliverTo, Deliver
<1>. QED  BY <1>1, <1>3, <1>4, <1>5, <1>6, <1>7, <1>8 DEF Next

\* Incarnation 0 is within everybody's authority.
LEMMA ZeroWithin ==
    ASSUME TypeOK, NEW t \in Nodes, NEW st
    PROVE  WithinAuthority(t, st, 0)
<1>1. rep[t].inc >= 0
  BY MaxIncAssumption DEF TypeOK, Replicas, Incarnations
<1>. QED  BY <1>1 DEF WithinAuthority

LEMMA IntroductionWithin ==
    ASSUME TypeOK', NEW n \in Nodes, NEW view \in [Nodes -> Members], OfferWithin(view)',
           NEW m \in Introduction(n, view)
    PROVE  MessageWithin(m)'
<1>1. CASE \E u \in Nodes : view[u].state # "Absent" /\ m = MemberDelta(u, view[u])
  <2>1. PICK u \in Nodes : view[u].state # "Absent" /\ m = MemberDelta(u, view[u])
    BY <1>1
  <2>2. m.type = "member" /\ m.id = u /\ m.rec = view[u]
    BY <2>1 DEF MemberDelta
  <2>3. WithinAuthority(u, view[u].state, view[u].inc)'
    BY <2>1 DEF OfferWithin
  <2>. QED  BY <2>2, <2>3 DEF MessageWithin
<1>2. CASE m = Announce("Alive", n, 0)
  <2>1. m.type = "announce" /\ m.kind = "Alive" /\ m.id = n /\ m.inc = 0
    BY <1>2 DEF Announce
  <2>2. rep'[n].inc >= 0
    BY MaxIncAssumption DEF TypeOK, Replicas, Incarnations
  <2>3. WithinAuthority(n, "Alive", 0)'
    BY <2>2 DEF WithinAuthority
  <2>. QED  BY <2>1, <2>3 DEF MessageWithin, Claimed, Effective
<1>. QED  BY <1>1, <1>2 DEF Introduction

LEMMA InitAuthority == Init => AuthorityParts /\ Fresh
<1>. SUFFICES ASSUME Init PROVE AuthorityParts /\ Fresh
  OBVIOUS
<1>0. TypeOK
  BY InitType
<1>1. \A n \in Nodes : rep[n].inc = 0
  BY DEF Init, Bare
<1>2. ASSUME NEW n \in Nodes PROVE ViewWithin(rep[n])
  <2>1. \A t \in Nodes : IsMember(rep[n], t) => rep[n].members[t].inc = 0
    BY DEF Init, Bare, FoundingView, NoMember, IsMember
  <2>. QED  BY <1>0, <2>1, ZeroWithin DEF ViewWithin
<1>3. ASSUME NEW n \in Nodes PROVE OfferWithin(offer[n])
  BY DEF Init, OfferWithin, NoOffer, NoMember
<1>4. ASSUME NEW n \in Nodes, NEW m \in sent[n] PROVE MessageWithin(m)
  <2>1. m \in Introduction(n, FoundingView)
    BY DEF Init
  <2>2. CASE \E u \in Nodes : FoundingView[u].state # "Absent" /\ m = MemberDelta(u, FoundingView[u])
    <3>1. PICK u \in Nodes : FoundingView[u].state # "Absent" /\ m = MemberDelta(u, FoundingView[u])
      BY <2>2
    <3>2. m.type = "member" /\ m.id = u /\ m.rec.inc = 0
      BY <3>1 DEF MemberDelta, FoundingView, NoMember
    <3>. QED  BY <1>0, <3>2, ZeroWithin DEF MessageWithin
  <2>3. CASE m = Announce("Alive", n, 0)
    <3>1. m.type = "announce" /\ m.kind = "Alive" /\ m.id = n /\ m.inc = 0
      BY <2>3 DEF Announce
    <3>. QED  BY <1>0, <3>1, ZeroWithin DEF MessageWithin, Effective
  <2>. QED  BY <2>1, <2>2, <2>3 DEF Introduction
<1>. QED  BY <1>1, <1>2, <1>3, <1>4 DEF AuthorityParts, Fresh

LEMMA AdmitAuthority ==
    ASSUME TypeOK, AuthorityParts, TypeOK', NEW n \in Nodes, NEW x \in Nodes, Admit(n, x)
    PROVE  AuthorityParts'
<1> DEFINE m == [state |-> "Alive", inc |-> 0, ver |-> Initial(n)]
           s == [rep[n] EXCEPT !.members[x] = m]
<1>1. /\ status[n] = "in" /\ status[x] = "out" /\ Become(n, s, {})
      /\ status' = [status EXCEPT ![x] = "invited"] /\ offer' = [offer EXCEPT ![x] = s.members]
  BY DEF Admit
<1>2. m \in Members /\ m.state = "Alive" /\ m.inc = 0
  BY ConstantTypes, MaxIncAssumption DEF Members, Incarnations
<1>3. rep[n] \in Replicas
  BY DEF TypeOK
<1> HIDE DEF m
<1>4. s \in Replicas /\ s.inc = rep[n].inc /\ s.members[x] = m
      /\ \A u \in Nodes : u # x => s.members[u] = rep[n].members[u]
  BY <1>2, <1>3 DEF Replicas
<1> HIDE DEF s
<1>5. From(n, rep[n], s, x, "Alive", 0)
  <2>1. x # n
    BY <1>1
  <2>. QED  BY <1>2, <1>3, <1>4, <2>1, FromUpdate
<1>6. \A u \in Nodes : offer'[u] = offer[u] \/ offer'[u] = s.members
  BY <1>1 DEF TypeOK
<1>7. \A u \in Nodes : status[u] = "left" => status'[u] = "left"
  BY <1>1 DEF TypeOK
<1>8. WithinAuthority(x, "Alive", 0)
  BY ZeroWithin
<1>. QED  BY <1>1, <1>4, <1>5, <1>6, <1>7, <1>8, BecomeAuthority

\* A step of one node on a claim within authority, all else unchanged.
LEMMA StepAuthority ==
    ASSUME TypeOK, AuthorityParts, TypeOK', NEW n \in Nodes, status[n] = "in",
           NEW s \in Replicas, NEW A \in SUBSET Messages, Become(n, s, A),
           UNCHANGED <<status, offer>>,
           NEW t \in Nodes, NEW st, NEW i \in Nat, WithinAuthority(t, st, i),
           From(n, rep[n], s, t, st, i),
           \A m \in A : MessageWithin(m)
    PROVE  AuthorityParts'
<1>1. /\ \A u \in Nodes : status[u] = "left" => status'[u] = "left"
      /\ \A u \in Nodes : offer'[u] = offer[u] \/ offer'[u] = s.members
  OBVIOUS
<1>2. status[n] # "left"
  OBVIOUS
<1>. QED  BY <1>1, <1>2, BecomeAuthority

LEMMA InstallBaselineAuthority ==
    ASSUME TypeOK, AuthorityParts, TypeOK', NEW n \in Nodes, NEW src \in Nodes,
           InstallBaseline(n, src)
    PROVE  AuthorityParts'
<1> DEFINE Taken == {t \in Nodes : /\ rep[src].tombs[t] # NoTombstone
                                   /\ \/ rep[n].tombs[t] = NoTombstone
                                      \/ Precedes(rep[n].tombs[t].ver, rep[src].tombs[t].ver)}
           q == MergePolicy(rep[n], rep[src].policy)
           s == [q EXCEPT
                   !.tombs = [t \in Nodes |-> IF t \in Taken THEN rep[src].tombs[t] ELSE rep[n].tombs[t]],
                   !.members = Without(@, Taken),
                   !.susp = [t \in Nodes |-> IF t \in Taken THEN NoDeadline ELSE @[t]]]
<1>1. status[n] = "in" /\ Become(n, s, {}) /\ UNCHANGED <<status, offer>>
  BY DEF InstallBaseline
<1>2. rep[n] \in Replicas /\ rep[src] \in Replicas
  BY DEF TypeOK
<1>3. q \in Replicas
  BY <1>2, MergePolicyType DEF Replicas
<1>4. q.members = rep[n].members /\ q.inc = rep[n].inc
  BY <1>2 DEF MergePolicy, Replicas
<1>5. Taken \in SUBSET Nodes
  OBVIOUS
<1> HIDE DEF Taken
<1>6. s \in Replicas
  BY <1>2, <1>5, BaselineType, Zenon
<1> HIDE DEF q
<1>7. s.inc = rep[n].inc /\ \A u \in Nodes : \/ s.members[u] = rep[n].members[u]
                                             \/ s.members[u] = NoMember
  BY <1>3, <1>4 DEF Replicas, Without
<1> HIDE DEF s
<1>8. From(n, rep[n], s, n, "Alive", 0)
  <2>1. s.inc >= rep[n].inc
    BY <1>2, <1>7, MaxIncAssumption DEF Replicas, Incarnations
  <2>. QED  BY <1>7, <2>1 DEF From, IsMember, NoMember
<1>9. WithinAuthority(n, "Alive", 0)
  BY ZeroWithin
<1>. QED  BY <1>1, <1>6, <1>8, <1>9, StepAuthority

LEMMA SuspectMemberAuthority ==
    ASSUME TypeOK, AuthorityParts, TypeOK', NEW n \in Nodes, NEW t \in Nodes, SuspectMember(n, t)
    PROVE  AuthorityParts'
<1> DEFINE i == rep[n].members[t].inc
           s == Suspect(n, rep[n], t, i)
           c == ApplyAnnouncement(n, rep[n], n, "Suspect", t, i)
           A == {Announce("Suspect", t, i)}
<1>1. /\ status[n] = "in" /\ rep[n].members[t].state = "Alive"
      /\ Become(n, s, A) /\ UNCHANGED <<status, offer>>
  BY DEF SuspectMember
<1>2. rep[n] \in Replicas /\ i \in Incarnations /\ i \in Nat
  BY MaxIncAssumption DEF TypeOK, Replicas, Members, Incarnations
<1>3. WithinAuthority(t, "Suspected", i)
  BY <1>1 DEF AuthorityParts, ViewWithin, WithinAuthority, IsMember
<1>4. s \in Replicas /\ c \in Replicas
  BY <1>2, SuspectType, AnnouncementType
<1>5. From(n, rep[n], c, t, "Suspected", i)
  BY <1>2, AnnouncementFrom DEF Claimed, Effective
<1>6. s.inc = c.inc /\ s.members = c.members
  <2> HIDE DEF i
  <2>1. s = c \/ s = [c EXCEPT !.susp[t] = i]
    BY DEF Suspect
  <2> HIDE DEF s, c
  <2>. QED  BY <1>4, <2>1 DEF Replicas
<1>7. A \in SUBSET Messages /\ \A m \in A : MessageWithin(m)
  <2>1. Announce("Suspect", t, i) \in Messages
    BY <1>2, MessageTypes DEF Kinds
  <2>2. MessageWithin(Announce("Suspect", t, i))
    BY <1>3 DEF MessageWithin, Announce, Claimed, Effective
  <2>. QED  BY <2>1, <2>2
<1> HIDE DEF i, s, c, A
<1>8. From(n, rep[n], s, t, "Suspected", i)
  BY <1>5, <1>6 DEF From, IsMember
<1>. QED  BY <1>1, <1>2, <1>3, <1>4, <1>7, <1>8, StepAuthority

LEMMA DeclareDeadAuthority ==
    ASSUME TypeOK, AuthorityParts, Healthy, TypeOK', NEW n \in Nodes, NEW t \in Nodes,
           DeclareDead(n, t)
    PROVE  AuthorityParts'
<1> DEFINE i == rep[n].susp[t]
           r == [rep[n] EXCEPT !.susp[t] = NoDeadline]
           s == ExpireSuspicion(n, rep[n], t)
           A == {Announce("Dead", t, i) : x \in {y \in {1} : Adopts(n, rep[n], n, "Dead", t, i)}}
<1>1. status[n] = "in" /\ i # NoDeadline /\ Become(n, s, A) /\ UNCHANGED <<status, offer>>
  BY DEF DeclareDead
<1>2. rep[n] \in Replicas /\ r \in Replicas
  <2>1. rep[n] \in Replicas
    BY DEF TypeOK
  <2>. QED  BY <2>1 DEF Replicas
<1>3. i \in Incarnations /\ i \in Nat /\ rep[n].members[t].inc \in Nat /\ rep[t].inc \in Nat
  BY <1>1, MaxIncAssumption DEF TypeOK, Replicas, Members, Incarnations
<1>4. WithinAuthority(t, "Dead", i)
  <2>1. rep[n].members[t].state = "Suspected" /\ rep[n].members[t].inc >= i
    BY <1>1 DEF Healthy, Sound, SoundAt
  <2>2. rep[n].members[t].inc <= rep[t].inc
    BY <2>1 DEF AuthorityParts, ViewWithin, WithinAuthority, IsMember
  <2>. QED  BY <1>3, <2>1, <2>2 DEF WithinAuthority
<1>5. s \in Replicas
  BY <1>1, <1>2, ExpireSuspicionType
<1>6. From(n, r, s, t, "Dead", i)
  BY <1>2, <1>3, AnnouncementFrom DEF ExpireSuspicion, Claimed, Effective
<1>7. r.inc = rep[n].inc /\ r.members = rep[n].members
  BY <1>2 DEF Replicas
<1>8. A \in SUBSET Messages /\ \A m \in A : MessageWithin(m)
  <2>1. Announce("Dead", t, i) \in Messages
    BY <1>3, MessageTypes DEF Kinds
  <2>2. MessageWithin(Announce("Dead", t, i))
    BY <1>4 DEF MessageWithin, Announce, Claimed, Effective
  <2>. QED  BY <2>1, <2>2
<1> HIDE DEF i, r, s, A
<1>9. From(n, rep[n], s, t, "Dead", i)
  BY <1>6, <1>7 DEF From, IsMember
<1>. QED  BY <1>1, <1>3, <1>4, <1>5, <1>8, <1>9, StepAuthority

LEMMA DeliverAuthority ==
    ASSUME TypeOK, AuthorityParts, TypeOK', NEW n \in Nodes, NEW f \in Nodes, NEW m \in sent[f],
           Deliver(n, f, m)
    PROVE  AuthorityParts'
<1> DEFINE s == Receive(n, f, m)
<1>1. status[n] = "in" /\ Become(n, s, {}) /\ UNCHANGED <<status, offer>>
  BY DEF Deliver
<1>2. rep[n] \in Replicas /\ m \in Messages /\ MessageWithin(m)
  BY DEF TypeOK, AuthorityParts
<1>3. s \in Replicas
  BY <1>2, ReceiveType
<1>4. CASE m.type = "member" /\ m.id \in Nodes /\ m.rec \in Members
  <2>1. From(n, rep[n], s, m.id, m.rec.state, m.rec.inc)
    BY <1>2, <1>4, MergeMemberFrom DEF Receive
  <2>2. WithinAuthority(m.id, m.rec.state, m.rec.inc) /\ m.rec.inc \in Nat
    BY <1>2, <1>4, MaxIncAssumption DEF MessageWithin, Members, Incarnations
  <2> HIDE DEF s
  <2>. QED  BY <1>1, <1>3, <1>4, <2>1, <2>2, StepAuthority
<1>5. CASE m.type = "announce" /\ m.id \in Nodes /\ m.inc \in Incarnations
  <2>1. From(n, rep[n], s, m.id, Claimed(m.kind), Effective(m.kind, m.inc))
    BY <1>2, <1>5, AnnouncementFrom DEF Receive
  <2>2. Effective(m.kind, m.inc) \in Nat
    BY <1>5, MaxIncAssumption DEF Effective, Incarnations
  <2>3. WithinAuthority(m.id, Claimed(m.kind), Effective(m.kind, m.inc))
    BY <1>2, <1>5 DEF MessageWithin
  <2> HIDE DEF s
  <2>. QED  BY <1>1, <1>3, <1>5, <2>1, <2>2, <2>3, StepAuthority
<1>6. CASE \/ m.type = "tombstone" /\ m.id \in Nodes
           \/ m.type = "policy"
  <2>1. \E t \in Nodes : From(n, rep[n], s, t, "Alive", 0)
    BY <1>2, <1>6, MergeTombstoneFrom, MergePolicyFrom DEF Receive
  <2>2. PICK t \in Nodes : From(n, rep[n], s, t, "Alive", 0)
    BY <2>1
  <2>3. WithinAuthority(t, "Alive", 0)
    BY ZeroWithin
  <2> HIDE DEF s
  <2>. QED  BY <1>1, <1>3, <2>2, <2>3, StepAuthority
<1>. QED  BY <1>2, <1>4, <1>5, <1>6, MessageCases

LEMMA OperatorAuthority ==
    ASSUME TypeOK, AuthorityParts, TypeOK', NEW n \in Nodes, NEW t \in Nodes,
           \/ RemoveMember(n, t)
           \/ ClearTombstone(n, t)
           \/ \E locked \in BOOLEAN : SetMembershipLock(n, locked)
    PROVE  AuthorityParts'
<1>0. rep[n] \in Replicas /\ rep'[n] \in Replicas
  BY DEF TypeOK
<1>1. ASSUME NEW s, s \in Replicas, Become(n, s, {}), status[n] = "in",
             UNCHANGED <<status, offer>>, From(n, rep[n], s, t, "Alive", 0)
      PROVE  AuthorityParts'
  <2>1. WithinAuthority(t, "Alive", 0)
    BY ZeroWithin
  <2>. QED  BY <1>1, <2>1, StepAuthority
<1>2. ASSUME NEW s, Become(n, s, {}) PROVE s \in Replicas
  <2>1. rep'[n] = s
    BY <1>2 DEF Become, TypeOK
  <2>. QED  BY <1>0, <2>1
<1>3. CASE RemoveMember(n, t)
  <2>1. /\ status[n] = "in" /\ Become(n, Removed(n, t), {}) /\ UNCHANGED <<status, offer>>
    BY <1>3 DEF RemoveMember, CanRemove
  <2>2. From(n, rep[n], Removed(n, t), t, "Alive", 0)
    BY <1>0, MergeTombstoneFrom DEF Removed
  <2>. QED  BY <1>1, <1>2, <2>1, <2>2
<1>4. CASE ClearTombstone(n, t)
  <2> DEFINE b == [state |-> "Cleared", ver |-> Successor(rep[n].tombs[t].ver, n)]
             s == [rep[n] EXCEPT !.tombs[t] = b]
  <2>1. status[n] = "in" /\ Become(n, s, {}) /\ UNCHANGED <<status, offer>>
    BY <1>4 DEF ClearTombstone
  <2> HIDE DEF b
  <2>2. s.members = rep[n].members /\ s.inc = rep[n].inc
    BY <1>0 DEF Replicas
  <2> HIDE DEF s
  <2>3. From(n, rep[n], s, t, "Alive", 0)
    BY <1>0, <2>2, FromUpdate DEF IsMember
  <2>. QED  BY <1>1, <1>2, <2>1, <2>3
<1>5. CASE \E locked \in BOOLEAN : SetMembershipLock(n, locked)
  <2>1. PICK p : /\ status[n] = "in" /\ Become(n, MergePolicy(rep[n], p), {})
                 /\ UNCHANGED <<status, offer>>
    BY <1>5 DEF SetMembershipLock
  <2>2. From(n, rep[n], MergePolicy(rep[n], p), t, "Alive", 0)
    BY <1>0, MergePolicyFrom
  <2>. QED  BY <1>1, <1>2, <2>1, <2>2
<1>. QED  BY <1>3, <1>4, <1>5

\* A step that is no Become: the claims left over are old ones, and the new
\* ones are within authority.
LEMMA ReplaceAuthority ==
    ASSUME TypeOK, AuthorityParts, TypeOK', Monotone,
           \A u \in Nodes : rep'[u] # rep[u] => ViewWithin(rep[u])',
           \A u \in Nodes : offer'[u] # offer[u] => OfferWithin(offer[u])',
           \A u \in Nodes : \A m \in sent'[u] : m \in sent[u] \/ MessageWithin(m)'
    PROVE  AuthorityParts'
<1>1. ASSUME NEW u \in Nodes PROVE ViewWithin(rep[u])'
  <2>1. rep[u] \in Replicas /\ ViewWithin(rep[u])
    BY DEF TypeOK, AuthorityParts
  <2>2. ASSUME NEW r \in Replicas, r = rep[u] PROVE ViewWithin(r)'
    BY <2>1, <2>2, ViewStable
  <2>. QED  BY <2>1, <2>2
<1>2. ASSUME NEW u \in Nodes PROVE OfferWithin(offer[u])'
  <2>1. offer[u] \in [Nodes -> Members] /\ OfferWithin(offer[u])
    BY DEF TypeOK, AuthorityParts
  <2>2. ASSUME NEW v \in [Nodes -> Members], v = offer[u] PROVE OfferWithin(v)'
    BY <2>1, <2>2, OfferStable
  <2>. QED  BY <2>1, <2>2
<1>3. ASSUME NEW u \in Nodes, NEW m \in sent'[u] PROVE MessageWithin(m)'
  <2>1. CASE m \in sent[u]
    <3>1. m \in Messages /\ MessageWithin(m)
      BY <2>1 DEF TypeOK, AuthorityParts
    <3>. QED  BY <3>1, MessageStable
  <2>. QED  BY <2>1
<1>. QED  BY <1>1, <1>2, <1>3 DEF AuthorityParts

LEMMA DepartureAuthority ==
    ASSUME TypeOK, AuthorityParts, TypeOK', NEW n \in Nodes, Leave(n) \/ Crash(n)
    PROVE  AuthorityParts'
<1>0. rep[n].inc \in Incarnations /\ \A u \in Nodes : rep[u].inc \in Nat
  BY MaxIncAssumption DEF TypeOK, Replicas, Incarnations
<1>1. /\ status[n] = "in" /\ offer' = offer
      /\ \A u \in Nodes : u # n => rep'[u] = rep[u] /\ status'[u] = status[u]
      /\ rep'[n] = Bare(rep[n].inc)
  BY DEF Leave, Crash, Retire, TypeOK
<1>2. rep'[n].inc = rep[n].inc /\ \A t \in Nodes : ~IsMember(rep'[n], t)
  BY <1>1 DEF Bare, IsMember, NoMember
<1>3. Monotone
  BY <1>0, <1>1, <1>2 DEF Monotone
<1>4. \A u \in Nodes : rep'[u] # rep[u] => ViewWithin(rep[u])'
  BY <1>1, <1>2 DEF ViewWithin
<1>5. ASSUME NEW u \in Nodes, NEW m \in sent'[u] PROVE m \in sent[u] \/ MessageWithin(m)'
  <2>1. CASE Crash(n)
    BY <1>5, <2>1 DEF Crash
  <2>2. CASE Leave(n) /\ m \notin sent[u]
    <3>1. m = Announce("Leave", n, rep[n].inc) /\ status'[n] = "left"
      BY <2>2, <1>5 DEF Leave, Retire, TypeOK
    <3>2. m.type = "announce" /\ m.kind = "Leave" /\ m.id = n /\ m.inc = rep[n].inc
      BY <3>1 DEF Announce
    <3>3. \/ Effective("Leave", rep[n].inc) = rep[n].inc
          \/ Effective("Leave", rep[n].inc) = rep[n].inc + 1
      BY DEF Effective
    <3>4. WithinAuthority(n, "Dead", Effective("Leave", rep[n].inc))'
      BY <1>0, <1>2, <3>1, <3>3 DEF WithinAuthority, Effective
    <3>5. Claimed("Leave") = "Dead"
      BY DEF Claimed
    <3>. QED  BY <1>2, <3>2, <3>4, <3>5 DEF MessageWithin
  <2>. QED  BY <2>1, <2>2
<1>6. \A u \in Nodes : offer'[u] = offer[u]
  BY <1>1
<1>. QED  BY <1>3, <1>4, <1>5, <1>6, ReplaceAuthority

LEMMA AdoptAuthority ==
    ASSUME TypeOK, AuthorityParts, Fresh, TypeOK', NEW x \in Nodes, Adopt(x)
    PROVE  AuthorityParts'
<1> DEFINE view == offer[x]
<1>0. view \in [Nodes -> Members] /\ OfferWithin(view) /\ \A u \in Nodes : rep[u].inc \in Nat
  BY MaxIncAssumption DEF TypeOK, AuthorityParts, Replicas, Incarnations
<1>1. /\ status[x] = "invited" /\ rep[x].inc = 0
      /\ \A u \in Nodes : u # x => /\ rep'[u] = rep[u] /\ status'[u] = status[u]
                                   /\ sent'[u] = sent[u] /\ offer'[u] = offer[u]
      /\ rep'[x] = [Bare(0) EXCEPT !.members = view]
      /\ sent'[x] = Introduction(x, view)
      /\ offer'[x] = NoOffer
  BY DEF Adopt, TypeOK, Fresh
<1>2. rep'[x].inc = 0 /\ rep'[x].members = view
  BY <1>1 DEF Bare
<1>3. Monotone
  <2>1. rep'[x].inc >= rep[x].inc /\ status[x] # "left"
    BY <1>1, <1>2
  <2>2. ASSUME NEW u \in Nodes, u # x
        PROVE  /\ rep'[u].inc >= rep[u].inc
               /\ status[u] = "left" => status'[u] = "left" /\ rep'[u].inc = rep[u].inc
    <3>1. rep'[u] = rep[u] /\ status'[u] = status[u]
      BY <1>1, <2>2
    <3>2. rep[u].inc \in Nat
      BY <1>0
    <3>. QED  BY <3>1, <3>2
  <2>. QED  BY <2>1, <2>2 DEF Monotone
<1>4. ASSUME NEW v \in [Nodes -> Members], v = view PROVE OfferWithin(v)'
  BY <1>0, <1>3, <1>4, OfferStable
<1>5. ASSUME NEW u \in Nodes, rep'[u] # rep[u] PROVE ViewWithin(rep[u])'
  <2>1. u = x
    BY <1>1, <1>5
  <2>2. ASSUME NEW v \in [Nodes -> Members], v = view PROVE ViewWithin(rep[x])'
    <3>1. rep'[x].members = v
      BY <1>2, <2>2
    <3>. QED  BY <1>4, <2>2, <3>1 DEF OfferWithin, ViewWithin, IsMember
  <2>. QED  BY <1>0, <2>1, <2>2
<1>6. ASSUME NEW u \in Nodes, offer'[u] # offer[u] PROVE OfferWithin(offer[u])'
  <2>1. offer'[u] = NoOffer
    BY <1>1, <1>6
  <2>. QED  BY <2>1 DEF OfferWithin, NoOffer, NoMember
<1>7. ASSUME NEW u \in Nodes, NEW m \in sent'[u] PROVE m \in sent[u] \/ MessageWithin(m)'
  <2>1. CASE u # x
    BY <1>1, <1>7, <2>1
  <2>2. CASE u = x
    <3>1. ASSUME NEW v \in [Nodes -> Members], v = view PROVE MessageWithin(m)'
      <4>1. m \in Introduction(x, v)
        BY <1>1, <1>7, <2>2, <3>1
      <4>. QED  BY <1>4, <3>1, <4>1, IntroductionWithin
    <3>. QED  BY <1>0, <3>1
  <2>. QED  BY <2>1, <2>2
<1>. QED  BY <1>3, <1>5, <1>6, <1>7, ReplaceAuthority

LEMMA NextAuthority ==
    TypeOK /\ Healthy /\ AuthorityParts /\ Fresh /\ [Next]_vars => AuthorityParts'
<1>. SUFFICES ASSUME TypeOK, Healthy, AuthorityParts, Fresh, [Next]_vars
              PROVE  AuthorityParts'
  OBVIOUS
<1>0. TypeOK'
  BY NextType
<1>1. CASE UNCHANGED vars
  BY <1>1 DEF vars, AuthorityParts, ViewWithin, OfferWithin, MessageWithin, WithinAuthority
<1>2. ASSUME NEW n \in Nodes, DeliverTo(n) PROVE AuthorityParts'
  BY <1>0, <1>2, DeliverAuthority DEF DeliverTo
<1>3. ASSUME NEW n \in Nodes, \E locked \in BOOLEAN : SetMembershipLock(n, locked)
      PROVE  AuthorityParts'
  BY <1>0, <1>3, OperatorAuthority
<1>. QED
  BY <1>0, <1>1, <1>2, <1>3, AdmitAuthority, AdoptAuthority, InstallBaselineAuthority,
     SuspectMemberAuthority, DeclareDeadAuthority, DepartureAuthority, OperatorAuthority
     DEF Next

\* For any nodes, limits and loss or reordering of messages: no view, message
\* or snapshot names an incarnation its subject has not reached, except the
\* departure it declared itself (IncarnationAuthority).
THEOREM OnlySubjectRaisesIncarnation == Spec => []IncarnationAuthority
<1>1. Init => TypeOK /\ Healthy /\ AuthorityParts /\ Fresh
  BY InitType, InitHealthy, InitAuthority
<1>2. TypeOK /\ Healthy /\ AuthorityParts /\ Fresh /\ [Next]_vars
         => (TypeOK /\ Healthy /\ AuthorityParts /\ Fresh)'
  BY NextType, NextHealthy, NextAuthority, FreshStep
<1>3. AuthorityParts => IncarnationAuthority
  BY AuthorityIsParts
<1>. QED  BY <1>1, <1>2, <1>3, PTL DEF Spec

-----------------------------------------------------------------------------
(* What a replica keeps: deaths, tombstones, deadlines.                    *)

\* A dead member stays dead at its incarnation until another tombstone takes it.
EndsAt(r, s, u) ==
    r.members[u].state = "Dead" =>
       \/ s.members[u] = NoMember /\ s.tombs[u] # r.tombs[u]
       \/ s.members[u].state = "Dead" /\ s.members[u].inc = r.members[u].inc

\* Across an update from r to s the dead stay dead, tombstones are not forgotten and no
\* deadline appears.
LastsAt(r, s, u) ==
    /\ EndsAt(r, s, u)
    /\ s.tombs[u] = r.tombs[u] \/ s.tombs[u].state # "None"
    /\ s.susp[u] = r.susp[u] \/ s.susp[u] = NoDeadline

Lasts(r, s) == \A u \in Nodes : LastsAt(r, s, u)

LEMMA SameLasts ==
    ASSUME NEW r, NEW s, NEW u,
           s.members[u] = r.members[u], s.tombs[u] = r.tombs[u], s.susp[u] = r.susp[u]
    PROVE  LastsAt(r, s, u)
BY DEF LastsAt, EndsAt

\* An update of one entry.
LEMMA UpdateLasts ==
    ASSUME NEW r, NEW s, NEW t \in Nodes,
           \A u \in Nodes : u # t => /\ s.members[u] = r.members[u]
                                    /\ s.susp[u] = r.susp[u]
                                    /\ s.tombs[u] = r.tombs[u],
           LastsAt(r, s, t)
    PROVE  Lasts(r, s)
BY SameLasts DEF Lasts

LEMMA RefuteLasts ==
    ASSUME NEW self \in Nodes, NEW r \in Replicas, NEW i, r.members[self].state # "Dead"
    PROVE  Lasts(r, Refute(self, r, i))
<1> DEFINE s == Refute(self, r, i)
<1>1. s.tombs = r.tombs /\ s.susp = r.susp
  BY DEF Refute, Replicas
<1>2. \A t \in Nodes : t # self => s.members[t] = r.members[t]
  BY DEF Refute, Replicas
<1> HIDE DEF s
<1>3. LastsAt(r, s, self)
  BY <1>1 DEF LastsAt, EndsAt
<1>4. Lasts(r, s)
  BY <1>1, <1>2, <1>3, UpdateLasts
<1>. QED  BY <1>4 DEF s

LEMMA ChallengeLasts ==
    ASSUME NEW self \in Nodes, NEW r \in Replicas, NEW st, NEW i, r.members[self].state # "Dead"
    PROVE  Lasts(r, Challenge(self, r, st, i))
BY RefuteLasts, SameLasts DEF Challenge, Lasts

LEMMA MergeMemberLasts ==
    ASSUME NEW self \in Nodes, NEW r \in Replicas, NEW t \in Nodes, NEW m \in Members,
           r.members[self].state # "Dead"
    PROVE  Lasts(r, MergeMember(self, r, t, m))
<1>0. Lasts(r, r)
  BY SameLasts DEF Lasts
<1>1. CASE IsTombstoned(r, t)
  BY <1>0, <1>1 DEF MergeMember
<1>2. CASE ~IsTombstoned(r, t) /\ t = self
  BY <1>2, ChallengeLasts DEF MergeMember
<1>3. CASE ~IsTombstoned(r, t) /\ t # self /\ ~IsMember(r, t)
  <2> DEFINE s == [r EXCEPT !.members[t] = m]
  <2>1. /\ s.members[t] = m /\ s.susp = r.susp /\ s.tombs = r.tombs
        /\ \A u \in Nodes : u # t => s.members[u] = r.members[u]
    BY DEF Replicas
  <2> HIDE DEF s
  <2>2. LastsAt(r, s, t)
    BY <1>3, <2>1 DEF LastsAt, EndsAt, IsMember
  <2>3. Lasts(r, s)
    BY <2>1, <2>2, UpdateLasts
  <2>. QED  BY <1>0, <1>3, <2>3 DEF MergeMember, s
<1>4. CASE ~IsTombstoned(r, t) /\ t # self /\ IsMember(r, t)
  <2> DEFINE c == Merged(r.members[t], m)
             d == Deadline(r.members[t], m, r.susp[t])
  <2>1. r.members[t].state = "Dead" => c.state = "Dead" /\ c.inc = r.members[t].inc
    BY DEF Merged, Wins, SwimSupersedes
  <2>2. d = r.susp[t] \/ d = NoDeadline
    BY DEF Deadline
  <2>3. MergeMember(self, r, t, m) = [r EXCEPT !.members[t] = c, !.susp[t] = d]
    BY <1>4 DEF MergeMember
  <2> HIDE DEF c, d
  <2> DEFINE s == [r EXCEPT !.members[t] = c, !.susp[t] = d]
  <2>4. /\ s.members[t] = c /\ s.susp[t] = d /\ s.tombs = r.tombs
        /\ \A u \in Nodes : u # t => s.members[u] = r.members[u] /\ s.susp[u] = r.susp[u]
    BY DEF Replicas
  <2> HIDE DEF s
  <2>5. LastsAt(r, s, t)
    BY <2>1, <2>2, <2>4 DEF LastsAt, EndsAt
  <2>6. Lasts(r, s)
    BY <2>4, <2>5, UpdateLasts
  <2>. QED  BY <2>3, <2>6 DEF s
<1>. QED  BY <1>1, <1>2, <1>3, <1>4

LEMMA MergeTombstoneLasts ==
    ASSUME NEW r \in Replicas, NEW t \in Nodes, NEW b \in Tombstones, b.state # "None"
    PROVE  Lasts(r, MergeTombstone(r, t, b))
<1> DEFINE s == [r EXCEPT !.tombs[t] = b, !.members[t] = NoMember, !.susp[t] = NoDeadline]
<1>0. Lasts(r, r)
  BY SameLasts DEF Lasts
<1>1. /\ s.members[t] = NoMember /\ s.susp[t] = NoDeadline /\ s.tombs[t] = b
      /\ \A u \in Nodes : u # t => /\ s.members[u] = r.members[u]
                                   /\ s.susp[u] = r.susp[u]
                                   /\ s.tombs[u] = r.tombs[u]
  BY DEF Replicas
<1>2. \/ MergeTombstone(r, t, b) = r
      \/ MergeTombstone(r, t, b) = s /\ (r.tombs[t].state = "None" \/ Precedes(r.tombs[t].ver, b.ver))
  BY DEF MergeTombstone
<1> HIDE DEF s
<1>3. r.tombs[t].state = "None" \/ Precedes(r.tombs[t].ver, b.ver) => b # r.tombs[t]
  <2>1. b.ver \in Versions
    BY DEF Tombstones
  <2>2. b.ver.counter \in Int /\ b.ver.actor \in Int
    <3>1. Nodes \cup {0} \subseteq Int /\ 0..MaxCounter \subseteq Int
      BY MaxCounterAssumption, NodesAssumption
    <3>2. b.ver.counter \in 0..MaxCounter /\ b.ver.actor \in Nodes \cup {0}
      BY <2>1 DEF Versions
    <3>. QED  BY <3>1, <3>2
  <2>3. ~Precedes(b.ver, b.ver)
    BY <2>2 DEF Precedes
  <2>. QED  BY <2>3
<1>4. ASSUME MergeTombstone(r, t, b) = s, b # r.tombs[t] PROVE Lasts(r, s)
  <2>1. LastsAt(r, s, t)
    BY <1>1, <1>4 DEF LastsAt, EndsAt
  <2>. QED  BY <1>1, <2>1, UpdateLasts
<1>. QED  BY <1>0, <1>2, <1>3, <1>4

LEMMA MergePolicyLasts ==
    ASSUME NEW r \in Replicas, NEW p
    PROVE  Lasts(r, MergePolicy(r, p))
<1> DEFINE s == MergePolicy(r, p)
<1>1. s.members = r.members /\ s.susp = r.susp /\ s.tombs = r.tombs
  BY DEF MergePolicy, Replicas
<1> HIDE DEF s
<1>2. Lasts(r, s)
  BY <1>1, SameLasts DEF Lasts
<1>. QED  BY <1>2 DEF s

LEMMA AnnouncementLasts ==
    ASSUME NEW self \in Nodes, NEW r \in Replicas, NEW from, NEW kind, NEW t \in Nodes,
           NEW i \in Incarnations, r.members[self].state # "Dead"
    PROVE  Lasts(r, ApplyAnnouncement(self, r, from, kind, t, i))
<1> DEFINE s == ApplyAnnouncement(self, r, from, kind, t, i)
<1>0. Lasts(r, r)
  BY SameLasts DEF Lasts
<1>1. CASE t = self
  BY <1>0, <1>1, ChallengeLasts DEF ApplyAnnouncement
<1>2. CASE t # self /\ ~Adopts(self, r, from, kind, t, i)
  BY <1>0, <1>2 DEF ApplyAnnouncement
<1>3. CASE Adopts(self, r, from, kind, t, i)
  <2>1. r.members[t].state # "Dead"
    BY <1>3 DEF Adopts, SwimSupersedes
  <2>2. /\ s.susp[t] = IF Claimed(kind) # "Suspected" THEN NoDeadline ELSE r.susp[t]
        /\ s.tombs = r.tombs
        /\ \A u \in Nodes : u # t => s.members[u] = r.members[u] /\ s.susp[u] = r.susp[u]
    BY <1>3, AdoptedAnnouncement
  <2> HIDE DEF s
  <2>3. LastsAt(r, s, t)
    BY <2>1, <2>2 DEF LastsAt, EndsAt
  <2>4. Lasts(r, s)
    BY <2>2, <2>3, UpdateLasts
  <2>. QED  BY <2>4 DEF s
<1>. QED  BY <1>1, <1>2, <1>3

LEMMA ExpireSuspicionLasts ==
    ASSUME NEW self \in Nodes, NEW r \in Replicas, NEW t \in Nodes, r.susp[t] # NoDeadline,
           r.members[self].state # "Dead"
    PROVE  Lasts(r, ExpireSuspicion(self, r, t))
<1> DEFINE q == [r EXCEPT !.susp[t] = NoDeadline]
           s == ExpireSuspicion(self, r, t)
<1>1. q \in Replicas /\ r.susp[t] \in Incarnations
  BY DEF Replicas
<1>2. /\ q.members = r.members /\ q.tombs = r.tombs /\ q.susp[t] = NoDeadline
      /\ \A u \in Nodes : u # t => q.susp[u] = r.susp[u]
  BY DEF Replicas
<1> HIDE DEF q
<1>3. Lasts(q, s)
  BY <1>1, <1>2, AnnouncementLasts DEF ExpireSuspicion, q
<1> HIDE DEF s
<1>4. ASSUME NEW u \in Nodes PROVE LastsAt(r, s, u)
  BY <1>2, <1>3 DEF Lasts, LastsAt, EndsAt
<1>. QED  BY <1>4 DEF Lasts, s

LEMMA BaselineLasts ==
    ASSUME NEW r \in Replicas, NEW b \in Replicas, NEW T \in SUBSET Nodes,
           \A t \in T : b.tombs[t].state # "None" /\ b.tombs[t] # r.tombs[t], NEW s,
           s = [MergePolicy(r, b.policy) EXCEPT
                  !.tombs = [t \in Nodes |-> IF t \in T THEN b.tombs[t] ELSE r.tombs[t]],
                  !.members = Without(@, T),
                  !.susp = [t \in Nodes |-> IF t \in T THEN NoDeadline ELSE @[t]]]
    PROVE  Lasts(r, s)
<1> DEFINE q == MergePolicy(r, b.policy)
<1>1. q \in Replicas
  BY MergePolicyType DEF Replicas
<1>2. q.members = r.members /\ q.susp = r.susp
  BY DEF MergePolicy, Replicas
<1> HIDE DEF q
<1>3. ASSUME NEW t \in Nodes
      PROVE  /\ s.members[t] = IF t \in T THEN NoMember ELSE r.members[t]
             /\ s.susp[t] = IF t \in T THEN NoDeadline ELSE r.susp[t]
             /\ s.tombs[t] = IF t \in T THEN b.tombs[t] ELSE r.tombs[t]
  BY <1>1, <1>2 DEF q, Replicas, Without
<1>4. ASSUME NEW t \in T PROVE LastsAt(r, s, t)
  BY <1>3 DEF LastsAt, EndsAt
<1>5. ASSUME NEW t \in Nodes \ T PROVE LastsAt(r, s, t)
  BY <1>3, SameLasts
<1>. QED  BY <1>4, <1>5 DEF Lasts

-----------------------------------------------------------------------------
(* Where failures come from, and that death is terminal.                   *)

\* A claim a message makes about a member's liveness.
MessageOrigin(m) ==
    /\ m.type = "member" => HasOrigin(m.id, m.rec.state, m.rec.inc)
    /\ m.type = "announce" => HasOrigin(m.id, Claimed(m.kind), Effective(m.kind, m.inc))

\* A suspicion that was announced.
Suspicion(t, i) == \E o \in Nodes : Announce("Suspect", t, i) \in sent[o]

\* The last part makes it inductive: the death a deadline declares is at the
\* incarnation the deadline was armed for.
ViewOrigin(r) ==
    \A t \in Nodes :
       /\ IsMember(r, t) => HasOrigin(t, r.members[t].state, r.members[t].inc)
       /\ r.susp[t] # NoDeadline => Suspicion(t, r.susp[t])

OfferOrigin(view) ==
    \A t \in Nodes : view[t].state # "Absent" => HasOrigin(t, view[t].state, view[t].inc)

OriginParts ==
    /\ \A n \in Nodes : ViewOrigin(rep[n])
    /\ \A n \in Nodes : OfferOrigin(offer[n])
    /\ \A n \in Nodes : \A m \in sent[n] : MessageOrigin(m)

LEMMA PartsHaveOrigin == OriginParts => FailureHasOrigin
BY DEF FailureHasOrigin, Everywhere, OriginParts, ViewOrigin, OfferOrigin, MessageOrigin

\* Nobody speaks or holds a view before it has joined, and nobody holds itself dead: a
\* node that did could bring a dead member back by refuting.  A tombstone says something.
Kept ==
    /\ \A n \in Nodes : status[n] \in {"out", "invited"} =>
          sent[n] = {} /\ \A t \in Nodes : rep[n].members[t].state = "Absent"
    /\ \A n \in Nodes : rep[n].members[n].state # "Dead" /\ offer[n][n].state # "Dead"
    /\ \A n, t \in Nodes : rep[n].tombs[t] = NoTombstone \/ rep[n].tombs[t].state # "None"
    /\ \A n \in Nodes : \A m \in sent[n] : m.type = "tombstone" => m.rec.state # "None"

\* DeathIsTerminal, of one step.
Terminal ==
    \A n, t \in Nodes :
       status'[n] = "in" /\ rep[n].members[t].state = "Dead" =>
          \/ rep'[n].members[t] = NoMember /\ rep'[n].tombs[t] # rep[n].tombs[t]
          \/ /\ rep'[n].members[t].state = "Dead"
             /\ rep'[n].members[t].inc = rep[n].members[t].inc

\* What was said stays said.
Grows == \A n \in Nodes : sent[n] \subseteq sent'[n]

LEMMA OriginStable ==
    ASSUME Grows, NEW t \in Nodes, NEW st, NEW i
    PROVE  /\ HasOrigin(t, st, i) => HasOrigin(t, st, i)'
           /\ Suspicion(t, i) => Suspicion(t, i)'
BY DEF Grows, HasOrigin, Suspicion

LEMMA MessageOriginStable ==
    ASSUME Grows, NEW m \in Messages, MessageOrigin(m)
    PROVE  MessageOrigin(m)'
<1>1. CASE m.id \in Nodes
  BY <1>1, OriginStable DEF MessageOrigin
<1>2. CASE m.type = "tombstone" \/ m.type = "policy"
  BY <1>2 DEF MessageOrigin
<1>. QED  BY <1>1, <1>2, MessageCases

LEMMA ViewOriginStable ==
    ASSUME Grows, NEW r, ViewOrigin(r)
    PROVE  ViewOrigin(r)'
BY OriginStable DEF ViewOrigin

LEMMA OfferOriginStable ==
    ASSUME Grows, NEW view, OfferOrigin(view)
    PROVE  OfferOrigin(view)'
BY OriginStable DEF OfferOrigin

\* The claims that are new in a step need an origin; the others keep theirs.
LEMMA ReplaceOrigin ==
    ASSUME TypeOK, OriginParts, Grows,
           \A u \in Nodes : rep'[u] # rep[u] => ViewOrigin(rep[u])',
           \A u \in Nodes : offer'[u] # offer[u] => OfferOrigin(offer[u])',
           \A u \in Nodes : \A m \in sent'[u] : m \in sent[u] \/ MessageOrigin(m)'
    PROVE  OriginParts'
<1>1. ASSUME NEW u \in Nodes PROVE ViewOrigin(rep[u])'
  <2>1. PICK r : r = rep[u]
    OBVIOUS
  <2>2. ViewOrigin(r)'
    BY <2>1, ViewOriginStable DEF OriginParts
  <2>. QED  BY <2>1, <2>2
<1>2. ASSUME NEW u \in Nodes PROVE OfferOrigin(offer[u])'
  <2>1. PICK v : v = offer[u]
    OBVIOUS
  <2>2. OfferOrigin(v)'
    BY <2>1, OfferOriginStable DEF OriginParts
  <2>. QED  BY <2>1, <2>2
<1>3. ASSUME NEW u \in Nodes, NEW m \in sent'[u] PROVE MessageOrigin(m)'
  <2>1. CASE m \in sent[u]
    <3>1. m \in Messages /\ MessageOrigin(m)
      BY <2>1 DEF TypeOK, OriginParts
    <3>. QED  BY <3>1, MessageOriginStable
  <2>. QED  BY <2>1
<1>. QED  BY <1>1, <1>2, <1>3 DEF OriginParts

\* The news of a replica whose claims have an origin.
LEMMA NewsOrigin ==
    ASSUME NEW n \in Nodes, NEW r, NEW s, ViewOrigin(s)', NEW m \in News(n, r, s)
    PROVE  MessageOrigin(m)'
<1>1. CASE \E u \in Nodes : IsMember(s, u) /\ m = MemberDelta(u, s.members[u])
  <2>1. PICK u \in Nodes : IsMember(s, u) /\ m = MemberDelta(u, s.members[u])
    BY <1>1
  <2>2. m.type = "member" /\ m.id = u /\ m.rec = s.members[u]
    BY <2>1 DEF MemberDelta
  <2>3. HasOrigin(u, s.members[u].state, s.members[u].inc)'
    BY <2>1 DEF ViewOrigin
  <2>. QED  BY <2>2, <2>3 DEF MessageOrigin
<1>2. CASE \E u \in Nodes : m = TombstoneDelta(u, s.tombs[u])
  BY <1>2 DEF TombstoneDelta, MessageOrigin
<1>3. CASE m = PolicyDelta(s.policy)
  BY <1>3 DEF PolicyDelta, MessageOrigin
<1>4. CASE m = Announce("Alive", n, s.inc)
  <2>1. m.type = "announce" /\ m.kind = "Alive"
    BY <1>4 DEF Announce
  <2>. QED  BY <2>1 DEF MessageOrigin, Claimed, HasOrigin
<1>. QED  BY <1>1, <1>2, <1>3, <1>4 DEF News

\* The tombstones among the news say something.
LEMMA NewsTombs ==
    ASSUME NEW n \in Nodes, NEW r, NEW s, NEW m \in News(n, r, s), m.type = "tombstone",
           \A u \in Nodes : s.tombs[u] = r.tombs[u] \/ s.tombs[u].state # "None"
    PROVE  m.rec.state # "None"
<1>1. PICK u \in Nodes : s.tombs[u] # r.tombs[u] /\ m = TombstoneDelta(u, s.tombs[u])
  BY DEF News, MemberDelta, PolicyDelta, Announce
<1>. QED  BY <1>1 DEF TombstoneDelta

\* One node's step on one claim that has an origin.
LEMMA BecomeStep ==
    ASSUME TypeOK, TypeOK', Kept, OriginParts, NEW n \in Nodes, status[n] = "in",
           NEW s \in Replicas, NEW A \in SUBSET Messages, Become(n, s, A),
           \A u \in Nodes : \/ status'[u] = status[u]
                            \/ status[u] = "out" /\ status'[u] = "invited",
           \A u \in Nodes : \/ offer'[u] = offer[u]
                            \/ offer'[u] = s.members /\ s.members[u].state # "Dead",
           NEW t \in Nodes, NEW st, NEW i, HasOrigin(t, st, i)', From(n, rep[n], s, t, st, i),
           \A u \in Nodes : EndsAt(rep[n], s, u),
           \A u \in Nodes : s.tombs[u] = rep[n].tombs[u] \/ s.tombs[u].state # "None",
           \A u \in Nodes : \/ s.susp[u] = rep[n].susp[u]
                            \/ s.susp[u] = NoDeadline
                            \/ Suspicion(u, s.susp[u])',
           \A m \in A : m.type = "announce" /\ MessageOrigin(m)'
    PROVE  Kept' /\ OriginParts' /\ Terminal
<1>1. \A u \in Nodes : rep'[u] = IF u = n THEN s ELSE rep[u]
  BY DEF Become, TypeOK
<1>2. \A u \in Nodes : sent'[u] = IF u = n THEN sent[n] \cup News(n, rep[n], s) \cup A ELSE sent[u]
  BY DEF Become, TypeOK
<1>3. Grows
  BY <1>2 DEF Grows
<1>4. ViewOrigin(s)'
  <2>1. ASSUME NEW u \in Nodes, IsMember(s, u)
        PROVE  HasOrigin(u, s.members[u].state, s.members[u].inc)'
    <3>1. CASE IsMember(rep[n], u) /\ s.members[u].state = rep[n].members[u].state
               /\ s.members[u].inc = rep[n].members[u].inc
      <4>1. HasOrigin(u, s.members[u].state, s.members[u].inc)
        BY <3>1 DEF OriginParts, ViewOrigin
      <4>. QED  BY <1>3, <4>1, OriginStable
    <3>2. CASE s.members[u].state = "Alive"
      BY <3>2 DEF HasOrigin
    <3>3. CASE u = t /\ s.members[u].state = st /\ s.members[u].inc = i
      BY <3>3
    <3>. QED  BY <2>1, <3>1, <3>2, <3>3 DEF From
  <2>2. ASSUME NEW u \in Nodes, s.susp[u] # NoDeadline PROVE Suspicion(u, s.susp[u])'
    <3>1. CASE s.susp[u] = rep[n].susp[u]
      <4>1. Suspicion(u, s.susp[u])
        BY <2>2, <3>1 DEF OriginParts, ViewOrigin
      <4>. QED  BY <1>3, <4>1, OriginStable
    <3>. QED  BY <2>2, <3>1
  <2>. QED  BY <2>1, <2>2 DEF ViewOrigin
<1>5. OriginParts'
  <2>1. ASSUME NEW u \in Nodes, rep'[u] # rep[u] PROVE ViewOrigin(rep[u])'
    BY <1>1, <1>4, <2>1
  <2>2. ASSUME NEW u \in Nodes, offer'[u] # offer[u] PROVE OfferOrigin(offer[u])'
    <3>1. offer'[u] = s.members
      BY <2>2
    <3>. QED  BY <1>4, <3>1 DEF OfferOrigin, ViewOrigin, IsMember
  <2>3. ASSUME NEW u \in Nodes, NEW m \in sent'[u] PROVE m \in sent[u] \/ MessageOrigin(m)'
    <3>1. CASE m \in News(n, rep[n], s)
      BY <1>4, <3>1, NewsOrigin
    <3>. QED  BY <1>2, <2>3, <3>1
  <2>. QED  BY <1>3, <2>1, <2>2, <2>3, ReplaceOrigin
<1>6. s.members[n].state # "Dead"
  <2>1. rep[n].members[n].state # "Dead"
    BY DEF Kept
  <2>. QED  BY <2>1 DEF From, IsMember
<1>7. Kept'
  <2>1. ASSUME NEW u \in Nodes, status'[u] \in {"out", "invited"}
        PROVE  sent'[u] = {} /\ \A v \in Nodes : rep'[u].members[v].state = "Absent"
    <3>1. u # n /\ status[u] \in {"out", "invited"}
      BY <2>1
    <3>. QED  BY <1>1, <1>2, <3>1 DEF Kept
  <2>2. ASSUME NEW u \in Nodes PROVE rep'[u].members[u].state # "Dead" /\ offer'[u][u].state # "Dead"
    BY <1>1, <1>6 DEF Kept
  <2>3. ASSUME NEW u \in Nodes, NEW v \in Nodes
        PROVE  rep'[u].tombs[v] = NoTombstone \/ rep'[u].tombs[v].state # "None"
    BY <1>1 DEF Kept
  <2>4. ASSUME NEW u \in Nodes, NEW m \in sent'[u], m.type = "tombstone" PROVE m.rec.state # "None"
    <3>1. CASE m \in sent[u]
      BY <2>4, <3>1 DEF Kept
    <3>2. CASE m \in News(n, rep[n], s)
      BY <2>4, <3>2, NewsTombs
    <3>3. CASE m \in A
      BY <2>4, <3>3
    <3>. QED  BY <1>2, <2>4, <3>1, <3>2, <3>3
  <2>. QED  BY <2>1, <2>2, <2>3, <2>4 DEF Kept
<1>8. Terminal
  BY <1>1 DEF Terminal, EndsAt
<1>. QED  BY <1>5, <1>7, <1>8

\* The same, all else unchanged.
LEMMA StepOrigin ==
    ASSUME TypeOK, TypeOK', Kept, OriginParts, NEW n \in Nodes, status[n] = "in",
           NEW s \in Replicas, Become(n, s, {}), UNCHANGED <<status, offer>>,
           NEW t \in Nodes, NEW st, NEW i, HasOrigin(t, st, i), From(n, rep[n], s, t, st, i),
           Lasts(rep[n], s)
    PROVE  Kept' /\ OriginParts' /\ Terminal
<1>1. Grows
  BY DEF Grows, Become, TypeOK
<1>2. HasOrigin(t, st, i)'
  BY <1>1, OriginStable
<1>3. /\ {} \in SUBSET Messages
      /\ \A m \in {} : m.type = "announce" /\ MessageOrigin(m)'
  OBVIOUS
<1>4. /\ \A u \in Nodes : EndsAt(rep[n], s, u)
      /\ \A u \in Nodes : s.tombs[u] = rep[n].tombs[u] \/ s.tombs[u].state # "None"
      /\ \A u \in Nodes : s.susp[u] = rep[n].susp[u] \/ s.susp[u] = NoDeadline
  BY DEF Lasts, LastsAt
<1>5. /\ \A u \in Nodes : status'[u] = status[u]
      /\ \A u \in Nodes : offer'[u] = offer[u]
  OBVIOUS
<1>. QED  BY <1>2, <1>3, <1>4, <1>5, BecomeStep

LEMMA AdmitOrigin ==
    ASSUME TypeOK, TypeOK', Kept, OriginParts, NEW n \in Nodes, NEW x \in Nodes, Admit(n, x)
    PROVE  Kept' /\ OriginParts' /\ Terminal
<1> DEFINE m == [state |-> "Alive", inc |-> 0, ver |-> Initial(n)]
           s == [rep[n] EXCEPT !.members[x] = m]
<1>1. /\ status[n] = "in" /\ status[x] = "out" /\ Become(n, s, {}) /\ ~IsMember(rep[n], x)
      /\ status' = [status EXCEPT ![x] = "invited"] /\ offer' = [offer EXCEPT ![x] = s.members]
  BY DEF Admit
<1>2. m \in Members /\ m.state = "Alive" /\ m.inc = 0
  BY ConstantTypes, MaxIncAssumption DEF Members, Incarnations
<1>3. rep[n] \in Replicas
  BY DEF TypeOK
<1> HIDE DEF m
<1>4. /\ s \in Replicas /\ s.inc = rep[n].inc /\ s.members[x] = m
      /\ s.tombs = rep[n].tombs /\ s.susp = rep[n].susp
      /\ \A u \in Nodes : u # x => s.members[u] = rep[n].members[u]
  BY <1>2, <1>3 DEF Replicas
<1> HIDE DEF s
<1>5. From(n, rep[n], s, x, "Alive", 0)
  <2>1. x # n
    BY <1>1
  <2>. QED  BY <1>2, <1>3, <1>4, <2>1, FromUpdate
<1>6. Lasts(rep[n], s)
  <2>1. LastsAt(rep[n], s, x)
    BY <1>1, <1>4 DEF LastsAt, EndsAt, IsMember
  <2>. QED  BY <1>4, <2>1, UpdateLasts
<1>7. /\ \A u \in Nodes : EndsAt(rep[n], s, u)
      /\ \A u \in Nodes : s.tombs[u] = rep[n].tombs[u] \/ s.tombs[u].state # "None"
      /\ \A u \in Nodes : s.susp[u] = rep[n].susp[u] \/ s.susp[u] = NoDeadline
  BY <1>6 DEF Lasts, LastsAt
<1>8. \A u \in Nodes : \/ offer'[u] = offer[u]
                       \/ offer'[u] = s.members /\ s.members[u].state # "Dead"
  BY <1>1, <1>2, <1>4 DEF TypeOK
<1>9. \A u \in Nodes : \/ status'[u] = status[u]
                       \/ status[u] = "out" /\ status'[u] = "invited"
  BY <1>1 DEF TypeOK
<1>10. HasOrigin(x, "Alive", 0)'
  BY DEF HasOrigin
<1>11. /\ {} \in SUBSET Messages
       /\ \A a \in {} : a.type = "announce" /\ MessageOrigin(a)'
  OBVIOUS
<1>. QED  BY <1>1, <1>4, <1>5, <1>7, <1>8, <1>9, <1>10, <1>11, BecomeStep

LEMMA InstallBaselineOrigin ==
    ASSUME TypeOK, TypeOK', Kept, OriginParts, NEW n \in Nodes, NEW src \in Nodes,
           InstallBaseline(n, src)
    PROVE  Kept' /\ OriginParts' /\ Terminal
<1> DEFINE Taken == {t \in Nodes : /\ rep[src].tombs[t] # NoTombstone
                                   /\ \/ rep[n].tombs[t] = NoTombstone
                                      \/ Precedes(rep[n].tombs[t].ver, rep[src].tombs[t].ver)}
           q == MergePolicy(rep[n], rep[src].policy)
           s == [q EXCEPT
                   !.tombs = [t \in Nodes |-> IF t \in Taken THEN rep[src].tombs[t] ELSE rep[n].tombs[t]],
                   !.members = Without(@, Taken),
                   !.susp = [t \in Nodes |-> IF t \in Taken THEN NoDeadline ELSE @[t]]]
<1>1. status[n] = "in" /\ Become(n, s, {}) /\ UNCHANGED <<status, offer>>
  BY DEF InstallBaseline
<1>2. rep[n] \in Replicas /\ rep[src] \in Replicas
  BY DEF TypeOK
<1>3. Taken \in SUBSET Nodes
  OBVIOUS
<1>4. ASSUME NEW t \in Taken
      PROVE  rep[src].tombs[t].state # "None" /\ rep[src].tombs[t] # rep[n].tombs[t]
  <2>1. t \in Nodes /\ rep[src].tombs[t] # NoTombstone
    OBVIOUS
  <2>2. rep[src].tombs[t].state # "None"
    BY <2>1 DEF Kept
  <2>3. rep[src].tombs[t].ver \in Versions
    BY <1>2, <2>1 DEF Replicas, Tombstones
  <2>4. ~Precedes(rep[src].tombs[t].ver, rep[src].tombs[t].ver)
    <3>1. Nodes \cup {0} \subseteq Int /\ 0..MaxCounter \subseteq Int
      BY MaxCounterAssumption, NodesAssumption
    <3>2. /\ rep[src].tombs[t].ver.counter \in 0..MaxCounter
          /\ rep[src].tombs[t].ver.actor \in Nodes \cup {0}
      BY <2>3 DEF Versions
    <3>3. rep[src].tombs[t].ver.counter \in Int /\ rep[src].tombs[t].ver.actor \in Int
      BY <3>1, <3>2
    <3>. QED  BY <3>3 DEF Precedes
  <2>. QED  BY <2>1, <2>2, <2>4
<1>5. q.members = rep[n].members /\ q.inc = rep[n].inc /\ q \in Replicas
  BY <1>2, MergePolicyType DEF MergePolicy, Replicas
<1> HIDE DEF Taken
<1>6. s \in Replicas
  BY <1>2, <1>3, BaselineType, Zenon
<1>7. Lasts(rep[n], s)
  BY <1>2, <1>3, <1>4, BaselineLasts, Zenon
<1> HIDE DEF q
<1>8. s.inc = rep[n].inc /\ \A u \in Nodes : \/ s.members[u] = rep[n].members[u]
                                             \/ s.members[u] = NoMember
  BY <1>5 DEF Replicas, Without
<1> HIDE DEF s
<1>9. From(n, rep[n], s, n, "Alive", 0)
  <2>1. s.inc >= rep[n].inc
    BY <1>2, <1>8, MaxIncAssumption DEF Replicas, Incarnations
  <2>. QED  BY <1>8, <2>1 DEF From, IsMember, NoMember
<1>10. HasOrigin(n, "Alive", 0)
  BY DEF HasOrigin
<1>. QED  BY <1>1, <1>6, <1>7, <1>9, <1>10, StepOrigin

LEMMA OperatorOrigin ==
    ASSUME TypeOK, TypeOK', Kept, OriginParts, NEW n \in Nodes, NEW t \in Nodes,
           \/ RemoveMember(n, t)
           \/ ClearTombstone(n, t)
           \/ \E locked \in BOOLEAN : SetMembershipLock(n, locked)
    PROVE  Kept' /\ OriginParts' /\ Terminal
<1>0. rep[n] \in Replicas /\ rep'[n] \in Replicas
  BY DEF TypeOK
<1>1. ASSUME NEW s, s \in Replicas, Become(n, s, {}), status[n] = "in",
             UNCHANGED <<status, offer>>, From(n, rep[n], s, t, "Alive", 0), Lasts(rep[n], s)
      PROVE  Kept' /\ OriginParts' /\ Terminal
  <2>1. HasOrigin(t, "Alive", 0)
    BY DEF HasOrigin
  <2>. QED  BY <1>1, <2>1, StepOrigin
<1>2. ASSUME NEW s, Become(n, s, {}) PROVE s \in Replicas
  <2>1. rep'[n] = s
    BY <1>2 DEF Become, TypeOK
  <2>. QED  BY <1>0, <2>1
<1>3. CASE RemoveMember(n, t)
  <2> DEFINE b == [state |-> "Fenced", ver |-> Successor(rep[n].members[t].ver, n)]
  <2>1. /\ status[n] = "in" /\ Become(n, MergeTombstone(rep[n], t, b), {})
        /\ UNCHANGED <<status, offer>> /\ HasSuccessor(rep[n].members[t].ver)
    BY <1>3 DEF RemoveMember, CanRemove, Removed
  <2>2. b \in Tombstones /\ b.state # "None"
    BY <1>0, <2>1, NewTombstoneType DEF Replicas, Members
  <2> HIDE DEF b
  <2>3. From(n, rep[n], MergeTombstone(rep[n], t, b), t, "Alive", 0)
    BY <1>0, MergeTombstoneFrom
  <2>4. Lasts(rep[n], MergeTombstone(rep[n], t, b))
    BY <1>0, <2>2, MergeTombstoneLasts
  <2>. QED  BY <1>1, <1>2, <2>1, <2>3, <2>4
<1>4. CASE ClearTombstone(n, t)
  <2> DEFINE b == [state |-> "Cleared", ver |-> Successor(rep[n].tombs[t].ver, n)]
             s == [rep[n] EXCEPT !.tombs[t] = b]
  <2>1. status[n] = "in" /\ Become(n, s, {}) /\ UNCHANGED <<status, offer>>
    BY <1>4 DEF ClearTombstone
  <2>2. b.state # "None"
    OBVIOUS
  <2> HIDE DEF b
  <2>3. /\ s.members = rep[n].members /\ s.inc = rep[n].inc /\ s.susp = rep[n].susp
        /\ \A u \in Nodes : s.tombs[u] = IF u = t THEN b ELSE rep[n].tombs[u]
    BY <1>0 DEF Replicas
  <2> HIDE DEF s
  <2>4. From(n, rep[n], s, t, "Alive", 0)
    BY <1>0, <2>3, FromUpdate DEF IsMember
  <2>5. Lasts(rep[n], s)
    BY <2>2, <2>3 DEF Lasts, LastsAt, EndsAt
  <2>. QED  BY <1>1, <1>2, <2>1, <2>4, <2>5
<1>5. CASE \E locked \in BOOLEAN : SetMembershipLock(n, locked)
  <2>1. PICK p : /\ status[n] = "in" /\ Become(n, MergePolicy(rep[n], p), {})
                 /\ UNCHANGED <<status, offer>>
    BY <1>5 DEF SetMembershipLock
  <2>2. From(n, rep[n], MergePolicy(rep[n], p), t, "Alive", 0) /\ Lasts(rep[n], MergePolicy(rep[n], p))
    BY <1>0, MergePolicyFrom, MergePolicyLasts
  <2>. QED  BY <1>1, <1>2, <2>1, <2>2
<1>. QED  BY <1>3, <1>4, <1>5

LEMMA DeliverOrigin ==
    ASSUME TypeOK, TypeOK', Kept, OriginParts, NEW n \in Nodes, NEW f \in Nodes, NEW m \in sent[f],
           Deliver(n, f, m)
    PROVE  Kept' /\ OriginParts' /\ Terminal
<1> DEFINE s == Receive(n, f, m)
<1>1. status[n] = "in" /\ Become(n, s, {}) /\ UNCHANGED <<status, offer>>
  BY DEF Deliver
<1>2. rep[n] \in Replicas /\ m \in Messages /\ MessageOrigin(m) /\ rep[n].members[n].state # "Dead"
  BY DEF TypeOK, OriginParts, Kept
<1>3. s \in Replicas
  BY <1>2, ReceiveType
<1>4. CASE m.type = "member" /\ m.id \in Nodes /\ m.rec \in Members
  <2>1. s = MergeMember(n, rep[n], m.id, m.rec)
    BY <1>4 DEF Receive
  <2>2. From(n, rep[n], s, m.id, m.rec.state, m.rec.inc) /\ Lasts(rep[n], s)
    BY <1>2, <1>4, <2>1, MergeMemberFrom, MergeMemberLasts
  <2>3. HasOrigin(m.id, m.rec.state, m.rec.inc)
    BY <1>2, <1>4 DEF MessageOrigin
  <2> HIDE DEF s
  <2>. QED  BY <1>1, <1>3, <1>4, <2>2, <2>3, StepOrigin
<1>5. CASE m.type = "announce" /\ m.id \in Nodes /\ m.inc \in Incarnations
  <2>1. s = ApplyAnnouncement(n, rep[n], f, m.kind, m.id, m.inc)
    BY <1>5 DEF Receive
  <2>2. From(n, rep[n], s, m.id, Claimed(m.kind), Effective(m.kind, m.inc)) /\ Lasts(rep[n], s)
    BY <1>2, <1>5, <2>1, AnnouncementFrom, AnnouncementLasts
  <2>3. HasOrigin(m.id, Claimed(m.kind), Effective(m.kind, m.inc))
    BY <1>2, <1>5 DEF MessageOrigin
  <2> HIDE DEF s
  <2>. QED  BY <1>1, <1>3, <1>5, <2>2, <2>3, StepOrigin
<1>6. CASE m.type = "tombstone" /\ m.id \in Nodes /\ m.rec \in Tombstones
  <2>1. s = MergeTombstone(rep[n], m.id, m.rec) /\ m.rec.state # "None"
    BY <1>6 DEF Receive, Kept
  <2>2. From(n, rep[n], s, m.id, "Alive", 0) /\ Lasts(rep[n], s)
    BY <1>2, <1>6, <2>1, MergeTombstoneFrom, MergeTombstoneLasts
  <2>3. HasOrigin(m.id, "Alive", 0)
    BY DEF HasOrigin
  <2> HIDE DEF s
  <2>. QED  BY <1>1, <1>3, <1>6, <2>2, <2>3, StepOrigin
<1>7. CASE m.type = "policy"
  <2>1. s = MergePolicy(rep[n], m.rec)
    BY <1>7 DEF Receive
  <2>2. From(n, rep[n], s, n, "Alive", 0) /\ Lasts(rep[n], s)
    BY <1>2, <2>1, MergePolicyFrom, MergePolicyLasts
  <2>3. HasOrigin(n, "Alive", 0)
    BY DEF HasOrigin
  <2> HIDE DEF s
  <2>. QED  BY <1>1, <1>3, <2>2, <2>3, StepOrigin
<1>. QED  BY <1>2, <1>4, <1>5, <1>6, <1>7, MessageCases

\* The suspicion a node announces is the origin of the one it records.
LEMMA SuspectMemberOrigin ==
    ASSUME TypeOK, TypeOK', Kept, OriginParts, NEW n \in Nodes, NEW t \in Nodes, SuspectMember(n, t)
    PROVE  Kept' /\ OriginParts' /\ Terminal
<1>1. PICK i : i = rep[n].members[t].inc
  OBVIOUS
<1>2. PICK s : s = Suspect(n, rep[n], t, i)
  OBVIOUS
<1> DEFINE c == ApplyAnnouncement(n, rep[n], n, "Suspect", t, i)
           A == {Announce("Suspect", t, i)}
<1>3. /\ status[n] = "in" /\ Become(n, s, A) /\ UNCHANGED <<status, offer>>
  BY <1>1, <1>2 DEF SuspectMember
<1>4. /\ rep[n] \in Replicas /\ i \in Incarnations /\ rep[n].members[n].state # "Dead"
  BY <1>1 DEF TypeOK, Replicas, Members, Kept
<1>5. s \in Replicas /\ c \in Replicas
  BY <1>4, <1>2, SuspectType, AnnouncementType
<1>6. From(n, rep[n], c, t, "Suspected", i) /\ Lasts(rep[n], c)
  BY <1>4, AnnouncementFrom, AnnouncementLasts DEF Claimed, Effective
<1>7. /\ s.inc = c.inc /\ s.members = c.members /\ s.tombs = c.tombs
      /\ \A u \in Nodes : s.susp[u] = c.susp[u] \/ (u = t /\ s.susp[u] = i)
  <2>1. s = c \/ s = [c EXCEPT !.susp[t] = i]
    BY <1>2 DEF Suspect
  <2> HIDE DEF c
  <2>. QED  BY <1>5, <2>1 DEF Replicas
<1>8. Suspicion(t, i)' /\ HasOrigin(t, "Suspected", i)'
  <2>1. Announce("Suspect", t, i) \in sent'[n]
    BY <1>3 DEF Become, TypeOK
  <2>. QED  BY <2>1 DEF Suspicion, HasOrigin
<1>9. A \in SUBSET Messages /\ \A m \in A : m.type = "announce" /\ MessageOrigin(m)'
  <2>1. Announce("Suspect", t, i) \in Messages
    BY <1>4, MessageTypes DEF Kinds
  <2>2. MessageOrigin(Announce("Suspect", t, i))'
    BY <1>8 DEF MessageOrigin, Announce, Claimed, Effective
  <2>. QED  BY <2>1, <2>2 DEF Announce
<1> HIDE DEF c, A
<1>10. From(n, rep[n], s, t, "Suspected", i)
  BY <1>6, <1>7 DEF From, IsMember
<1>11. /\ \A u \in Nodes : EndsAt(rep[n], s, u)
       /\ \A u \in Nodes : s.tombs[u] = rep[n].tombs[u] \/ s.tombs[u].state # "None"
  BY <1>6, <1>7 DEF Lasts, LastsAt, EndsAt
<1>12. ASSUME NEW u \in Nodes
       PROVE  \/ s.susp[u] = rep[n].susp[u]
              \/ s.susp[u] = NoDeadline
              \/ Suspicion(u, s.susp[u])'
  <2>1. c.susp[u] = rep[n].susp[u] \/ c.susp[u] = NoDeadline
    BY <1>6 DEF Lasts, LastsAt
  <2>2. CASE u = t /\ s.susp[u] = i
    BY <1>8, <2>2
  <2>. QED  BY <1>7, <2>1, <2>2
<1>13. /\ \A u \in Nodes : status'[u] = status[u]
       /\ \A u \in Nodes : offer'[u] = offer[u]
  BY <1>3
<1>. QED  BY <1>3, <1>5, <1>8, <1>9, <1>10, <1>11, <1>12, <1>13, BecomeStep

\* The death a deadline declares goes back to the suspicion that armed it.
LEMMA DeclareDeadOrigin ==
    ASSUME TypeOK, TypeOK', Kept, OriginParts, NEW n \in Nodes, NEW t \in Nodes, DeclareDead(n, t)
    PROVE  Kept' /\ OriginParts' /\ Terminal
<1>1. PICK i : i = rep[n].susp[t]
  OBVIOUS
<1> DEFINE r == [rep[n] EXCEPT !.susp[t] = NoDeadline]
           s == ExpireSuspicion(n, rep[n], t)
           A == {Announce("Dead", t, i) : x \in {y \in {1} : Adopts(n, rep[n], n, "Dead", t, i)}}
<1>2. status[n] = "in" /\ i # NoDeadline /\ Become(n, s, A) /\ UNCHANGED <<status, offer>>
  BY <1>1 DEF DeclareDead
<1>3. rep[n] \in Replicas /\ rep[n].members[n].state # "Dead"
  BY DEF TypeOK, Kept
<1>4. r \in Replicas /\ r.inc = rep[n].inc /\ r.members = rep[n].members
  BY <1>3 DEF Replicas
<1>5. i \in Incarnations
  BY <1>1, <1>2, <1>3 DEF Replicas
<1>6. s \in Replicas /\ Lasts(rep[n], s)
  BY <1>1, <1>2, <1>3, ExpireSuspicionType, ExpireSuspicionLasts
<1>7. From(n, r, s, t, "Dead", i)
  BY <1>1, <1>4, <1>5, AnnouncementFrom DEF ExpireSuspicion, Claimed, Effective
<1>8. Suspicion(t, i)
  BY <1>1, <1>2 DEF OriginParts, ViewOrigin
<1>9. Grows
  BY <1>2 DEF Grows, Become, TypeOK
<1>10. HasOrigin(t, "Dead", i)'
  <2>1. Suspicion(t, i)'
    BY <1>8, <1>9, OriginStable
  <2>. QED  BY <2>1 DEF Suspicion, HasOrigin
<1>11. A \in SUBSET Messages /\ \A m \in A : m.type = "announce" /\ MessageOrigin(m)'
  <2>1. Announce("Dead", t, i) \in Messages
    BY <1>5, MessageTypes DEF Kinds
  <2>2. MessageOrigin(Announce("Dead", t, i))'
    BY <1>10 DEF MessageOrigin, Announce, Claimed, Effective
  <2>3. \A m \in A : m = Announce("Dead", t, i)
    OBVIOUS
  <2>. QED  BY <2>1, <2>2, <2>3 DEF Announce
<1>12. From(n, rep[n], s, t, "Dead", i)
  <2> HIDE DEF r, s
  <2>. QED  BY <1>4, <1>7 DEF From, IsMember
<1>13. /\ \A u \in Nodes : EndsAt(rep[n], s, u)
       /\ \A u \in Nodes : s.tombs[u] = rep[n].tombs[u] \/ s.tombs[u].state # "None"
       /\ \A u \in Nodes : s.susp[u] = rep[n].susp[u] \/ s.susp[u] = NoDeadline
  BY <1>6 DEF Lasts, LastsAt
<1>14. /\ \A u \in Nodes : status'[u] = status[u]
       /\ \A u \in Nodes : offer'[u] = offer[u]
  BY <1>2
<1> HIDE DEF r, s, A
<1>. QED  BY <1>2, <1>6, <1>10, <1>11, <1>12, <1>13, <1>14, BecomeStep

LEMMA IntroductionOrigin ==
    ASSUME NEW n \in Nodes, NEW view, OfferOrigin(view)', NEW m \in Introduction(n, view)
    PROVE  MessageOrigin(m)' /\ m.type # "tombstone"
<1>1. CASE m = Announce("Alive", n, 0)
  <2>1. m.type = "announce" /\ m.kind = "Alive"
    BY <1>1 DEF Announce
  <2>. QED  BY <2>1 DEF MessageOrigin, Claimed, HasOrigin
<1>2. CASE m # Announce("Alive", n, 0)
  <2>1. PICK t \in Nodes : view[t].state # "Absent" /\ m = MemberDelta(t, view[t])
    BY <1>2 DEF Introduction
  <2>2. m.type = "member" /\ m.id = t /\ m.rec = view[t]
    BY <2>1 DEF MemberDelta
  <2>3. HasOrigin(t, view[t].state, view[t].inc)'
    BY <2>1 DEF OfferOrigin
  <2>. QED  BY <2>2, <2>3 DEF MessageOrigin
<1>. QED  BY <1>1, <1>2

\* A joiner had said nothing and held nothing that its new model forgets.
LEMMA AdoptOrigin ==
    ASSUME TypeOK, TypeOK', Kept, OriginParts, NEW x \in Nodes, Adopt(x)
    PROVE  Kept' /\ OriginParts' /\ Terminal
<1>1. PICK view : view = offer[x]
  OBVIOUS
<1>2. /\ status[x] = "invited" /\ status'[x] = "in"
      /\ \A u \in Nodes : u # x => /\ rep'[u] = rep[u] /\ status'[u] = status[u]
                                   /\ sent'[u] = sent[u] /\ offer'[u] = offer[u]
      /\ rep'[x] = [Bare(0) EXCEPT !.members = view]
      /\ sent'[x] = Introduction(x, view)
      /\ offer'[x] = NoOffer
  BY <1>1 DEF Adopt, TypeOK
<1>3. /\ rep'[x].members = view
      /\ \A t \in Nodes : rep'[x].susp[t] = NoDeadline /\ rep'[x].tombs[t] = NoTombstone
  BY <1>2 DEF Bare
<1>4. sent[x] = {} /\ \A t \in Nodes : rep[x].members[t].state = "Absent"
  BY <1>2 DEF Kept
<1>5. Grows
  BY <1>2, <1>4 DEF Grows
<1>6. OfferOrigin(view)'
  <2>1. OfferOrigin(view)
    BY <1>1 DEF OriginParts
  <2>. QED  BY <1>5, <2>1, OfferOriginStable
<1>7. OriginParts'
  <2>1. ASSUME NEW u \in Nodes, rep'[u] # rep[u] PROVE ViewOrigin(rep[u])'
    <3>1. u = x
      BY <1>2, <2>1
    <3>2. ViewOrigin(rep[x])'
      BY <1>3, <1>6 DEF ViewOrigin, OfferOrigin, IsMember
    <3>. QED  BY <3>1, <3>2
  <2>2. ASSUME NEW u \in Nodes, offer'[u] # offer[u] PROVE OfferOrigin(offer[u])'
    <3>1. offer'[u] = NoOffer
      BY <1>2, <2>2
    <3>. QED  BY <3>1 DEF OfferOrigin, NoOffer, NoMember
  <2>3. ASSUME NEW u \in Nodes, NEW m \in sent'[u] PROVE m \in sent[u] \/ MessageOrigin(m)'
    <3>1. CASE u = x
      BY <1>2, <1>6, <2>3, <3>1, IntroductionOrigin
    <3>. QED  BY <1>2, <2>3, <3>1
  <2>. QED  BY <1>5, <2>1, <2>2, <2>3, ReplaceOrigin
<1>8. Kept'
  <2>1. ASSUME NEW u \in Nodes, status'[u] \in {"out", "invited"}
        PROVE  sent'[u] = {} /\ \A v \in Nodes : rep'[u].members[v].state = "Absent"
    <3>1. u # x /\ status[u] \in {"out", "invited"}
      BY <1>2, <2>1
    <3>. QED  BY <1>2, <3>1 DEF Kept
  <2>2. ASSUME NEW u \in Nodes PROVE rep'[u].members[u].state # "Dead" /\ offer'[u][u].state # "Dead"
    <3>1. CASE u = x
      <4>1. view[x].state # "Dead"
        BY <1>1 DEF Kept
      <4>2. NoOffer[x].state # "Dead"
        BY DEF NoOffer, NoMember
      <4>. QED  BY <1>2, <1>3, <3>1, <4>1, <4>2
    <3>2. CASE u # x
      BY <1>2, <3>2 DEF Kept
    <3>. QED  BY <3>1, <3>2
  <2>3. ASSUME NEW u \in Nodes, NEW v \in Nodes
        PROVE  rep'[u].tombs[v] = NoTombstone \/ rep'[u].tombs[v].state # "None"
    <3>1. CASE u = x
      BY <1>3, <3>1
    <3>2. CASE u # x
      BY <1>2, <3>2 DEF Kept
    <3>. QED  BY <3>1, <3>2
  <2>4. ASSUME NEW u \in Nodes, NEW m \in sent'[u], m.type = "tombstone" PROVE m.rec.state # "None"
    <3>1. CASE u = x
      BY <1>2, <1>6, <2>4, <3>1, IntroductionOrigin
    <3>2. CASE u # x
      BY <1>2, <2>4, <3>2 DEF Kept
    <3>. QED  BY <3>1, <3>2
  <2>. QED  BY <2>1, <2>2, <2>3, <2>4 DEF Kept
<1>9. Terminal
  <2>1. ASSUME NEW u \in Nodes, u # x PROVE rep'[u] = rep[u]
    BY <1>2, <2>1
  <2>. QED  BY <1>4, <2>1 DEF Terminal
<1>. QED  BY <1>7, <1>8, <1>9

\* A departure forgets everything; the Leave that is sent is an origin itself.
LEMMA DepartureOrigin ==
    ASSUME TypeOK, TypeOK', Kept, OriginParts, NEW n \in Nodes, Leave(n) \/ Crash(n)
    PROVE  Kept' /\ OriginParts' /\ Terminal
<1>1. PICK i : i = rep[n].inc
  OBVIOUS
<1> DEFINE l == Announce("Leave", n, i)
<1>2. /\ status'[n] \in {"left", "down"} /\ offer' = offer
      /\ \A u \in Nodes : u # n => rep'[u] = rep[u] /\ status'[u] = status[u] /\ sent'[u] = sent[u]
      /\ rep'[n] = Bare(i)
      /\ sent[n] \subseteq sent'[n] /\ sent'[n] \subseteq sent[n] \cup {l}
  BY <1>1 DEF Leave, Crash, Retire, TypeOK
<1>3. \A t \in Nodes : /\ rep'[n].members[t] = NoMember /\ rep'[n].tombs[t] = NoTombstone
                       /\ rep'[n].susp[t] = NoDeadline
  BY <1>2 DEF Bare
<1>4. Grows
  BY <1>2 DEF Grows
<1>5. ASSUME l \in sent'[n] PROVE MessageOrigin(l)'
  <2>1. l.type = "announce" /\ l.kind = "Leave" /\ l.id = n /\ l.inc = i
    BY DEF Announce
  <2>2. i \in Incarnations
    BY <1>1 DEF TypeOK, Replicas
  <2>3. HasOrigin(n, "Dead", Effective("Leave", i))'
    BY <1>5, <2>2 DEF HasOrigin
  <2>. QED  BY <2>1, <2>3 DEF MessageOrigin, Claimed
<1>6. OriginParts'
  <2>1. ASSUME NEW u \in Nodes, rep'[u] # rep[u] PROVE ViewOrigin(rep[u])'
    <3>1. u = n
      BY <1>2, <2>1
    <3>. QED  BY <1>3, <3>1 DEF ViewOrigin, IsMember, NoMember
  <2>2. ASSUME NEW u \in Nodes, offer'[u] # offer[u] PROVE OfferOrigin(offer[u])'
    BY <1>2, <2>2
  <2>3. ASSUME NEW u \in Nodes, NEW m \in sent'[u] PROVE m \in sent[u] \/ MessageOrigin(m)'
    <3>1. CASE u = n /\ m = l
      BY <1>5, <2>3, <3>1
    <3>. QED  BY <1>2, <2>3, <3>1
  <2>. QED  BY <1>4, <2>1, <2>2, <2>3, ReplaceOrigin
<1>7. Kept'
  <2>1. ASSUME NEW u \in Nodes, status'[u] \in {"out", "invited"}
        PROVE  sent'[u] = {} /\ \A v \in Nodes : rep'[u].members[v].state = "Absent"
    <3>1. u # n /\ status[u] \in {"out", "invited"}
      BY <1>2, <2>1
    <3>. QED  BY <1>2, <3>1 DEF Kept
  <2>2. ASSUME NEW u \in Nodes PROVE rep'[u].members[u].state # "Dead" /\ offer'[u][u].state # "Dead"
    BY <1>2, <1>3 DEF Kept, NoMember
  <2>3. ASSUME NEW u \in Nodes, NEW v \in Nodes
        PROVE  rep'[u].tombs[v] = NoTombstone \/ rep'[u].tombs[v].state # "None"
    BY <1>2, <1>3 DEF Kept
  <2>4. ASSUME NEW u \in Nodes, NEW m \in sent'[u], m.type = "tombstone" PROVE m.rec.state # "None"
    <3>1. m # l
      BY <2>4 DEF Announce
    <3>. QED  BY <1>2, <2>4, <3>1 DEF Kept
  <2>. QED  BY <2>1, <2>2, <2>3, <2>4 DEF Kept
<1>8. Terminal
  <2>1. ASSUME NEW u \in Nodes, u # n PROVE rep'[u] = rep[u]
    BY <1>2, <2>1
  <2>2. status'[n] # "in"
    BY <1>2
  <2>. QED  BY <2>1, <2>2 DEF Terminal
<1>. QED  BY <1>6, <1>7, <1>8

LEMMA InitOrigin == Init => Kept /\ OriginParts
<1>. SUFFICES ASSUME Init PROVE Kept /\ OriginParts
  OBVIOUS
<1>1. \A u \in Nodes : FoundingView[u].state \in {"Alive", "Absent"}
  BY DEF FoundingView, NoMember
<1>2. ASSUME NEW n \in Nodes
      PROVE  /\ rep[n].members = FoundingView \/ \A t \in Nodes : rep[n].members[t] = NoMember
             /\ status[n] \in {"out", "invited"} => /\ sent[n] = {}
                                                    /\ \A t \in Nodes : rep[n].members[t] = NoMember
             /\ \A t \in Nodes : rep[n].susp[t] = NoDeadline /\ rep[n].tombs[t] = NoTombstone
             /\ offer[n] = NoOffer
             /\ sent[n] = {} \/ sent[n] = Introduction(n, FoundingView)
  BY DEF Init, Bare
<1>3. ASSUME NEW n \in Nodes, NEW t \in Nodes PROVE rep[n].members[t].state \in {"Alive", "Absent"}
  BY <1>1, <1>2 DEF NoMember
<1>4. ASSUME NEW n \in Nodes, NEW m \in sent[n] PROVE MessageOrigin(m) /\ m.type # "tombstone"
  <2>1. m \in Introduction(n, FoundingView)
    BY <1>2
  <2>2. CASE m = Announce("Alive", n, 0)
    <3>1. m.type = "announce" /\ m.kind = "Alive"
      BY <2>2 DEF Announce
    <3>. QED  BY <3>1 DEF MessageOrigin, Claimed, HasOrigin
  <2>3. CASE m # Announce("Alive", n, 0)
    <3>1. PICK t \in Nodes : FoundingView[t].state # "Absent" /\ m = MemberDelta(t, FoundingView[t])
      BY <2>1, <2>3 DEF Introduction
    <3>2. m.type = "member" /\ m.rec.state = "Alive"
      BY <1>1, <3>1 DEF MemberDelta
    <3>. QED  BY <3>2 DEF MessageOrigin, HasOrigin
  <2>. QED  BY <2>2, <2>3
<1>5. \A n, t \in Nodes : offer[n][t].state = "Absent"
  BY <1>2 DEF NoOffer, NoMember
<1>6. Kept
  BY <1>2, <1>3, <1>4, <1>5 DEF Kept, NoMember
<1>7. OriginParts
  BY <1>2, <1>3, <1>4, <1>5 DEF OriginParts, ViewOrigin, OfferOrigin, HasOrigin, IsMember
<1>. QED  BY <1>6, <1>7

LEMMA NextOrigin ==
    TypeOK /\ Kept /\ OriginParts /\ [Next]_vars => Kept' /\ OriginParts' /\ Terminal
<1>. SUFFICES ASSUME TypeOK, Kept, OriginParts, [Next]_vars
              PROVE  Kept' /\ OriginParts' /\ Terminal
  OBVIOUS
<1>0. TypeOK'
  BY NextType
<1>1. CASE UNCHANGED vars
  <2>1. Kept'
    BY <1>1 DEF vars, Kept
  <2>2. OriginParts'
    BY <1>1 DEF vars, OriginParts, ViewOrigin, OfferOrigin, MessageOrigin, HasOrigin, Suspicion
  <2>3. Terminal
    BY <1>1 DEF vars, Terminal
  <2>. QED  BY <2>1, <2>2, <2>3
<1>2. ASSUME NEW n \in Nodes, DeliverTo(n) PROVE Kept' /\ OriginParts' /\ Terminal
  BY <1>0, <1>2, DeliverOrigin DEF DeliverTo
<1>3. ASSUME NEW n \in Nodes, \E locked \in BOOLEAN : SetMembershipLock(n, locked)
      PROVE  Kept' /\ OriginParts' /\ Terminal
  BY <1>0, <1>3, OperatorOrigin
<1>. QED
  BY <1>0, <1>1, <1>2, <1>3, AdmitOrigin, AdoptOrigin, InstallBaselineOrigin,
     SuspectMemberOrigin, DeclareDeadOrigin, DepartureOrigin, OperatorOrigin
     DEF Next

\* For any nodes, limits and loss or reordering of messages: every suspicion in
\* a view, a message or a snapshot was announced at exactly that incarnation,
\* and every death goes back to such a suspicion or to the subject's own Leave
\* (FailureHasOrigin): merging and relaying never invent a failure.
THEOREM FailuresHaveOrigins == Spec => []FailureHasOrigin
<1>1. Init => TypeOK /\ Kept /\ OriginParts
  BY InitType, InitOrigin
<1>2. TypeOK /\ Kept /\ OriginParts /\ [Next]_vars => (TypeOK /\ Kept /\ OriginParts)'
  BY NextType, NextOrigin
<1>3. OriginParts => FailureHasOrigin
  BY PartsHaveOrigin
<1>. QED  BY <1>1, <1>2, <1>3, PTL DEF Spec

\* For any nodes, limits and loss or reordering of messages: no step of a node
\* that stays brings a dead member back or moves its incarnation; only a
\* tombstone ends its record (DeathIsTerminal).
THEOREM DeadStayDead == Spec => DeathIsTerminal
<1>1. Init => TypeOK /\ Kept /\ OriginParts
  BY InitType, InitOrigin
<1>2. TypeOK /\ Kept /\ OriginParts /\ [Next]_vars => (TypeOK /\ Kept /\ OriginParts)'
  BY NextType, NextOrigin
<1>3. TypeOK /\ Kept /\ OriginParts /\ [Next]_vars => Terminal
  BY NextOrigin
<1>4. Terminal => [\A n, t \in Nodes :
          status'[n] = "in" /\ rep[n].members[t].state = "Dead" =>
             \/ rep'[n].members[t] = NoMember /\ rep'[n].tombs[t] # rep[n].tombs[t]
             \/ /\ rep'[n].members[t].state = "Dead"
                /\ rep'[n].members[t].inc = rep[n].members[t].inc]_vars
  BY DEF Terminal
<1>. QED  BY <1>1, <1>2, <1>3, <1>4, PTL DEF Spec, DeathIsTerminal

-----------------------------------------------------------------------------
(* The registers of operators' decisions.                                  *)

Decision(k, d) ==
    IF k = ThePolicy THEN d \in Policies /\ d.lock # "Unset" ELSE d \in Tombstones /\ d.state # "None"

\* Whatever a node holds has been sent by somebody.
HeldIsMade == \A n \in Nodes, k \in Registers : Holds(rep[n], k) \subseteq Made(k)

\* Whatever was sent decides something.
MadeIsReal == \A k \in Registers : \A d \in Made(k) : Decision(k, d)

Knows(r, k, v) == \E e \in Holds(r, k) : e.ver = v \/ Precedes(v, e.ver)

\* The author of a decision holds it or a newer one as long as it is there.
DecidersKnow ==
    \A n \in Nodes, k \in Registers : \A d \in Made(k) :
       d.ver.actor = n => /\ status[n] \notin {"out", "invited"}
                          /\ status[n] = "in" => Knows(rep[n], k, d.ver)

NewcomersAreBlank ==
    \A n \in Nodes : status[n] \in {"out", "invited"} =>
       sent[n] = {} /\ \A k \in Registers : Holds(rep[n], k) = {}

DecisionInv == HeldIsMade /\ MadeIsReal /\ DecidersKnow /\ NewcomersAreBlank

LEMMA RegisterCases ==
    /\ ThePolicy \notin Nodes /\ ThePolicy \in Registers
    /\ \A k \in Registers : k # ThePolicy => k \in Nodes
    /\ \A t \in Nodes : t \in Registers
BY NodesAssumption DEF ThePolicy, Registers

LEMMA OlderIsPrecedes == \A v, w : D!Older(v, w) <=> Precedes(v, w)
BY DEF D!Older, Precedes

\* VersionTuple's order.
LEMMA VersionOrder ==
    ASSUME NEW u \in Versions, NEW v \in Versions, NEW w \in Versions
    PROVE  /\ ~Precedes(u, u)
           /\ Precedes(u, v) /\ Precedes(v, w) => Precedes(u, w)
<1>1. \A x \in Versions : x.counter \in Nat /\ x.actor \in Nat
  <2>. SUFFICES ASSUME NEW x \in Versions PROVE x.counter \in Nat /\ x.actor \in Nat
    OBVIOUS
  <2>1. x.counter \in 0..MaxCounter /\ x.actor \in Nodes \cup {0}
    BY DEF Versions
  <2>2. Nodes \cup {0} \subseteq Nat /\ 0..MaxCounter \subseteq Nat
    BY MaxCounterAssumption, NodesAssumption
  <2>. QED  BY <2>1, <2>2
<1>. QED  BY <1>1 DEF Precedes

\* A successor is newer, and says who decided.
LEMMA SuccessorIsNewer ==
    ASSUME NEW v \in Versions, NEW n \in Nodes
    PROVE  Precedes(v, Successor(v, n)) /\ Successor(v, n).actor = n
<1>1. v.counter \in Nat
  BY MaxCounterAssumption DEF Versions
<1>2. Successor(v, n).counter = v.counter + 1 /\ Successor(v, n).actor = n
  BY DEF Successor
<1>. QED  BY <1>1, <1>2 DEF Precedes

LEMMA DecisionVersion == ASSUME NEW k, NEW d, Decision(k, d) PROVE d.ver \in Versions
BY DEF Decision, Policies, Tombstones

\* What is among the news of an update is what changed in a register.
LEMMA NewsOn ==
    ASSUME NEW n \in Nodes, NEW r, NEW s, NEW k \in Registers, NEW m \in News(n, r, s), IsOn(m, k)
    PROVE  IF k = ThePolicy THEN s.policy # r.policy /\ m.rec = s.policy
                            ELSE s.tombs[k] # r.tombs[k] /\ m.rec = s.tombs[k]
<1>1. CASE \E u \in Nodes : m = MemberDelta(u, s.members[u])
  BY <1>1 DEF MemberDelta, IsOn
<1>2. CASE \E u \in Nodes : s.tombs[u] # r.tombs[u] /\ m = TombstoneDelta(u, s.tombs[u])
  BY <1>2 DEF TombstoneDelta, IsOn
<1>3. CASE s.policy # r.policy /\ m = PolicyDelta(s.policy)
  BY <1>3 DEF PolicyDelta, IsOn
<1>4. CASE m = Announce("Alive", n, s.inc)
  BY <1>4 DEF Announce, IsOn
<1>. QED  BY <1>1, <1>2, <1>3, <1>4 DEF News

LEMMA OnNews ==
    ASSUME NEW n \in Nodes, NEW r, NEW s, NEW k \in Registers,
           IF k = ThePolicy THEN s.policy # r.policy ELSE s.tombs[k] # r.tombs[k]
    PROVE  \E m \in News(n, r, s) :
              IsOn(m, k) /\ m.rec = IF k = ThePolicy THEN s.policy ELSE s.tombs[k]
<1>1. CASE k = ThePolicy
  <2>1. PolicyDelta(s.policy) \in News(n, r, s)
    BY <1>1 DEF News
  <2>2. IsOn(PolicyDelta(s.policy), k) /\ PolicyDelta(s.policy).rec = s.policy
    BY <1>1 DEF PolicyDelta, IsOn
  <2>. QED  BY <1>1, <2>1, <2>2
<1>2. CASE k # ThePolicy
  <2>0. k \in Nodes
    BY <1>2, RegisterCases
  <2>1. TombstoneDelta(k, s.tombs[k]) \in News(n, r, s)
    BY <1>2, <2>0 DEF News
  <2>2. IsOn(TombstoneDelta(k, s.tombs[k]), k) /\ TombstoneDelta(k, s.tombs[k]).rec = s.tombs[k]
    BY <1>2 DEF TombstoneDelta, IsOn
  <2>. QED  BY <1>2, <2>1, <2>2
<1>. QED  BY <1>1, <1>2

LEMMA MadeMeans ==
    ASSUME NEW k, NEW d
    PROVE  d \in Made(k) <=> \E n \in Nodes : \E m \in sent[n] : IsOn(m, k) /\ m.rec = d
BY DEF Made

\* A register that changes shows the new decision, and it is not emptied.
Forwards(r, s) ==
    \A k \in Registers : Holds(s, k) = {} => Holds(r, k) = {}

\* After an update the decisions made are those before and what the node holds now.
LEMMA MadeAfter ==
    ASSUME TypeOK, HeldIsMade, NEW n \in Nodes, NEW s, NEW A, Become(n, s, A),
           \A m \in A : m.type = "announce", Forwards(rep[n], s), NEW k \in Registers
    PROVE  Made(k)' = Made(k) \cup Holds(s, k)
<1>0. \A u \in Nodes : sent'[u] = IF u = n THEN sent[n] \cup News(n, rep[n], s) \cup A ELSE sent[u]
  BY DEF Become, TypeOK
<1>1. PICK r : r = rep[n]
  OBVIOUS
<1>2. Holds(s, k) = {} => Holds(r, k) = {}
  BY <1>1 DEF Forwards
<1>3. \A d : d \in Made(k)' <=> \E u \in Nodes : \E m \in sent'[u] : IsOn(m, k) /\ m.rec = d
  BY DEF Made, IsOn
<1>4. ASSUME NEW d \in Made(k)' PROVE d \in Made(k) \cup Holds(s, k)
  <2>0. PICK u \in Nodes : \E m \in sent'[u] : IsOn(m, k) /\ m.rec = d
    BY <1>3
  <2>1. PICK m \in sent'[u] : IsOn(m, k) /\ m.rec = d
    BY <2>0
  <2>2. CASE m \in sent[u]
    BY <2>1, <2>2, MadeMeans
  <2>3. CASE m \in A
    BY <2>1, <2>3 DEF IsOn
  <2>4. CASE m \in News(n, r, s)
    <3>1. IF k = ThePolicy THEN s.policy # r.policy /\ d = s.policy
                           ELSE s.tombs[k] # r.tombs[k] /\ d = s.tombs[k]
      BY <2>1, <2>4, NewsOn
    <3>2. d \in Holds(s, k)
      BY <1>2, <3>1 DEF Holds
    <3>. QED  BY <3>2
  <2>. QED  BY <1>0, <1>1, <2>1, <2>2, <2>3, <2>4
<1>5. ASSUME NEW d \in Made(k) PROVE d \in Made(k)'
  <2>0. PICK u \in Nodes : \E m \in sent[u] : IsOn(m, k) /\ m.rec = d
    BY MadeMeans
  <2>1. PICK m \in sent[u] : IsOn(m, k) /\ m.rec = d
    BY <2>0
  <2>2. m \in sent'[u]
    BY <1>0, <2>1
  <2>. QED  BY <1>3, <2>1, <2>2
<1>6. ASSUME NEW d \in Holds(s, k) PROVE d \in Made(k)'
  <2>1. CASE Holds(s, k) = Holds(r, k)
    BY <1>1, <1>5, <1>6, <2>1 DEF HeldIsMade
  <2>2. CASE Holds(s, k) # Holds(r, k)
    <3>1. IF k = ThePolicy THEN s.policy # r.policy /\ d = s.policy
                           ELSE s.tombs[k] # r.tombs[k] /\ d = s.tombs[k]
      <4>1. CASE k = ThePolicy
        BY <1>6, <2>2, <4>1 DEF Holds
      <4>2. CASE k # ThePolicy
        BY <1>6, <2>2, <4>2 DEF Holds
      <4>. QED  BY <4>1, <4>2
    <3>2. PICK m \in News(n, r, s) : IsOn(m, k) /\ m.rec = d
      <4>1. \E m \in News(n, r, s) :
               IsOn(m, k) /\ m.rec = IF k = ThePolicy THEN s.policy ELSE s.tombs[k]
        <5>1. IF k = ThePolicy THEN s.policy # r.policy ELSE s.tombs[k] # r.tombs[k]
          BY <3>1
        <5>. QED  BY <5>1, OnNews
      <4>. QED  BY <3>1, <4>1
    <3>. QED  BY <1>0, <1>1, <1>3, <3>2
  <2>. QED  BY <2>1, <2>2
<1>. QED  BY <1>4, <1>5, <1>6

\* What an update may do to the registers of node n: leave them, or move them on to
\* decisions that others have made or that n makes.
MovesTo(n, s, k, d) ==
    /\ Holds(s, k) = {d} /\ D!MovesOn(Holds(rep[n], k), d)
    /\ Decision(k, d)
    /\ d \in Made(k) \/ d.ver.actor = n

MovesForwards(n, s) ==
    \A k \in Registers : Holds(s, k) = Holds(rep[n], k) \/ \E d : MovesTo(n, s, k, d)

\* Going forwards, a node still knows what it knew.
LEMMA StillKnows ==
    ASSUME TypeOK, DecisionInv, NEW n \in Nodes, NEW s, MovesForwards(n, s), NEW k \in Registers,
           NEW d, Decision(k, d), Knows(rep[n], k, d.ver)
    PROVE  Knows(s, k, d.ver)
<1>1. CASE Holds(s, k) = Holds(rep[n], k)
  BY <1>1 DEF Knows
<1>2. CASE \E e : MovesTo(n, s, k, e)
  <2>1. PICK e : MovesTo(n, s, k, e)
    BY <1>2
  <2>2. PICK c \in Holds(rep[n], k) : c.ver = d.ver \/ Precedes(d.ver, c.ver)
    BY DEF Knows
  <2>3. Precedes(c.ver, e.ver) /\ e \in Holds(s, k)
    BY <2>1, <2>2, OlderIsPrecedes DEF MovesTo, D!MovesOn
  <2>4. Decision(k, c)
    BY <2>2 DEF DecisionInv, HeldIsMade, MadeIsReal
  <2>5. c.ver \in Versions /\ d.ver \in Versions /\ e.ver \in Versions
    BY <2>1, <2>4, DecisionVersion DEF MovesTo
  <2>6. Precedes(d.ver, e.ver)
    BY <2>2, <2>3, <2>5, VersionOrder
  <2>. QED  BY <2>3, <2>6 DEF Knows
<1>. QED  BY <1>1, <1>2 DEF MovesForwards

LEMMA ForwardsIsForwards ==
    ASSUME NEW n \in Nodes, NEW s, MovesForwards(n, s) PROVE Forwards(rep[n], s)
BY DEF MovesForwards, MovesTo, Forwards

LEMMA BecomeDecisions ==
    ASSUME TypeOK, DecisionInv, NEW n \in Nodes, status[n] = "in", NEW s, NEW A, Become(n, s, A),
           \A m \in A : m.type = "announce", MovesForwards(n, s),
           \A u \in Nodes : status'[u] = status[u] \/ (status[u] = "out" /\ status'[u] = "invited")
    PROVE  DecisionInv' /\ \A k \in Registers : Made(k)' = Made(k) \cup Holds(s, k)
<1>1. \A k \in Registers : Made(k)' = Made(k) \cup Holds(s, k)
  BY ForwardsIsForwards, MadeAfter DEF DecisionInv
<1>2. \A u \in Nodes : rep'[u] = IF u = n THEN s ELSE rep[u]
  BY DEF Become, TypeOK
<1>3. ASSUME NEW k \in Registers, NEW d \in Made(k)' PROVE Decision(k, d)
  <2>1. CASE d \in Made(k)
    BY <2>1 DEF DecisionInv, MadeIsReal
  <2>2. CASE d \in Holds(s, k) /\ d \notin Made(k)
    BY <2>2 DEF DecisionInv, HeldIsMade, MovesForwards, MovesTo
  <2>. QED  BY <1>1, <2>1, <2>2
<1>4. HeldIsMade'
  BY <1>1, <1>2 DEF DecisionInv, HeldIsMade
<1>5. MadeIsReal'
  BY <1>3 DEF MadeIsReal
<1>6. NewcomersAreBlank'
  <2>. SUFFICES ASSUME NEW u \in Nodes, status'[u] \in {"out", "invited"}
                PROVE  sent'[u] = {} /\ \A k \in Registers : Holds(rep'[u], k) = {}
    BY DEF NewcomersAreBlank
  <2>1. u # n /\ status[u] \in {"out", "invited"}
    OBVIOUS
  <2>2. sent'[u] = sent[u] /\ rep'[u] = rep[u]
    BY <1>2, <2>1 DEF Become, TypeOK
  <2>. QED  BY <2>1, <2>2 DEF DecisionInv, NewcomersAreBlank
<1>7. DecidersKnow'
  <2>. SUFFICES ASSUME NEW u \in Nodes, NEW k \in Registers, NEW d \in Made(k)', d.ver.actor = u
                PROVE  /\ status'[u] \notin {"out", "invited"}
                       /\ status'[u] = "in" => Knows(rep'[u], k, d.ver)
    BY DEF DecidersKnow, Knows
  <2>1. CASE d \in Made(k)
    <3>1. status[u] \notin {"out", "invited"} /\ (status[u] = "in" => Knows(rep[u], k, d.ver))
      BY <2>1 DEF DecisionInv, DecidersKnow
    <3>2. status'[u] = status[u]
      BY <3>1
    <3>3. CASE u = n
      <4>1. Knows(s, k, d.ver)
        BY <1>3, <3>1, <3>3, StillKnows
      <4>. QED  BY <1>2, <3>1, <3>2, <3>3, <4>1
    <3>4. CASE u # n
      BY <1>2, <3>1, <3>2, <3>4
    <3>. QED  BY <3>3, <3>4
  <2>2. CASE d \notin Made(k)
    <3>1. d \in Holds(s, k)
      BY <1>1, <2>2
    <3>2. u = n
      BY <2>2, <3>1 DEF DecisionInv, HeldIsMade, MovesForwards, MovesTo
    <3>3. Knows(s, k, d.ver)
      BY <3>1 DEF Knows
    <3>. QED  BY <1>2, <3>2, <3>3
  <2>. QED  BY <2>1, <2>2
<1>. QED  BY <1>1, <1>4, <1>5, <1>6, <1>7 DEF DecisionInv

\* What the registers of the abstract specification are here.
MadeMap == [k \in Registers |-> Made(k)]
HeldMap == [n \in Nodes |-> [k \in Registers |-> Holds(rep[n], k)]]

\* The step is one of a register or leaves them all alone.
DecisionStep == DecisionInv' /\ [D!DecisionsNext]_(D!decisionVars)

LEMMA QuietUpdate ==
    ASSUME TypeOK, DecisionInv, NEW n \in Nodes, status[n] = "in", NEW s, NEW A, Become(n, s, A),
           \A m \in A : m.type = "announce",
           s.tombs = rep[n].tombs, s.policy = rep[n].policy,
           \A u \in Nodes : status'[u] = status[u] \/ (status[u] = "out" /\ status'[u] = "invited")
    PROVE  DecisionStep
<1>1. \A k \in Registers : Holds(s, k) = Holds(rep[n], k)
  BY DEF Holds
<1>2. MovesForwards(n, s)
  BY <1>1 DEF MovesForwards
<1>3. DecisionInv' /\ \A k \in Registers : Made(k)' = Made(k) \cup Holds(s, k)
  BY <1>2, BecomeDecisions
<1>4. \A k \in Registers : Made(k)' = Made(k)
  BY <1>1, <1>3 DEF DecisionInv, HeldIsMade
<1>5. \A u \in Nodes : rep'[u] = IF u = n THEN s ELSE rep[u]
  BY DEF Become, TypeOK
<1>6. \A u \in Nodes, k \in Registers : Holds(rep'[u], k) = Holds(rep[u], k)
  BY <1>1, <1>5
<1>7. MadeMap' = MadeMap
  BY <1>4 DEF MadeMap
<1>8. HeldMap' = HeldMap
  BY <1>6 DEF HeldMap
<1>9. UNCHANGED D!decisionVars
  BY <1>7, <1>8 DEF D!decisionVars, MadeMap, HeldMap
<1>. QED  BY <1>3, <1>9 DEF DecisionStep

\* One register moves on.
LEMMA RegisterUpdate ==
    ASSUME TypeOK, DecisionInv, NEW n \in Nodes, status[n] = "in", NEW s, NEW A, Become(n, s, A),
           \A m \in A : m.type = "announce", NEW j \in Registers, NEW d, MovesTo(n, s, j, d),
           \A k \in Registers : k # j => Holds(s, k) = Holds(rep[n], k), UNCHANGED status
    PROVE  DecisionStep
<1>1. MovesForwards(n, s)
  BY DEF MovesForwards
<1>2. DecisionInv' /\ \A k \in Registers : Made(k)' = Made(k) \cup Holds(s, k)
  BY <1>1, BecomeDecisions
<1>3. \A u \in Nodes : rep'[u] = IF u = n THEN s ELSE rep[u]
  BY DEF Become, TypeOK
<1>4. Holds(s, j) = {d} /\ D!MovesOn(Holds(rep[n], j), d)
  BY DEF MovesTo
<1>5. HeldMap' = [HeldMap EXCEPT ![n][j] = {d}]
  <2>1. \A u \in Nodes, k \in Registers :
           Holds(rep'[u], k) = IF u = n /\ k = j THEN {d} ELSE Holds(rep[u], k)
    BY <1>3, <1>4
  <2>. QED  BY <2>1 DEF HeldMap
<1>6. \A k \in Registers : Made(k)' = IF k = j THEN Made(j) \cup {d} ELSE Made(k)
  BY <1>2, <1>4 DEF DecisionInv, HeldIsMade
<1>7. D!MovesOn(HeldMap[n][j], d)
  BY <1>4 DEF HeldMap
<1>8. CASE d \in Made(j)
  <2>1. MadeMap' = MadeMap
    BY <1>6, <1>8 DEF MadeMap
  <2>2. d \in MadeMap[j]
    BY <1>8 DEF MadeMap
  <2>3. D!Learn(n, j, d)
    BY <1>5, <1>7, <2>1, <2>2 DEF D!Learn, D!Hold, MadeMap, HeldMap
  <2>4. d \in MadeMap'[j]
    BY <2>1, <2>2
  <2>5. D!DecisionsNext
    BY <2>3, <2>4 DEF D!DecisionsNext, MadeMap
  <2>. QED  BY <1>2, <2>5 DEF DecisionStep
<1>9. CASE d \notin Made(j)
  <2>1. MadeMap' = [MadeMap EXCEPT ![j] = @ \cup {d}]
    BY <1>6 DEF MadeMap
  <2>2. ASSUME NEW e \in Made(j) PROVE e.ver # d.ver
    <3>. SUFFICES ASSUME e.ver = d.ver PROVE FALSE
      OBVIOUS
    <3>1. d.ver.actor = n
      BY <1>9 DEF MovesTo
    <3>2. PICK c \in Holds(rep[n], j) : c.ver = e.ver \/ Precedes(e.ver, c.ver)
      BY <3>1 DEF DecisionInv, DecidersKnow, Knows
    <3>3. Precedes(c.ver, d.ver)
      BY <1>4, <3>2, OlderIsPrecedes DEF D!MovesOn
    <3>4. Decision(j, c) /\ Decision(j, d)
      BY <3>2 DEF DecisionInv, HeldIsMade, MadeIsReal, MovesTo
    <3>5. c.ver \in Versions /\ d.ver \in Versions
      BY <3>4, DecisionVersion
    <3>. QED  BY <3>2, <3>3, <3>5, VersionOrder
  <2>3. \A e \in MadeMap[j] : e.ver # d.ver
    BY <2>2 DEF MadeMap
  <2>4. D!Decide(n, j, d)
    BY <1>5, <1>7, <2>1, <2>3 DEF D!Decide, D!Hold, MadeMap, HeldMap
  <2>5. d \in MadeMap'[j]
    BY <1>6 DEF MadeMap
  <2>6. D!DecisionsNext
    BY <2>4, <2>5 DEF D!DecisionsNext, MadeMap
  <2>. QED  BY <1>2, <2>6 DEF DecisionStep
<1>. QED  BY <1>8, <1>9

\* merge_tombstone of a decision that the node makes or is told of.
LEMMA TombstoneUpdate ==
    ASSUME TypeOK, DecisionInv, NEW n \in Nodes, status[n] = "in", NEW t \in Nodes, NEW b,
           Decision(t, b), b \in Made(t) \/ b.ver.actor = n,
           NEW s, s = MergeTombstone(rep[n], t, b), Become(n, s, {}), UNCHANGED status
    PROVE  DecisionStep
<1>0. rep[n] \in Replicas
  BY DEF TypeOK
<1>1. CASE s = rep[n]
  BY <1>1, QuietUpdate
<1>2. CASE s # rep[n]
  <2>1. /\ IF rep[n].tombs[t].state = "None" THEN TRUE ELSE Precedes(rep[n].tombs[t].ver, b.ver)
        /\ s = [rep[n] EXCEPT !.tombs[t] = b, !.members[t] = NoMember, !.susp[t] = NoDeadline]
    BY <1>2 DEF MergeTombstone
  <2>2. s.tombs = [rep[n].tombs EXCEPT ![t] = b] /\ s.policy = rep[n].policy
    BY <1>0, <2>1 DEF Replicas
  <2>3. s.tombs[t] = b /\ \A k \in Nodes : k # t => s.tombs[k] = rep[n].tombs[k]
    BY <1>0, <2>2 DEF Replicas
  <2>4. \A k \in Registers : k # t => Holds(s, k) = Holds(rep[n], k)
    BY <2>2, <2>3, RegisterCases DEF Holds
  <2>5. t # ThePolicy /\ t \in Registers
    BY RegisterCases
  <2>6. b # NoTombstone
    BY <2>5 DEF Decision, NoTombstone
  <2>7. Holds(s, t) = {b}
    BY <2>3, <2>5, <2>6 DEF Holds
  <2>8. D!MovesOn(Holds(rep[n], t), b)
    <3>. SUFFICES ASSUME NEW e \in Holds(rep[n], t) PROVE Precedes(e.ver, b.ver)
      BY OlderIsPrecedes DEF D!MovesOn
    <3>1. e = rep[n].tombs[t]
      BY <2>5 DEF Holds
    <3>2. Decision(t, e)
      BY <2>5 DEF DecisionInv, HeldIsMade, MadeIsReal
    <3>3. e.state # "None"
      BY <2>5, <3>2 DEF Decision
    <3>. QED  BY <2>1, <3>1, <3>3
  <2>9. MovesTo(n, s, t, b)
    BY <2>7, <2>8 DEF MovesTo
  <2>. QED  BY <2>4, <2>5, <2>9, RegisterUpdate
<1>. QED  BY <1>1, <1>2

\* merge_policy of a decision that the node makes or is told of.
LEMMA PolicyUpdate ==
    ASSUME TypeOK, DecisionInv, NEW n \in Nodes, status[n] = "in", NEW p,
           Decision(ThePolicy, p), p \in Made(ThePolicy) \/ p.ver.actor = n,
           NEW s, s = MergePolicy(rep[n], p), Become(n, s, {}), UNCHANGED status
    PROVE  DecisionStep
<1>0. rep[n] \in Replicas
  BY DEF TypeOK
<1>1. CASE s = rep[n]
  BY <1>1, QuietUpdate
<1>2. CASE s # rep[n]
  <2>1. /\ rep[n].policy.lock = "Unset" \/ Precedes(rep[n].policy.ver, p.ver)
        /\ s = [rep[n] EXCEPT !.policy = p]
    BY <1>2 DEF MergePolicy
  <2>2. s.tombs = rep[n].tombs /\ s.policy = p
    BY <1>0, <2>1 DEF Replicas
  <2>3. \A k \in Registers : k # ThePolicy => Holds(s, k) = Holds(rep[n], k)
    BY <2>2 DEF Holds
  <2>4. p # NoPolicy
    BY DEF Decision, NoPolicy
  <2>5. Holds(s, ThePolicy) = {p}
    BY <2>2, <2>4 DEF Holds
  <2>6. D!MovesOn(Holds(rep[n], ThePolicy), p)
    <3>. SUFFICES ASSUME NEW e \in Holds(rep[n], ThePolicy) PROVE Precedes(e.ver, p.ver)
      BY OlderIsPrecedes DEF D!MovesOn
    <3>1. e = rep[n].policy
      BY DEF Holds
    <3>2. Decision(ThePolicy, e)
      BY RegisterCases DEF DecisionInv, HeldIsMade, MadeIsReal
    <3>3. e.lock # "Unset"
      BY <3>2 DEF Decision
    <3>. QED  BY <2>1, <3>1, <3>3
  <2>7. MovesTo(n, s, ThePolicy, p)
    BY <2>5, <2>6 DEF MovesTo
  <2>. QED  BY <2>3, <2>7, RegisterCases, RegisterUpdate
<1>. QED  BY <1>1, <1>2

\* Nothing about liveness touches a register.
SameRegisters(r, s) == s.tombs = r.tombs /\ s.policy = r.policy

LEMMA RefuteRegisters ==
    ASSUME NEW self, NEW r \in Replicas, NEW i, NEW s, s = Refute(self, r, i) PROVE SameRegisters(r, s)
BY DEF Refute, SameRegisters, Replicas

LEMMA ChallengeRegisters ==
    ASSUME NEW self, NEW r \in Replicas, NEW st, NEW i, NEW s, s = Challenge(self, r, st, i)
    PROVE  SameRegisters(r, s)
BY RefuteRegisters DEF Challenge, SameRegisters

LEMMA MergeMemberRegisters ==
    ASSUME NEW self, NEW r \in Replicas, NEW t, NEW m, NEW s, s = MergeMember(self, r, t, m)
    PROVE  SameRegisters(r, s)
<1>1. CASE s = r \/ s = Challenge(self, r, m.state, m.inc)
  BY <1>1, ChallengeRegisters DEF SameRegisters
<1>2. CASE s = [r EXCEPT !.members[t] = m]
  BY <1>2 DEF SameRegisters, Replicas
<1>3. CASE s = [r EXCEPT !.members[t] = Merged(@, m), !.susp[t] = Deadline(r.members[t], m, @)]
  BY <1>3 DEF SameRegisters, Replicas
<1>. QED  BY <1>1, <1>2, <1>3 DEF MergeMember

LEMMA AnnouncementRegisters ==
    ASSUME NEW self, NEW r \in Replicas, NEW u, NEW kind, NEW t, NEW i,
           NEW s, s = ApplyAnnouncement(self, r, u, kind, t, i)
    PROVE  SameRegisters(r, s)
<1>1. CASE s = r \/ s = Challenge(self, r, Claimed(kind), i)
  BY <1>1, ChallengeRegisters DEF SameRegisters
<1>2. CASE s = [r EXCEPT !.members[t].state = Claimed(kind), !.members[t].inc = Effective(kind, i),
                         !.susp[t] = IF Claimed(kind) # "Suspected" THEN NoDeadline ELSE @]
  BY <1>2 DEF SameRegisters, Replicas
<1>. QED  BY <1>1, <1>2 DEF ApplyAnnouncement

LEMMA SuspectRegisters ==
    ASSUME NEW self \in Nodes, NEW r \in Replicas, NEW t \in Nodes, NEW i \in Incarnations,
           NEW s, s = Suspect(self, r, t, i)
    PROVE  SameRegisters(r, s)
<1>1. PICK a : a = ApplyAnnouncement(self, r, self, "Suspect", t, i)
  OBVIOUS
<1>2. a \in Replicas /\ SameRegisters(r, a)
  BY <1>1, AnnouncementType, AnnouncementRegisters
<1>3. s = a \/ s = [a EXCEPT !.susp[t] = i]
  BY <1>1 DEF Suspect
<1>. QED  BY <1>2, <1>3 DEF SameRegisters, Replicas

LEMMA ExpireSuspicionRegisters ==
    ASSUME NEW self \in Nodes, NEW r \in Replicas, NEW t \in Nodes,
           NEW s, s = ExpireSuspicion(self, r, t)
    PROVE  SameRegisters(r, s)
<1>1. PICK a : a = [r EXCEPT !.susp[t] = NoDeadline]
  OBVIOUS
<1>2. a \in Replicas /\ SameRegisters(r, a)
  BY <1>1 DEF SameRegisters, Replicas
<1>3. SameRegisters(a, s)
  BY <1>1, <1>2, AnnouncementRegisters DEF ExpireSuspicion
<1>. QED  BY <1>2, <1>3 DEF SameRegisters

-----------------------------------------------------------------------------
(* One lemma per action.                                                   *)

LEMMA AdmitDecision ==
    ASSUME TypeOK, DecisionInv, NEW i \in Nodes, NEW x \in Nodes, Admit(i, x) PROVE DecisionStep
<1>1. PICK s : s = [rep[i] EXCEPT !.members[x] = [state |-> "Alive", inc |-> 0, ver |-> Initial(i)]]
  OBVIOUS
<1>2. status[i] = "in" /\ Become(i, s, {})
  BY <1>1 DEF Admit
<1>3. s.tombs = rep[i].tombs /\ s.policy = rep[i].policy
  BY <1>1 DEF TypeOK, Replicas
<1>4. \A u \in Nodes : status'[u] = status[u] \/ (status[u] = "out" /\ status'[u] = "invited")
  BY DEF Admit, TypeOK
<1>. QED  BY <1>2, <1>3, <1>4, QuietUpdate

LEMMA SuspectMemberDecision ==
    ASSUME TypeOK, DecisionInv, NEW n \in Nodes, NEW t \in Nodes, SuspectMember(n, t) PROVE DecisionStep
<1>1. rep[n] \in Replicas /\ rep[n].members[t].inc \in Incarnations
  BY DEF TypeOK, Replicas, Members
<1>2. PICK i \in Incarnations : i = rep[n].members[t].inc
  BY <1>1
<1>3. PICK s : s = Suspect(n, rep[n], t, i)
  OBVIOUS
<1>4. SameRegisters(rep[n], s)
  BY <1>1, <1>3, SuspectRegisters
<1>5. status[n] = "in" /\ Become(n, s, {Announce("Suspect", t, i)}) /\ UNCHANGED status
  BY <1>2, <1>3 DEF SuspectMember
<1>6. \A m \in {Announce("Suspect", t, i)} : m.type = "announce"
  BY DEF Announce
<1>. QED  BY <1>4, <1>5, <1>6, QuietUpdate DEF SameRegisters

LEMMA DeclareDeadDecision ==
    ASSUME TypeOK, DecisionInv, NEW n \in Nodes, NEW t \in Nodes, DeclareDead(n, t) PROVE DecisionStep
<1>. DEFINE i == rep[n].susp[t]
            A == {Announce("Dead", t, i) : x \in {y \in {1} : Adopts(n, rep[n], n, "Dead", t, i)}}
<1>1. rep[n] \in Replicas
  BY DEF TypeOK
<1>2. PICK s : s = ExpireSuspicion(n, rep[n], t)
  OBVIOUS
<1>3. SameRegisters(rep[n], s)
  BY <1>1, <1>2, ExpireSuspicionRegisters
<1>4. status[n] = "in" /\ Become(n, s, A) /\ UNCHANGED status
  BY <1>2 DEF DeclareDead
<1>5. \A m \in A : m.type = "announce"
  BY DEF Announce
<1>. HIDE DEF A
<1>. QED  BY <1>3, <1>4, <1>5, QuietUpdate DEF SameRegisters

LEMMA DeliverDecision ==
    ASSUME TypeOK, DecisionInv, NEW n \in Nodes, NEW u \in Nodes, NEW m \in sent[u], Deliver(n, u, m)
    PROVE  DecisionStep
<1>0. rep[n] \in Replicas /\ m \in Messages
  BY DEF TypeOK
<1>1. status[n] = "in" /\ UNCHANGED status /\ Become(n, Receive(n, u, m), {})
  BY DEF Deliver
<1>2. CASE m.type = "member"
  <2>1. PICK s : s = MergeMember(n, rep[n], m.id, m.rec)
    OBVIOUS
  <2>2. Become(n, s, {}) /\ SameRegisters(rep[n], s)
    BY <1>0, <1>1, <1>2, <2>1, MergeMemberRegisters DEF Receive
  <2>. QED  BY <1>1, <2>2, QuietUpdate DEF SameRegisters
<1>3. CASE m.type = "announce"
  <2>1. PICK s : s = ApplyAnnouncement(n, rep[n], u, m.kind, m.id, m.inc)
    OBVIOUS
  <2>2. Become(n, s, {}) /\ SameRegisters(rep[n], s)
    BY <1>0, <1>1, <1>3, <2>1, AnnouncementRegisters DEF Receive
  <2>. QED  BY <1>1, <2>2, QuietUpdate DEF SameRegisters
<1>4. CASE m.type = "tombstone"
  <2>0. m.id \in Nodes /\ m.id \in Registers
    BY <1>0, <1>4, MessageCases, RegisterCases
  <2>1. PICK s : s = MergeTombstone(rep[n], m.id, m.rec)
    OBVIOUS
  <2>2. Become(n, s, {})
    BY <1>1, <1>4, <2>1 DEF Receive
  <2>3. m.rec \in Made(m.id)
    <3>1. IsOn(m, m.id)
      BY <1>4, <2>0, RegisterCases DEF IsOn
    <3>. QED  BY <3>1, MadeMeans
  <2>4. Decision(m.id, m.rec)
    BY <2>0, <2>3 DEF DecisionInv, MadeIsReal
  <2>. QED  BY <1>1, <2>0, <2>1, <2>2, <2>3, <2>4, TombstoneUpdate
<1>5. CASE m.type = "policy"
  <2>1. PICK s : s = MergePolicy(rep[n], m.rec)
    OBVIOUS
  <2>2. Become(n, s, {})
    BY <1>1, <1>5, <2>1 DEF Receive
  <2>3. m.rec \in Made(ThePolicy)
    <3>1. IsOn(m, ThePolicy)
      BY <1>5 DEF IsOn
    <3>. QED  BY <3>1, MadeMeans
  <2>4. Decision(ThePolicy, m.rec)
    BY <2>3, RegisterCases DEF DecisionInv, MadeIsReal
  <2>. QED  BY <1>1, <2>1, <2>2, <2>3, <2>4, PolicyUpdate
<1>. QED  BY <1>0, <1>2, <1>3, <1>4, <1>5, MessageCases

LEMMA RemoveMemberDecision ==
    ASSUME TypeOK, DecisionInv, NEW n \in Nodes, NEW t \in Nodes, RemoveMember(n, t) PROVE DecisionStep
<1>1. rep[n] \in Replicas /\ rep[n].members[t].ver \in Versions
  BY DEF TypeOK, Replicas, Members
<1>2. PICK v \in Versions : v = rep[n].members[t].ver
  BY <1>1
<1>3. PICK b : b = [state |-> "Fenced", ver |-> Successor(v, n)]
  OBVIOUS
<1>4. status[n] = "in" /\ HasSuccessor(v) /\ UNCHANGED status
  BY <1>2 DEF RemoveMember, CanRemove
<1>5. b \in Tombstones /\ b.state = "Fenced" /\ b.ver.actor = n
  <2>1. b \in Tombstones
    BY <1>3, <1>4, NewTombstoneType
  <2>2. b.state = "Fenced" /\ b.ver = Successor(v, n)
    BY <1>3
  <2>. QED  BY <2>1, <2>2, SuccessorIsNewer
<1>6. Decision(t, b)
  BY <1>5, RegisterCases DEF Decision
<1>7. PICK s : s = MergeTombstone(rep[n], t, b)
  OBVIOUS
<1>8. Become(n, s, {})
  BY <1>2, <1>3, <1>7 DEF RemoveMember, Removed
<1>. QED  BY <1>4, <1>5, <1>6, <1>7, <1>8, TombstoneUpdate

LEMMA ClearTombstoneDecision ==
    ASSUME TypeOK, DecisionInv, NEW n \in Nodes, NEW t \in Nodes, ClearTombstone(n, t) PROVE DecisionStep
<1>1. rep[n] \in Replicas /\ rep[n].tombs[t].ver \in Versions
  BY DEF TypeOK, Replicas, Tombstones
<1>2. PICK v \in Versions : v = rep[n].tombs[t].ver
  BY <1>1
<1>3. PICK b : b = [state |-> "Cleared", ver |-> Successor(v, n)]
  OBVIOUS
<1>4. status[n] = "in" /\ HasSuccessor(v) /\ UNCHANGED status
  BY <1>2 DEF ClearTombstone
<1>5. b \in Tombstones /\ b.state = "Cleared" /\ b.ver.actor = n /\ Precedes(v, b.ver)
  <2>1. b \in Tombstones
    BY <1>3, <1>4, NewTombstoneType
  <2>2. b.state = "Cleared" /\ b.ver = Successor(v, n)
    BY <1>3
  <2>. QED  BY <2>1, <2>2, SuccessorIsNewer
<1>6. PICK s : s = [rep[n] EXCEPT !.tombs[t] = b]
  OBVIOUS
<1>7. Become(n, s, {})
  BY <1>2, <1>3, <1>6 DEF ClearTombstone
<1>8. t # ThePolicy /\ t \in Registers
  BY RegisterCases
<1>9. /\ s.tombs[t] = b /\ s.policy = rep[n].policy
      /\ \A k \in Nodes : k # t => s.tombs[k] = rep[n].tombs[k]
  BY <1>1, <1>6 DEF Replicas
<1>10. \A k \in Registers : k # t => Holds(s, k) = Holds(rep[n], k)
  BY <1>9, RegisterCases DEF Holds
<1>11. Decision(t, b) /\ b # NoTombstone
  BY <1>5, <1>8 DEF Decision, NoTombstone
<1>12. Holds(s, t) = {b}
  BY <1>8, <1>9, <1>11 DEF Holds
<1>13. D!MovesOn(Holds(rep[n], t), b)
  BY <1>2, <1>5, <1>8, OlderIsPrecedes DEF D!MovesOn, Holds
<1>14. MovesTo(n, s, t, b)
  BY <1>5, <1>11, <1>12, <1>13 DEF MovesTo
<1>. QED  BY <1>4, <1>7, <1>8, <1>10, <1>14, RegisterUpdate

LEMMA SetMembershipLockDecision ==
    ASSUME TypeOK, DecisionInv, NEW n \in Nodes, NEW locked \in BOOLEAN, SetMembershipLock(n, locked)
    PROVE  DecisionStep
<1>. DEFINE base == IF rep[n].policy = NoPolicy THEN Initial(n) ELSE rep[n].policy.ver
<1>1. rep[n] \in Replicas /\ rep[n].policy.ver \in Versions
  BY DEF TypeOK, Replicas, Policies
<1>2. base \in Versions
  BY <1>1, ConstantTypes
<1>3. PICK p : p = [lock |-> IF locked THEN "Locked" ELSE "Open", ver |-> Successor(base, n)]
  OBVIOUS
<1>4. PICK s : s = MergePolicy(rep[n], p)
  OBVIOUS
<1>5. status[n] = "in" /\ HasSuccessor(base) /\ Become(n, s, {}) /\ UNCHANGED status
  BY <1>3, <1>4 DEF SetMembershipLock
<1>. HIDE DEF base
<1>6. Successor(base, n) \in Versions /\ Successor(base, n).actor = n
  BY <1>2, <1>5, SuccessorType, SuccessorIsNewer
<1>7. p \in Policies /\ p.lock # "Unset" /\ p.ver.actor = n
  BY <1>3, <1>6 DEF Policies
<1>8. Decision(ThePolicy, p)
  BY <1>7 DEF Decision
<1>. QED  BY <1>4, <1>5, <1>7, <1>8, PolicyUpdate

\* The registers of a node that leaves are forgotten, and nobody else's.
LEMMA RetireDecision ==
    ASSUME TypeOK, DecisionInv, NEW n \in Nodes, status[n] = "in", NEW st \in {"left", "down"}, Retire(n, st),
           sent' = sent \/ \E i : sent' = [sent EXCEPT ![n] = @ \cup {Announce("Leave", n, i)}]
    PROVE  DecisionStep
<1>1. \A u \in Nodes : u # n => rep'[u] = rep[u] /\ status'[u] = status[u]
  BY DEF Retire, TypeOK
<1>2. status'[n] = st /\ \A k \in Registers : Holds(rep'[n], k) = {}
  <2>1. status'[n] = st /\ rep'[n] = Bare(rep[n].inc)
    BY DEF Retire, TypeOK
  <2>2. ASSUME NEW k \in Registers, NEW r, r = Bare(rep[n].inc) PROVE Holds(r, k) = {}
    <3>1. r.policy = NoPolicy /\ \A t \in Nodes : r.tombs[t] = NoTombstone
      BY <2>2 DEF Bare
    <3>. QED  BY <3>1, RegisterCases DEF Holds
  <2>. QED  BY <2>1, <2>2
<1>3. ASSUME NEW k \in Registers PROVE Made(k)' = Made(k)
  <2>1. \A d : d \in Made(k)' <=> \E u \in Nodes : \E m \in sent'[u] : IsOn(m, k) /\ m.rec = d
    BY DEF Made, IsOn
  <2>2. ASSUME NEW u \in Nodes, NEW m, IsOn(m, k) PROVE m \in sent'[u] <=> m \in sent[u]
    <3>1. \A i : m # Announce("Leave", n, i)
      BY <2>2 DEF IsOn, Announce
    <3>. QED  BY <3>1 DEF TypeOK
  <2>3. \A d : d \in Made(k)' <=> d \in Made(k)
    BY <2>1, <2>2, MadeMeans
  <2>. QED  BY <2>3
<1>4. HeldIsMade' /\ MadeIsReal'
  BY <1>1, <1>2, <1>3 DEF DecisionInv, HeldIsMade, MadeIsReal
<1>5. NewcomersAreBlank'
  <2>. SUFFICES ASSUME NEW u \in Nodes, status'[u] \in {"out", "invited"}
                PROVE  sent'[u] = {} /\ \A k \in Registers : Holds(rep'[u], k) = {}
    BY DEF NewcomersAreBlank
  <2>1. u # n
    BY <1>2
  <2>2. sent'[u] = sent[u]
    BY <2>1 DEF TypeOK
  <2>. QED  BY <1>1, <2>1, <2>2 DEF DecisionInv, NewcomersAreBlank
<1>6. DecidersKnow'
  <2>. SUFFICES ASSUME NEW u \in Nodes, NEW k \in Registers, NEW d \in Made(k)', d.ver.actor = u
                PROVE  /\ status'[u] \notin {"out", "invited"}
                       /\ status'[u] = "in" => Knows(rep'[u], k, d.ver)
    BY DEF DecidersKnow, Knows
  <2>1. CASE u = n
    BY <1>2, <2>1
  <2>2. CASE u # n
    BY <1>1, <1>3, <2>2 DEF DecisionInv, DecidersKnow
  <2>. QED  BY <2>1, <2>2
<1>7. MadeMap' = MadeMap
  BY <1>3 DEF MadeMap
<1>8. HeldMap' = [HeldMap EXCEPT ![n] = [k \in Registers |-> {}]]
  BY <1>1, <1>2 DEF HeldMap
<1>9. D!Forget(n)
  BY <1>7, <1>8 DEF D!Forget, D!Nothing, MadeMap, HeldMap
<1>10. D!DecisionsNext
  BY <1>9 DEF D!DecisionsNext
<1>. QED  BY <1>4, <1>5, <1>6, <1>10 DEF DecisionInv, DecisionStep

LEMMA DepartureDecision ==
    ASSUME TypeOK, DecisionInv, NEW n \in Nodes, Leave(n) \/ Crash(n) PROVE DecisionStep
<1>1. CASE Leave(n)
  BY <1>1, RetireDecision DEF Leave
<1>2. CASE Crash(n)
  BY <1>2, RetireDecision DEF Crash
<1>. QED  BY <1>1, <1>2

LEMMA AdoptDecision == ASSUME TypeOK, DecisionInv, NEW x \in Nodes, Adopt(x) PROVE DecisionStep
<1>0. status[x] = "invited" /\ sent[x] = {} /\ \A k \in Registers : Holds(rep[x], k) = {}
  BY DEF Adopt, DecisionInv, NewcomersAreBlank
<1>1. \A u \in Nodes : u # x => rep'[u] = rep[u] /\ status'[u] = status[u] /\ sent'[u] = sent[u]
  BY DEF Adopt, TypeOK
<1>2. status'[x] = "in" /\ sent'[x] = Introduction(x, offer[x])
  BY DEF Adopt, TypeOK
<1>3. \A k \in Registers : Holds(rep'[x], k) = {}
  <2>1. rep'[x] = [Bare(0) EXCEPT !.members = offer[x]]
    BY DEF Adopt, TypeOK
  <2>2. ASSUME NEW k \in Registers, NEW r, r = [Bare(0) EXCEPT !.members = offer[x]] PROVE Holds(r, k) = {}
    <3>1. r.policy = NoPolicy /\ \A t \in Nodes : r.tombs[t] = NoTombstone
      BY <2>2 DEF Bare
    <3>. QED  BY <3>1, RegisterCases DEF Holds
  <2>. QED  BY <2>1, <2>2
<1>4. ASSUME NEW k \in Registers PROVE Made(k)' = Made(k)
  <2>1. \A d : d \in Made(k)' <=> \E u \in Nodes : \E m \in sent'[u] : IsOn(m, k) /\ m.rec = d
    BY DEF Made, IsOn
  <2>2. ASSUME NEW u \in Nodes, NEW m, IsOn(m, k) PROVE m \in sent'[u] <=> m \in sent[u]
    <3>1. m \notin Introduction(x, offer[x])
      BY <2>2 DEF Introduction, MemberDelta, Announce, IsOn
    <3>. QED  BY <1>0, <1>1, <1>2, <3>1
  <2>3. \A d : d \in Made(k)' <=> d \in Made(k)
    BY <2>1, <2>2, MadeMeans
  <2>. QED  BY <2>3
<1>5. HeldIsMade' /\ MadeIsReal'
  BY <1>1, <1>3, <1>4 DEF DecisionInv, HeldIsMade, MadeIsReal
<1>6. NewcomersAreBlank'
  <2>. SUFFICES ASSUME NEW u \in Nodes, status'[u] \in {"out", "invited"}
                PROVE  sent'[u] = {} /\ \A k \in Registers : Holds(rep'[u], k) = {}
    BY DEF NewcomersAreBlank
  <2>1. u # x
    BY <1>2
  <2>. QED  BY <1>1, <2>1 DEF DecisionInv, NewcomersAreBlank
<1>7. DecidersKnow'
  <2>. SUFFICES ASSUME NEW u \in Nodes, NEW k \in Registers, NEW d \in Made(k)', d.ver.actor = u
                PROVE  /\ status'[u] \notin {"out", "invited"}
                       /\ status'[u] = "in" => Knows(rep'[u], k, d.ver)
    BY DEF DecidersKnow, Knows
  <2>1. u # x
    BY <1>0, <1>4 DEF DecisionInv, DecidersKnow
  <2>. QED  BY <1>1, <1>4, <2>1 DEF DecisionInv, DecidersKnow
<1>8. MadeMap' = MadeMap
  BY <1>4 DEF MadeMap
<1>9. HeldMap' = HeldMap
  <2>1. \A u \in Nodes, k \in Registers : Holds(rep'[u], k) = Holds(rep[u], k)
    BY <1>0, <1>1, <1>3
  <2>. QED  BY <2>1 DEF HeldMap
<1>10. UNCHANGED D!decisionVars
  BY <1>8, <1>9 DEF D!decisionVars, MadeMap, HeldMap
<1>. QED  BY <1>5, <1>6, <1>7, <1>10 DEF DecisionInv, DecisionStep

\* baseline::merge, register by register.
TakesOver(r, b, k) == \E d \in Holds(b, k) : D!MovesOn(Holds(r, k), d)

LEMMA BaselineTombstone ==
    ASSUME NEW r, NEW b, NEW s, NEW t \in Nodes,
           s.tombs[t] = IF /\ b.tombs[t] # NoTombstone
                           /\ r.tombs[t] = NoTombstone \/ Precedes(r.tombs[t].ver, b.tombs[t].ver)
                        THEN b.tombs[t] ELSE r.tombs[t]
    PROVE  Holds(s, t) = IF TakesOver(r, b, t) THEN Holds(b, t) ELSE Holds(r, t)
<1>1. t # ThePolicy
  BY RegisterCases
<1>2. \A d \in Holds(b, t) : d = b.tombs[t] /\ b.tombs[t] # NoTombstone
  BY <1>1 DEF Holds
<1>3. TakesOver(r, b, t) <=> /\ b.tombs[t] # NoTombstone
                             /\ r.tombs[t] = NoTombstone \/ Precedes(r.tombs[t].ver, b.tombs[t].ver)
  BY <1>1, <1>2, OlderIsPrecedes DEF TakesOver, Holds, D!MovesOn
<1>. QED  BY <1>1, <1>3 DEF Holds

LEMMA BaselinePolicy ==
    ASSUME NEW r, NEW b, NEW s, r.policy \in Policies, b.policy \in Policies,
           r.policy.lock = "Unset" => r.policy = NoPolicy,
           b.policy.lock = "Unset" => b.policy = NoPolicy,
           s.policy = IF r.policy.lock = "Unset" \/ Precedes(r.policy.ver, b.policy.ver)
                      THEN b.policy ELSE r.policy
    PROVE  Holds(s, ThePolicy) = IF TakesOver(r, b, ThePolicy) THEN Holds(b, ThePolicy)
                                                               ELSE Holds(r, ThePolicy)
<1>0. NoPolicy.lock = "Unset" /\ NoPolicy.ver = NoVersion
  BY DEF NoPolicy
<1>1. ~Precedes(r.policy.ver, NoVersion)
  <2>1. r.policy.ver \in Versions
    BY DEF Policies
  <2>2. r.policy.ver.counter \in Nat /\ r.policy.ver.actor \in Nat
    <3>1. r.policy.ver.counter \in 0..MaxCounter /\ r.policy.ver.actor \in Nodes \cup {0}
      BY <2>1 DEF Versions
    <3>2. Nodes \cup {0} \subseteq Nat /\ 0..MaxCounter \subseteq Nat
      BY MaxCounterAssumption, NodesAssumption
    <3>. QED  BY <3>1, <3>2
  <2>3. NoVersion.counter = 0 /\ NoVersion.actor = 0
    BY DEF NoVersion, Initial
  <2>. QED  BY <2>2, <2>3 DEF Precedes
<1>2. TakesOver(r, b, ThePolicy) <=> /\ b.policy # NoPolicy
                                     /\ r.policy = NoPolicy \/ Precedes(r.policy.ver, b.policy.ver)
  BY OlderIsPrecedes DEF TakesOver, Holds, D!MovesOn
<1>3. CASE b.policy = NoPolicy
  BY <1>0, <1>1, <1>2, <1>3 DEF Holds
<1>4. CASE b.policy # NoPolicy
  BY <1>0, <1>2, <1>4 DEF Holds
<1>. QED  BY <1>3, <1>4

LEMMA InstallBaselineDecision ==
    ASSUME TypeOK, DecisionInv, NEW n \in Nodes, NEW src \in Nodes, InstallBaseline(n, src)
    PROVE  DecisionStep
<1>. DEFINE r == rep[n]
            b == rep[src]
            Taken == {t \in Nodes : /\ b.tombs[t] # NoTombstone
                                    /\ \/ r.tombs[t] = NoTombstone
                                       \/ Precedes(r.tombs[t].ver, b.tombs[t].ver)}
            tombs == [t \in Nodes |-> IF t \in Taken THEN b.tombs[t] ELSE r.tombs[t]]
            q == MergePolicy(r, b.policy)
            new == [q EXCEPT !.tombs = tombs, !.members = Without(@, Taken),
                             !.susp = [t \in Nodes |-> IF t \in Taken THEN NoDeadline ELSE @[t]]]
<1>1. PICK s : s = new
  OBVIOUS
<1>2. status[n] = "in" /\ Become(n, s, {}) /\ UNCHANGED status
  BY <1>1 DEF InstallBaseline
<1>3. r \in Replicas /\ b \in Replicas /\ r.policy \in Policies /\ b.policy \in Policies
  BY DEF TypeOK, Replicas
<1>4. q \in Replicas
  BY <1>3, MergePolicyType
<1>5. q.policy = IF r.policy.lock = "Unset" \/ Precedes(r.policy.ver, b.policy.ver)
                 THEN b.policy ELSE r.policy
  BY <1>3 DEF MergePolicy, Replicas
<1>6. \A t \in Nodes :
         tombs[t] = IF /\ b.tombs[t] # NoTombstone
                       /\ r.tombs[t] = NoTombstone \/ Precedes(r.tombs[t].ver, b.tombs[t].ver)
                    THEN b.tombs[t] ELSE r.tombs[t]
  OBVIOUS
<1>7. s.tombs = tombs /\ s.policy = q.policy
  <2>. HIDE DEF q, tombs, Taken
  <2>. QED  BY <1>1, <1>4 DEF Replicas
<1>8. \A u \in Nodes : rep[u].policy.lock = "Unset" => rep[u].policy = NoPolicy
  <2>. SUFFICES ASSUME NEW u \in Nodes, rep[u].policy # NoPolicy PROVE rep[u].policy.lock # "Unset"
    OBVIOUS
  <2>1. rep[u].policy \in Made(ThePolicy)
    BY RegisterCases DEF DecisionInv, HeldIsMade, Holds
  <2>. QED  BY <2>1, RegisterCases DEF DecisionInv, MadeIsReal, Decision
<1>. HIDE DEF q, tombs, Taken, new
<1>9. ASSUME NEW k \in Registers
      PROVE  Holds(s, k) = IF TakesOver(r, b, k) THEN Holds(b, k) ELSE Holds(r, k)
  <2>1. CASE k = ThePolicy
    BY <1>3, <1>5, <1>7, <1>8, <2>1, BaselinePolicy
  <2>2. CASE k # ThePolicy
    <3>1. k \in Nodes
      BY <2>2, RegisterCases
    <3>. QED  BY <1>6, <1>7, <3>1, BaselineTombstone
  <2>. QED  BY <2>1, <2>2
<1>. HIDE DEF r, b
<1>10. \A k \in Registers : Holds(b, k) \subseteq Made(k) /\ \A d \in Holds(b, k) : Holds(b, k) = {d}
  BY DEF DecisionInv, HeldIsMade, Holds, b
<1>11. MovesForwards(n, s)
  <2>. SUFFICES ASSUME NEW k \in Registers, Holds(s, k) # Holds(r, k)
                PROVE  \E d : MovesTo(n, s, k, d)
    BY DEF MovesForwards, r
  <2>1. TakesOver(r, b, k) /\ Holds(s, k) = Holds(b, k)
    BY <1>9
  <2>2. PICK d \in Holds(b, k) : D!MovesOn(Holds(r, k), d)
    BY <2>1 DEF TakesOver
  <2>3. Decision(k, d) /\ d \in Made(k)
    BY <1>10, <2>2 DEF DecisionInv, MadeIsReal
  <2>4. Holds(s, k) = {d}
    BY <1>10, <2>1, <2>2
  <2>5. MovesTo(n, s, k, d)
    BY <2>2, <2>3, <2>4 DEF MovesTo, r
  <2>. QED  BY <2>5
<1>12. DecisionInv' /\ \A k \in Registers : Made(k)' = Made(k) \cup Holds(s, k)
  BY <1>2, <1>11, BecomeDecisions
<1>13. MadeMap' = MadeMap
  <2>1. \A k \in Registers : Holds(s, k) \subseteq Made(k)
    BY <1>9, <1>10 DEF DecisionInv, HeldIsMade, r
  <2>2. \A k \in Registers : Made(k)' = Made(k)
    BY <1>12, <2>1
  <2>. QED  BY <2>2 DEF MadeMap
<1>14. HeldMap' = [HeldMap EXCEPT ![n] =
                     [k \in Registers |-> IF \E d \in HeldMap[src][k] : D!MovesOn(HeldMap[n][k], d)
                                          THEN HeldMap[src][k] ELSE HeldMap[n][k]]]
  <2>1. \A u \in Nodes : rep'[u] = IF u = n THEN s ELSE rep[u]
    BY <1>2 DEF Become, TypeOK
  <2>2. \A k \in Registers : HeldMap[src][k] = Holds(b, k) /\ HeldMap[n][k] = Holds(r, k)
    BY DEF HeldMap, r, b
  <2>3. \A k \in Registers : Holds(s, k) = IF \E d \in HeldMap[src][k] : D!MovesOn(HeldMap[n][k], d)
                                           THEN HeldMap[src][k] ELSE HeldMap[n][k]
    BY <1>9, <2>2 DEF TakesOver
  <2>4. HeldMap' = [u \in Nodes |-> [k \in Registers |-> Holds(rep'[u], k)]]
    BY DEF HeldMap, Holds
  <2>5. [k \in Registers |-> Holds(s, k)] =
          [k \in Registers |-> IF \E d \in HeldMap[src][k] : D!MovesOn(HeldMap[n][k], d)
                               THEN HeldMap[src][k] ELSE HeldMap[n][k]]
    BY <2>3
  <2>6. HeldMap' = [HeldMap EXCEPT ![n] = [k \in Registers |-> Holds(s, k)]]
    BY <2>1, <2>4 DEF HeldMap
  <2>. QED  BY <2>5, <2>6
<1>15. D!CatchUp(n, src)
  BY <1>13, <1>14 DEF D!CatchUp, MadeMap, HeldMap
<1>16. D!DecisionsNext
  BY <1>15 DEF D!DecisionsNext
<1>. QED  BY <1>12, <1>16 DEF DecisionStep

LEMMA InitDecision == Init => DecisionInv /\ D!DecisionsInit
<1>. SUFFICES ASSUME Init PROVE DecisionInv /\ D!DecisionsInit
  OBVIOUS
<1>1. ASSUME NEW n \in Nodes, NEW k \in Registers PROVE Holds(rep[n], k) = {}
  <2>1. PICK r : r = rep[n]
    OBVIOUS
  <2>2. r = Bare(0) \/ r = [Bare(0) EXCEPT !.members = FoundingView]
    BY <2>1 DEF Init
  <2>3. r.policy = NoPolicy /\ \A t \in Nodes : r.tombs[t] = NoTombstone
    BY <2>2 DEF Bare
  <2>. QED  BY <2>1, <2>3, RegisterCases DEF Holds
<1>2. ASSUME NEW k \in Registers PROVE Made(k) = {}
  <2>. SUFFICES ASSUME NEW n \in Nodes, NEW m \in sent[n], IsOn(m, k) PROVE FALSE
    BY DEF Made
  <2>1. m \in Introduction(n, FoundingView)
    BY DEF Init
  <2>. QED  BY <2>1 DEF Introduction, MemberDelta, Announce, IsOn
<1>3. DecisionInv
  <2>1. HeldIsMade /\ MadeIsReal /\ DecidersKnow
    BY <1>1, <1>2 DEF HeldIsMade, MadeIsReal, DecidersKnow
  <2>2. NewcomersAreBlank
    BY <1>1 DEF NewcomersAreBlank, Init
  <2>. QED  BY <2>1, <2>2 DEF DecisionInv
<1>4. MadeMap = [k \in Registers |-> {}] /\ HeldMap = [n \in Nodes |-> [k \in Registers |-> {}]]
  BY <1>1, <1>2 DEF MadeMap, HeldMap
<1>5. D!DecisionsInit
  BY <1>4 DEF D!DecisionsInit, D!Nothing, MadeMap, HeldMap
<1>. QED  BY <1>3, <1>5

LEMMA NextDecision == TypeOK /\ DecisionInv /\ [Next]_vars => DecisionStep
<1>. SUFFICES ASSUME TypeOK, DecisionInv, [Next]_vars PROVE DecisionStep
  OBVIOUS
<1>1. CASE UNCHANGED vars
  <2>1. rep' = rep /\ sent' = sent /\ status' = status
    BY <1>1 DEF vars
  <2>2. \A k \in Registers : Made(k)' = Made(k)
    BY <2>1 DEF Made, IsOn
  <2>3. DecisionInv'
    BY <2>1, <2>2 DEF DecisionInv, HeldIsMade, MadeIsReal, DecidersKnow, Knows, NewcomersAreBlank
  <2>4. MadeMap' = MadeMap /\ HeldMap' = HeldMap
    BY <2>1, <2>2 DEF MadeMap, HeldMap
  <2>5. UNCHANGED D!decisionVars
    BY <2>4 DEF D!decisionVars, MadeMap, HeldMap
  <2>. QED  BY <2>3, <2>5 DEF DecisionStep
<1>2. ASSUME NEW n \in Nodes, DeliverTo(n) PROVE DecisionStep
  BY <1>2, DeliverDecision DEF DeliverTo
<1>. QED
  BY <1>1, <1>2, AdmitDecision, AdoptDecision, InstallBaselineDecision, SuspectMemberDecision,
     DeclareDeadDecision, DepartureDecision, RemoveMemberDecision, ClearTombstoneDecision,
     SetMembershipLockDecision DEF Next

\* The replicas of a formation implement the registers of Decisions: operators'
\* decisions are unique by version although every node versions them on its own,
\* and a node goes from one to the next only forwards.
THEOREM FormationKeepsRegisters == Spec => DecisionsAreRegisters
<1>1. TypeOK /\ DecisionInv /\ [Next]_vars => DecisionInv' /\ [D!DecisionsNext]_(D!decisionVars)
  BY NextDecision DEF DecisionStep
<1>. QED  BY <1>1, InitDecision, FormationTypeCorrect, PTL DEF Spec, DecisionsAreRegisters, D!DecisionsSpec

LEMMA DecisionsStayUnique ==
    ASSUME D!OneDecisionPerVersion, [D!DecisionsNext]_(D!decisionVars)
    PROVE  D!OneDecisionPerVersion'
<1>1. \A k \in Registers : \A d, e \in MadeMap[k] : d.ver = e.ver => d = e
  BY DEF D!OneDecisionPerVersion, MadeMap
<1>2. \A k \in Registers : \A d, e \in MadeMap'[k] : d.ver = e.ver => d = e
  <2>1. CASE MadeMap' = MadeMap
    BY <1>1, <2>1
  <2>2. CASE \E n \in Nodes, j \in Registers : \E d \in MadeMap'[j] : D!Decide(n, j, d)
    <3>1. PICK n \in Nodes, j \in Registers : \E d \in MadeMap'[j] : D!Decide(n, j, d)
      BY <2>2
    <3>2. PICK d \in MadeMap'[j] :
             (\A e \in MadeMap[j] : e.ver # d.ver) /\ MadeMap' = [MadeMap EXCEPT ![j] = @ \cup {d}]
      BY <3>1 DEF D!Decide, MadeMap
    <3>3. \A k \in Registers : MadeMap'[k] = IF k = j THEN MadeMap[j] \cup {d} ELSE MadeMap[k]
      BY <3>2 DEF MadeMap
    <3>. QED  BY <1>1, <3>2, <3>3
  <2>3. CASE UNCHANGED D!decisionVars
    BY <2>1, <2>3 DEF D!decisionVars, MadeMap
  <2>. QED  BY <2>1, <2>2, <2>3 DEF D!DecisionsNext, D!Learn, D!CatchUp, D!Forget, MadeMap
<1>. QED  BY <1>2 DEF D!OneDecisionPerVersion, MadeMap

\* Two different decisions on one register never share a version: whatever a node
\* is told of by another, merge_policy and merge_tombstone never meet a
\* VersionConflict.  (A second removal at home may, and then decides nothing.)
THEOREM VersionsAreUnique == Spec => []D!OneDecisionPerVersion
<1>1. Init => D!OneDecisionPerVersion
  BY InitDecision DEF D!DecisionsInit, D!Nothing, D!OneDecisionPerVersion
<1>2. D!OneDecisionPerVersion /\ [D!DecisionsNext]_(D!decisionVars) => D!OneDecisionPerVersion'
  BY DecisionsStayUnique
<1>. QED  BY <1>1, <1>2, FormationKeepsRegisters, PTL
           DEF Spec, DecisionsAreRegisters, D!DecisionsSpec

\* What aborts a baseline.
Disputed ==
    \E n, src \in Nodes :
       \/ Disputes(rep[n].policy, rep[src].policy, NoPolicy)
       \/ \E t \in Nodes : Disputes(rep[n].tombs[t], rep[src].tombs[t], NoTombstone)

\* No two nodes ever hold different decisions of one version, so no baseline that
\* a joiner is given is ever refused as a whole (baseline::merge).
THEOREM BaselinesAreUndisputed == Spec => []~Disputed
<1>1. ASSUME DecisionInv, D!OneDecisionPerVersion PROVE ~Disputed
  <2>1. ASSUME NEW k \in Registers, NEW n \in Nodes, NEW o \in Nodes,
               NEW d \in Holds(rep[n], k), NEW e \in Holds(rep[o], k), d.ver = e.ver
        PROVE  d = e
    BY <1>1, <2>1 DEF DecisionInv, HeldIsMade, D!OneDecisionPerVersion
  <2>2. ASSUME NEW n \in Nodes, NEW o \in Nodes PROVE ~Disputes(rep[n].policy, rep[o].policy, NoPolicy)
    BY <2>1, RegisterCases DEF Disputes, Holds
  <2>3. ASSUME NEW n \in Nodes, NEW o \in Nodes, NEW t \in Nodes
        PROVE  ~Disputes(rep[n].tombs[t], rep[o].tombs[t], NoTombstone)
    BY <2>1, RegisterCases DEF Disputes, Holds
  <2>. QED  BY <2>2, <2>3 DEF Disputed
<1>2. TypeOK /\ DecisionInv /\ [Next]_vars => DecisionInv'
  BY NextDecision DEF DecisionStep
<1>. QED  BY <1>1, <1>2, InitDecision, FormationTypeCorrect, VersionsAreUnique, PTL DEF Spec

-----------------------------------------------------------------------------
(* Limits.                                                                 *)

\* The members of a view, and the nodes a tombstone is kept for.
Crowd(view) == {t \in Nodes : view[t].state # "Absent"}
Graves(tombs) == {t \in Nodes : tombs[t].state # "None"}

\* T is S but for what was lost and for one newcomer that S has room for.
Fits(S, T, limit) == \E x : T \subseteq S \cup {x} /\ (T \subseteq S \/ Cardinality(S) < limit)

WithinLimits(r) ==
    Cardinality(Crowd(r.members)) <= MaxMembers /\ Cardinality(Graves(r.tombs)) <= MaxTombstones

\* A snapshot on its way is a view, too.
LimitsHold == \A n \in Nodes : WithinLimits(rep[n]) /\ Cardinality(Crowd(offer[n])) <= MaxMembers

LEMMA FitsIsBounded ==
    ASSUME NEW S \in SUBSET Nodes, NEW T \in SUBSET Nodes, NEW limit \in Nat,
           Fits(S, T, limit), Cardinality(S) <= limit
    PROVE  Cardinality(T) <= limit
<1>1. PICK x : T \subseteq S \cup {x} /\ (T \subseteq S \/ Cardinality(S) < limit)
  BY DEF Fits
<1>2. IsFiniteSet(S) /\ IsFiniteSet(T)
  BY NodesAssumption, FS_Subset
<1>3. Cardinality(S) \in Nat /\ Cardinality(T) \in Nat
  BY <1>2, FS_CardinalityType
<1>4. CASE T \subseteq S
  <2>1. Cardinality(T) <= Cardinality(S)
    BY <1>2, <1>4, FS_Subset
  <2>. QED  BY <1>3, <2>1
<1>5. CASE Cardinality(S) < limit
  <2>1. IsFiniteSet(S \cup {x}) /\ Cardinality(S \cup {x}) \in {Cardinality(S), Cardinality(S) + 1}
    BY <1>2, FS_AddElement
  <2>2. Cardinality(T) <= Cardinality(S \cup {x})
    BY <1>1, <2>1, FS_Subset
  <2>. QED  BY <1>3, <1>5, <2>1, <2>2
<1>. QED  BY <1>1, <1>4, <1>5

LEMMA CountsAreCardinalities ==
    ASSUME NEW r
    PROVE  MemberCount(r) = Cardinality(Crowd(r.members)) /\ TombstoneCount(r) = Cardinality(Graves(r.tombs))
BY DEF MemberCount, TombstoneCount, Crowd, Graves, IsMember

\* Replica s keeps to the limits that r keeps to.
Obeys(r, s) ==
    /\ Fits(Crowd(r.members), Crowd(s.members), MaxMembers)
    /\ Fits(Graves(r.tombs), Graves(s.tombs), MaxTombstones)

LEMMA ObeysIsBounded ==
    ASSUME NEW r, NEW s, WithinLimits(r), Obeys(r, s) PROVE WithinLimits(s)
<1>1. /\ Crowd(r.members) \subseteq Nodes /\ Crowd(s.members) \subseteq Nodes
      /\ Graves(r.tombs) \subseteq Nodes /\ Graves(s.tombs) \subseteq Nodes
  BY DEF Crowd, Graves
<1>. QED  BY <1>1, FitsIsBounded, LimitsAssumption DEF WithinLimits, Obeys

\* Nobody comes: what most operators do to a view.
NobodyNew(r, s) == Crowd(s.members) \subseteq Crowd(r.members)

LEMMA NobodyNewObeys ==
    ASSUME NEW r, NEW s, NobodyNew(r, s), s.tombs = r.tombs PROVE Obeys(r, s)
BY DEF NobodyNew, Obeys, Fits

LEMMA RefuteBrings ==
    ASSUME NEW self \in Nodes, NEW r \in Replicas, NEW i, NEW s, s = Refute(self, r, i)
    PROVE  NobodyNew(r, s)
<1>1. \A t \in Nodes : s.members[t] = r.members[t] \/ (t = self /\ IsMember(r, self))
  BY DEF Refute, Replicas
<1>. QED  BY <1>1 DEF NobodyNew, Crowd, IsMember

LEMMA ChallengeBrings ==
    ASSUME NEW self \in Nodes, NEW r \in Replicas, NEW st, NEW i, NEW s, s = Challenge(self, r, st, i)
    PROVE  NobodyNew(r, s)
BY RefuteBrings DEF Challenge, NobodyNew

LEMMA MergeMemberObeys ==
    ASSUME NEW self \in Nodes, NEW r \in Replicas, NEW t \in Nodes, NEW m,
           NEW s, s = MergeMember(self, r, t, m)
    PROVE  Obeys(r, s)
<1>1. s.tombs = r.tombs
  BY MergeMemberRegisters DEF SameRegisters
<1>2. CASE s = r \/ s = Challenge(self, r, m.state, m.inc)
  <2>1. NobodyNew(r, s)
    BY <1>2, ChallengeBrings DEF NobodyNew
  <2>. QED  BY <1>1, <2>1, NobodyNewObeys
<1>3. CASE s = [r EXCEPT !.members[t] = m] /\ MemberCount(r) < MaxMembers
  <2>1. Crowd(s.members) \subseteq Crowd(r.members) \cup {t}
    BY <1>3 DEF Crowd, Replicas
  <2>. QED  BY <1>1, <1>3, <2>1, CountsAreCardinalities DEF Obeys, Fits
<1>4. CASE /\ s = [r EXCEPT !.members[t] = Merged(@, m), !.susp[t] = Deadline(r.members[t], m, @)]
           /\ IsMember(r, t)
  <2>1. \A u \in Nodes : s.members[u] = r.members[u] \/ (u = t /\ IsMember(r, t))
    BY <1>4 DEF Replicas
  <2>2. NobodyNew(r, s)
    BY <2>1 DEF NobodyNew, Crowd, IsMember
  <2>. QED  BY <1>1, <2>2, NobodyNewObeys
<1>5. MemberCount(r) >= MaxMembers \/ MemberCount(r) < MaxMembers
  <2>1. Crowd(r.members) \subseteq Nodes
    BY DEF Crowd
  <2>2. MemberCount(r) \in Nat
    BY <2>1, NodesAssumption, FS_Subset, FS_CardinalityType, CountsAreCardinalities
  <2>. QED  BY <2>2, LimitsAssumption
<1>. QED  BY <1>2, <1>3, <1>4, <1>5 DEF MergeMember

LEMMA MergeTombstoneObeys ==
    ASSUME NEW r \in Replicas, NEW t \in Nodes, NEW b, NEW s, s = MergeTombstone(r, t, b)
    PROVE  Obeys(r, s)
<1>1. CASE s = r
  BY <1>1, NobodyNewObeys DEF NobodyNew
<1>2. CASE /\ s = [r EXCEPT !.tombs[t] = b, !.members[t] = NoMember, !.susp[t] = NoDeadline]
           /\ t \in Graves(r.tombs) \/ TombstoneCount(r) < MaxTombstones
  <2>1. Graves(s.tombs) \subseteq Graves(r.tombs) \cup {t}
    BY <1>2 DEF Graves, Replicas
  <2>2. Crowd(s.members) \subseteq Crowd(r.members)
    BY <1>2 DEF Crowd, Replicas, NoMember
  <2>3. Graves(s.tombs) \subseteq Graves(r.tombs) \/ Cardinality(Graves(r.tombs)) < MaxTombstones
    BY <1>2, <2>1, CountsAreCardinalities
  <2>. QED  BY <2>1, <2>2, <2>3 DEF Obeys, Fits
<1>. QED  BY <1>1, <1>2 DEF MergeTombstone, Graves

LEMMA MergePolicyObeys ==
    ASSUME NEW r \in Replicas, NEW p, NEW s, s = MergePolicy(r, p) PROVE Obeys(r, s)
<1>1. s.members = r.members /\ s.tombs = r.tombs
  BY DEF MergePolicy, Replicas
<1>. QED  BY <1>1, NobodyNewObeys DEF NobodyNew

LEMMA AnnouncementBrings ==
    ASSUME NEW self \in Nodes, NEW r \in Replicas, NEW u, NEW kind, NEW t \in Nodes, NEW i,
           NEW s, s = ApplyAnnouncement(self, r, u, kind, t, i)
    PROVE  NobodyNew(r, s)
<1>1. CASE s = r \/ s = Challenge(self, r, Claimed(kind), i)
  BY <1>1, ChallengeBrings DEF NobodyNew
<1>2. CASE /\ s = [r EXCEPT !.members[t].state = Claimed(kind), !.members[t].inc = Effective(kind, i),
                            !.susp[t] = IF Claimed(kind) # "Suspected" THEN NoDeadline ELSE @]
           /\ IsMember(r, t)
  <2>1. \A v \in Nodes : s.members[v] = r.members[v] \/ (v = t /\ IsMember(r, t))
    BY <1>2 DEF Replicas
  <2>. QED  BY <2>1 DEF NobodyNew, Crowd, IsMember
<1>. QED  BY <1>1, <1>2 DEF ApplyAnnouncement, Adopts

LEMMA AnnouncementObeys ==
    ASSUME NEW self \in Nodes, NEW r \in Replicas, NEW u, NEW kind, NEW t \in Nodes, NEW i,
           NEW s, s = ApplyAnnouncement(self, r, u, kind, t, i)
    PROVE  Obeys(r, s)
BY AnnouncementBrings, AnnouncementRegisters, NobodyNewObeys DEF SameRegisters

LEMMA SuspectObeys ==
    ASSUME NEW self \in Nodes, NEW r \in Replicas, NEW t \in Nodes, NEW i \in Incarnations,
           NEW s, s = Suspect(self, r, t, i)
    PROVE  Obeys(r, s)
<1>1. PICK a : a = ApplyAnnouncement(self, r, self, "Suspect", t, i)
  OBVIOUS
<1>2. a \in Replicas /\ Obeys(r, a)
  BY <1>1, AnnouncementType, AnnouncementObeys
<1>3. s = a \/ s = [a EXCEPT !.susp[t] = i]
  BY <1>1 DEF Suspect
<1>4. s.members = a.members /\ s.tombs = a.tombs
  BY <1>2, <1>3 DEF Replicas
<1>. QED  BY <1>2, <1>4 DEF Obeys

LEMMA ExpireSuspicionObeys ==
    ASSUME NEW self \in Nodes, NEW r \in Replicas, NEW t \in Nodes, NEW s, s = ExpireSuspicion(self, r, t)
    PROVE  Obeys(r, s)
<1>1. PICK a : a = [r EXCEPT !.susp[t] = NoDeadline]
  OBVIOUS
<1>2. a \in Replicas /\ a.members = r.members /\ a.tombs = r.tombs
  BY <1>1 DEF Replicas
<1>3. Obeys(a, s)
  BY <1>1, <1>2, AnnouncementObeys DEF ExpireSuspicion
<1>. QED  BY <1>2, <1>3 DEF Obeys

LEMMA ReceiveObeys ==
    ASSUME NEW n \in Nodes, NEW u \in Nodes, NEW m \in Messages, rep[n] \in Replicas
    PROVE  Obeys(rep[n], Receive(n, u, m))
<1>1. CASE m.type = "member"
  BY <1>1, MessageCases, MergeMemberObeys DEF Receive
<1>2. CASE m.type = "tombstone"
  BY <1>2, MessageCases, MergeTombstoneObeys DEF Receive
<1>3. CASE m.type = "policy"
  BY <1>3, MergePolicyObeys DEF Receive
<1>4. CASE m.type = "announce"
  BY <1>4, MessageCases, AnnouncementObeys DEF Receive
<1>. QED  BY <1>1, <1>2, <1>3, <1>4, MessageCases

\* One replica moves on, and the snapshots stay.
LEMMA LimitsUpdate ==
    ASSUME TypeOK, LimitsHold, NEW n \in Nodes, NEW s, NEW A, Become(n, s, A),
           WithinLimits(s), UNCHANGED offer
    PROVE  LimitsHold'
<1>1. \A u \in Nodes : rep'[u] = IF u = n THEN s ELSE rep[u]
  BY DEF Become, TypeOK
<1>2. \A u \in Nodes : WithinLimits(rep'[u])
  BY <1>1 DEF LimitsHold
<1>. QED  BY <1>2 DEF LimitsHold, WithinLimits, Crowd, Graves

LEMMA ObeysUpdate ==
    ASSUME TypeOK, LimitsHold, NEW n \in Nodes, NEW s, NEW A, Become(n, s, A),
           Obeys(rep[n], s), UNCHANGED offer
    PROVE  LimitsHold'
<1>1. WithinLimits(s)
  BY ObeysIsBounded DEF LimitsHold
<1>. QED  BY <1>1, LimitsUpdate

LEMMA AdmitLimits ==
    ASSUME TypeOK, LimitsHold, NEW i \in Nodes, NEW x \in Nodes, Admit(i, x) PROVE LimitsHold'
<1>1. PICK s : s = [rep[i] EXCEPT !.members[x] = [state |-> "Alive", inc |-> 0, ver |-> Initial(i)]]
  OBVIOUS
<1>2. /\ rep' = [rep EXCEPT ![i] = s]
      /\ offer' = [offer EXCEPT ![x] = s.members]
      /\ MemberCount(rep[i]) < MaxMembers
  BY <1>1 DEF Admit, Become
<1>3. Crowd(s.members) \subseteq Crowd(rep[i].members) \cup {x} /\ s.tombs = rep[i].tombs
  BY <1>1 DEF TypeOK, Replicas, Crowd
<1>4. Obeys(rep[i], s)
  BY <1>2, <1>3, CountsAreCardinalities DEF Obeys, Fits
<1>5. WithinLimits(s)
  BY <1>4, ObeysIsBounded DEF LimitsHold
<1>6. \A u \in Nodes : /\ rep'[u] = IF u = i THEN s ELSE rep[u]
                       /\ offer'[u] = IF u = x THEN s.members ELSE offer[u]
  BY <1>2 DEF TypeOK
<1>7. \A u \in Nodes : WithinLimits(rep'[u]) /\ Cardinality(Crowd(offer'[u])) <= MaxMembers
  BY <1>5, <1>6 DEF LimitsHold, WithinLimits
<1>. QED  BY <1>7 DEF LimitsHold, WithinLimits, Crowd, Graves

\* A view with nothing in it.
LEMMA EmptyIsWithin ==
    /\ Cardinality(Crowd(NoOffer)) <= MaxMembers
    /\ Cardinality(Graves([t \in Nodes |-> NoTombstone])) <= MaxTombstones
    /\ \A i : WithinLimits(Bare(i))
<1>1. Crowd(NoOffer) = {} /\ Graves([t \in Nodes |-> NoTombstone]) = {}
  BY DEF Crowd, Graves, NoOffer, NoMember, NoTombstone
<1>2. Cardinality({}) = 0
  BY FS_EmptySet
<1>. QED  BY <1>1, <1>2, LimitsAssumption DEF WithinLimits, Bare, NoOffer

LEMMA AdoptLimits ==
    ASSUME TypeOK, LimitsHold, NEW x \in Nodes, Adopt(x) PROVE LimitsHold'
<1>1. PICK s : s = [Bare(0) EXCEPT !.members = offer[x]]
  OBVIOUS
<1>2. rep' = [rep EXCEPT ![x] = s] /\ offer' = [offer EXCEPT ![x] = NoOffer]
  BY <1>1 DEF Adopt
<1>3. s.members = offer[x] /\ s.tombs = [t \in Nodes |-> NoTombstone]
  BY <1>1 DEF Bare
<1>4. WithinLimits(s)
  BY <1>3, EmptyIsWithin DEF WithinLimits, LimitsHold
<1>5. \A u \in Nodes : /\ rep'[u] = IF u = x THEN s ELSE rep[u]
                       /\ offer'[u] = IF u = x THEN NoOffer ELSE offer[u]
  BY <1>2 DEF TypeOK
<1>6. \A u \in Nodes : WithinLimits(rep'[u]) /\ Cardinality(Crowd(offer'[u])) <= MaxMembers
  BY <1>4, <1>5, EmptyIsWithin DEF LimitsHold
<1>. QED  BY <1>6 DEF LimitsHold, WithinLimits, Crowd, Graves

LEMMA InstallBaselineLimits ==
    ASSUME TypeOK, LimitsHold, NEW n \in Nodes, NEW src \in Nodes, InstallBaseline(n, src)
    PROVE  LimitsHold'
<1>. DEFINE r == rep[n]
            b == rep[src]
            Taken == {t \in Nodes : /\ b.tombs[t] # NoTombstone
                                    /\ \/ r.tombs[t] = NoTombstone
                                       \/ Precedes(r.tombs[t].ver, b.tombs[t].ver)}
            tombs == [t \in Nodes |-> IF t \in Taken THEN b.tombs[t] ELSE r.tombs[t]]
            q == MergePolicy(r, b.policy)
            new == [q EXCEPT !.tombs = tombs, !.members = Without(@, Taken),
                             !.susp = [t \in Nodes |-> IF t \in Taken THEN NoDeadline ELSE @[t]]]
<1>1. PICK s : s = new
  OBVIOUS
<1>2. Become(n, s, {}) /\ UNCHANGED offer /\ TombstoneCount([r EXCEPT !.tombs = tombs]) <= MaxTombstones
  BY <1>1 DEF InstallBaseline
<1>3. r \in Replicas /\ q \in Replicas /\ q.members = r.members
  <2>1. r \in Replicas /\ b.policy \in Policies
    BY DEF TypeOK, Replicas
  <2>2. q \in Replicas
    BY <2>1, MergePolicyType
  <2>. HIDE DEF r, b
  <2>3. q.members = r.members
    BY <2>1 DEF MergePolicy, Replicas
  <2>. QED  BY <2>1, <2>2, <2>3
<1>. HIDE DEF q, tombs, Taken
<1>4. s.tombs = tombs /\ s.members = Without(r.members, Taken)
  BY <1>1, <1>3 DEF Replicas
<1>5. Cardinality(Graves(s.tombs)) <= MaxTombstones
  <2>1. PICK z : z = [r EXCEPT !.tombs = tombs]
    OBVIOUS
  <2>2. z.tombs = tombs
    BY <1>3, <2>1 DEF Replicas
  <2>. QED  BY <1>2, <1>4, <2>1, <2>2, CountsAreCardinalities
<1>6. Crowd(s.members) \subseteq Crowd(r.members)
  BY <1>4 DEF Crowd, Without, NoMember
<1>7. Cardinality(Crowd(s.members)) <= MaxMembers
  <2>1. Fits(Crowd(r.members), Crowd(s.members), MaxMembers)
    BY <1>6 DEF Fits
  <2>2. Crowd(r.members) \subseteq Nodes /\ Crowd(s.members) \subseteq Nodes
    BY DEF Crowd
  <2>3. Cardinality(Crowd(r.members)) <= MaxMembers
    BY DEF LimitsHold, WithinLimits
  <2>. QED  BY <2>1, <2>2, <2>3, FitsIsBounded, LimitsAssumption
<1>. QED  BY <1>2, <1>5, <1>7, LimitsUpdate DEF WithinLimits

LEMMA VerdictLimits ==
    ASSUME TypeOK, LimitsHold, NEW n \in Nodes, NEW t \in Nodes, SuspectMember(n, t) \/ DeclareDead(n, t)
    PROVE  LimitsHold'
<1>1. rep[n] \in Replicas /\ rep[n].members[t].inc \in Incarnations
  BY DEF TypeOK, Replicas, Members
<1>2. CASE SuspectMember(n, t)
  <2>1. PICK i, s : /\ i = rep[n].members[t].inc /\ s = Suspect(n, rep[n], t, i)
                    /\ Become(n, s, {Announce("Suspect", t, i)}) /\ UNCHANGED offer
    BY <1>2 DEF SuspectMember
  <2>2. Obeys(rep[n], s)
    BY <1>1, <2>1, SuspectObeys
  <2>. QED  BY <2>1, <2>2, ObeysUpdate
<1>3. CASE DeclareDead(n, t)
  <2>1. PICK A, s : s = ExpireSuspicion(n, rep[n], t) /\ Become(n, s, A) /\ UNCHANGED offer
    BY <1>3 DEF DeclareDead
  <2>2. Obeys(rep[n], s)
    BY <1>1, <2>1, ExpireSuspicionObeys
  <2>. QED  BY <2>1, <2>2, ObeysUpdate
<1>. QED  BY <1>2, <1>3

LEMMA DeliverLimits ==
    ASSUME TypeOK, LimitsHold, NEW n \in Nodes, NEW u \in Nodes, NEW m \in sent[u], Deliver(n, u, m)
    PROVE  LimitsHold'
<1>1. rep[n] \in Replicas /\ m \in Messages
  BY DEF TypeOK
<1>2. Become(n, Receive(n, u, m), {}) /\ UNCHANGED offer
  BY DEF Deliver
<1>. QED  BY <1>1, <1>2, ReceiveObeys, ObeysUpdate

LEMMA DepartureLimits ==
    ASSUME TypeOK, LimitsHold, NEW n \in Nodes, Leave(n) \/ Crash(n) PROVE LimitsHold'
<1>1. rep' = [rep EXCEPT ![n] = Bare(rep[n].inc)] /\ UNCHANGED offer
  BY DEF Leave, Crash, Retire
<1>2. \A u \in Nodes : rep'[u] = IF u = n THEN Bare(rep[n].inc) ELSE rep[u]
  BY <1>1 DEF TypeOK
<1>3. \A u \in Nodes : WithinLimits(rep'[u])
  BY <1>2, EmptyIsWithin DEF LimitsHold
<1>. QED  BY <1>1, <1>3 DEF LimitsHold, WithinLimits, Crowd, Graves

LEMMA OperatorLimits ==
    ASSUME TypeOK, LimitsHold, NEW n \in Nodes,
           \/ \E t \in Nodes : RemoveMember(n, t) \/ ClearTombstone(n, t)
           \/ \E locked \in BOOLEAN : SetMembershipLock(n, locked)
    PROVE  LimitsHold'
<1>0. rep[n] \in Replicas
  BY DEF TypeOK
<1>1. ASSUME NEW t \in Nodes, RemoveMember(n, t) PROVE LimitsHold'
  <2>1. PICK s : s = Removed(n, t) /\ Become(n, s, {}) /\ UNCHANGED offer
    BY <1>1 DEF RemoveMember
  <2>2. Obeys(rep[n], s)
    BY <1>0, <2>1, MergeTombstoneObeys DEF Removed
  <2>. QED  BY <2>1, <2>2, ObeysUpdate
<1>2. ASSUME NEW t \in Nodes, ClearTombstone(n, t) PROVE LimitsHold'
  <2>1. PICK b, s : /\ s = [rep[n] EXCEPT !.tombs[t] = b] /\ rep[n].tombs[t].state = "Fenced"
                    /\ Become(n, s, {}) /\ UNCHANGED offer
    BY <1>2 DEF ClearTombstone
  <2>2. s.members = rep[n].members /\ Graves(s.tombs) \subseteq Graves(rep[n].tombs)
    BY <1>0, <2>1 DEF Replicas, Graves
  <2>3. Obeys(rep[n], s)
    BY <2>2 DEF Obeys, Fits
  <2>. QED  BY <2>1, <2>3, ObeysUpdate
<1>3. ASSUME NEW locked \in BOOLEAN, SetMembershipLock(n, locked) PROVE LimitsHold'
  <2>1. PICK p, s : s = MergePolicy(rep[n], p) /\ Become(n, s, {}) /\ UNCHANGED offer
    BY <1>3 DEF SetMembershipLock
  <2>2. Obeys(rep[n], s)
    BY <1>0, <2>1, MergePolicyObeys
  <2>. QED  BY <2>1, <2>2, ObeysUpdate
<1>. QED  BY <1>1, <1>2, <1>3

LEMMA InitLimits == Init => LimitsHold
<1>. SUFFICES ASSUME Init PROVE LimitsHold
  OBVIOUS
<1>1. Crowd(FoundingView) = Founders
  BY RolesAssumption DEF Crowd, FoundingView, NoMember
<1>2. ASSUME NEW n \in Nodes PROVE WithinLimits(rep[n])
  <2>1. CASE n \in Founders
    <3>1. PICK s : s = [Bare(0) EXCEPT !.members = FoundingView]
      OBVIOUS
    <3>2. s.members = FoundingView /\ s.tombs = [t \in Nodes |-> NoTombstone] /\ rep[n] = s
      BY <2>1, <3>1 DEF Init, Bare
    <3>. QED  BY <1>1, <3>2, EmptyIsWithin, FoundersAssumption DEF WithinLimits
  <2>2. CASE n \notin Founders
    BY <2>2, EmptyIsWithin DEF Init
  <2>. QED  BY <2>1, <2>2
<1>3. \A n \in Nodes : offer[n] = NoOffer
  BY DEF Init
<1>. QED  BY <1>2, <1>3, EmptyIsWithin DEF LimitsHold

LEMMA NextLimits == TypeOK /\ LimitsHold /\ [Next]_vars => LimitsHold'
<1>. SUFFICES ASSUME TypeOK, LimitsHold, [Next]_vars PROVE LimitsHold'
  OBVIOUS
<1>1. CASE UNCHANGED vars
  BY <1>1 DEF LimitsHold, WithinLimits, Crowd, Graves, vars
<1>2. ASSUME NEW n \in Nodes, DeliverTo(n) PROVE LimitsHold'
  BY <1>2, DeliverLimits DEF DeliverTo
<1>. QED
  BY <1>1, <1>2, AdmitLimits, AdoptLimits, InstallBaselineLimits, VerdictLimits, DepartureLimits,
     OperatorLimits
     DEF Next

\* No view, and no snapshot on its way to a joiner, ever holds more than max_members
\* members, and no node keeps more than max_tombstones tombstones, although members
\* come through admission, gossip and snapshots and tombstones through removals,
\* gossip and baselines, each with a check of its own at another node.
THEOREM ViewsAreBounded == Spec => []LimitsHold
BY InitLimits, NextLimits, FormationTypeCorrect, PTL DEF Spec
=============================================================================
