--------------------------- MODULE AdmissionProofs ---------------------------
(***************************************************************************)
(* For every set of applicants, IDs and connections and all limits: an     *)
(* introducer stays within its limits, admits no certificate beside a live *)
(* admission of it, gives no ID two owners, and admits nobody on           *)
(* superseded evidence or past a gate that closed between two stages.      *)
(***************************************************************************)
EXTENDS Admission, FiniteSetTheorems, TLAPS

-----------------------------------------------------------------------------
(* The inductive invariant.                                                *)

People == [cert : Certs \cup {Founder}, live : BOOLEAN]
Tombs == [cert : Certs \cup {Founder}, fenced : BOOLEAN]
Waiting == [stage : Stages, req : Nat]
Joins == [line : Lines, attempt : 1..MaxAttempts]
Replies == [session : Sessions, id : Ids \cup {NoId}, listed : BOOLEAN]

\* The introducer's side of TypeOK, and the applicants'.
IntroducerTypes ==
    /\ members \in [Ids -> People \cup {Nobody}]
    /\ tombs \in [Ids -> Tombs \cup {NoTomb}]
    /\ locked \in BOOLEAN /\ blocked \subseteq Certs
    /\ admissions \in [Sessions -> Waiting \cup {NoAdmission}]
    /\ asked \subseteq [stage : Stages, req : Nat, session : Sessions]
    /\ vouched \subseteq asked /\ heard \subseteq Ids
    /\ correlation \in Nat /\ changes \in 0..MaxChanges

ApplicantTypes ==
    /\ join \in [Certs -> Joins \cup {NoJoin}]
    /\ tries \in [Certs -> 0..MaxTries]
    /\ identity \in [Certs -> Ids \cup {NoId}]
    /\ requests \subseteq Sessions
    /\ replies \subseteq Replies

Bounded ==
    /\ IsFiniteSet(Held) /\ Cardinality(Held) <= MaxMembers
    /\ IsFiniteSet(Pending) /\ Cardinality(Pending) <= MaxPendingJoins

\* A request's number has been drawn.
Numbered == \A a \in asked : a.req < correlation

\* While its session waits for evidence, the newest request is the one it waits
\* for; while it waits for an ID, the newest request has been vouched for.
Evidenced ==
    \A a \in asked : Newest(a) =>
       /\ admissions[a.session].stage = "evidence" => admissions[a.session].req = a.req
       /\ admissions[a.session].stage = "id" => a \in vouched

\* Whatever is still on its way to an applicant is on the introducer's record.
RepliesAreOnRecord ==
    \A r \in replies : r.id # NoId => r.session.cert \in {members[r.id].cert, tombs[r.id].cert}

Inv ==
    /\ IntroducerTypes /\ ApplicantTypes /\ Bounded
    /\ Numbered /\ Evidenced /\ RepliesAreOnRecord
    /\ AdoptedIdentityIsOnRecord /\ OneAdmissionPerCertificate

-----------------------------------------------------------------------------
(* Records and what stands for none.                                       *)

LEMMA Strangers ==
    /\ \A p \in People : p # Nobody /\ p.cert \in Certs \cup {Founder} /\ p.live \in BOOLEAN
    /\ \A t \in Tombs : t # NoTomb /\ t.cert \in Certs \cup {Founder} /\ t.fenced \in BOOLEAN
    /\ \A w \in Waiting : w # NoAdmission
    /\ Nobody.cert = NoCert /\ Nobody.live = FALSE /\ NoTomb.cert = NoCert /\ NoTomb.fenced = FALSE
    /\ NoCert \notin Certs \cup {Founder} /\ NoId \notin Ids
<1>1. NoCert \notin Certs \cup {Founder} /\ NoId \notin Ids
  BY CertsAssumption, IdsAssumption DEF NoCert, Founder, NoId
<1>2. \A p \in People : p # Nobody /\ p.cert \in Certs \cup {Founder} /\ p.live \in BOOLEAN
  BY <1>1 DEF People, Nobody
<1>3. \A t \in Tombs : t # NoTomb /\ t.cert \in Certs \cup {Founder} /\ t.fenced \in BOOLEAN
  BY <1>1 DEF Tombs, NoTomb
<1>4. \A w \in Waiting : w # NoAdmission
  BY DEF Waiting, NoAdmission, Stages
<1>5. Nobody.cert = NoCert /\ Nobody.live = FALSE /\ NoTomb.cert = NoCert /\ NoTomb.fenced = FALSE
  BY DEF Nobody, NoTomb
<1>. QED  BY <1>1, <1>2, <1>3, <1>4, <1>5

LEMMA SessionFields ==
    \A c \in Certs, line \in Lines :
       /\ Session(c, line) \in Sessions
       /\ Session(c, line).cert = c /\ Session(c, line).line = line
BY DEF Session, Sessions

\* The answers of the shell, taken apart.
LEMMA AskedFields ==
    ASSUME IntroducerTypes, NEW a \in asked
    PROVE  /\ a.session \in Sessions /\ a.session.cert \in Certs /\ a.req \in Nat
           /\ \A b \in asked : a.stage = b.stage /\ a.req = b.req /\ a.session = b.session => a = b
BY DEF IntroducerTypes, Sessions

-----------------------------------------------------------------------------
(* Frames.                                                                 *)

\* The record of an ID only ever becomes a tombstone's.
Remembered ==
    \A i \in Ids, c \in Certs :
       c \in {members[i].cert, tombs[i].cert} => c \in {members'[i].cert, tombs'[i].cert}

LEMMA RecordFrame ==
    ASSUME IntroducerTypes, ApplicantTypes, RepliesAreOnRecord, AdoptedIdentityIsOnRecord,
           Remembered, UNCHANGED identity
    PROVE  /\ AdoptedIdentityIsOnRecord'
           /\ \A r \in replies :
                 r.id # NoId => r.session.cert \in {members'[r.id].cert, tombs'[r.id].cert}
<1>1. \A c \in Certs : identity[c] # NoId => identity[c] \in Ids
  BY DEF ApplicantTypes
<1>2. \A r \in replies : r.session.cert \in Certs /\ (r.id # NoId => r.id \in Ids)
  BY DEF ApplicantTypes, Replies, Sessions
<1>. QED  BY <1>1, <1>2 DEF Remembered, RepliesAreOnRecord, AdoptedIdentityIsOnRecord

LEMMA SameRecords == ASSUME UNCHANGED <<members, tombs>> PROVE Remembered
BY DEF Remembered

LEMMA SubsetBounded ==
    ASSUME NEW S, IsFiniteSet(S), NEW T, T \subseteq S, NEW n \in Nat, Cardinality(S) <= n
    PROVE  IsFiniteSet(T) /\ Cardinality(T) <= n
<1>1. IsFiniteSet(T) /\ Cardinality(T) <= Cardinality(S)
  BY FS_Subset
<1>2. Cardinality(S) \in Nat /\ Cardinality(T) \in Nat
  BY <1>1, FS_CardinalityType
<1>. QED  BY <1>1, <1>2

-----------------------------------------------------------------------------
(* The introducer's steps.                                                 *)

Aside == UNCHANGED <<view, applicants, requests>>

LEMMA RefuseInv ==
    ASSUME Inv, NEW s \in Sessions, Refuse(s), Aside, vouched \subseteq vouched', vouched' \subseteq asked
    PROVE  Inv'
<1>. USE DEF Inv
<1>1. UNCHANGED <<members, tombs, locked, blocked, heard, changes, asked, correlation, join, tries,
                  identity, requests>>
  BY DEF Refuse, Aside, applicants, view
<1>2. /\ admissions' = [admissions EXCEPT ![s] = NoAdmission]
      /\ replies' = replies \cup {[session |-> s, id |-> NoId, listed |-> FALSE]}
  BY DEF Refuse, Reply
<1>3. IntroducerTypes'
  BY <1>1, <1>2 DEF IntroducerTypes
<1>4. ApplicantTypes'
  <2>1. [session |-> s, id |-> NoId, listed |-> FALSE] \in Replies
    BY DEF Replies
  <2>2. replies' \subseteq Replies
    BY <1>2, <2>1 DEF ApplicantTypes
  <2>. QED  BY <1>1, <2>2 DEF ApplicantTypes
<1>5. Bounded'
  <2>1. Held' = Held
    BY <1>1 DEF Held
  <2>2. Pending' \subseteq Pending
    BY <1>2 DEF Pending, IntroducerTypes
  <2>. QED  BY <2>1, <2>2, SubsetBounded, AdmissionLimitsAssumption DEF Bounded
<1>6. RepliesAreOnRecord' /\ AdoptedIdentityIsOnRecord'
  <2>1. Remembered
    BY <1>1, SameRecords
  <2>. QED  BY <1>1, <1>2, <2>1, RecordFrame DEF RepliesAreOnRecord
<1>7. Numbered' /\ OneAdmissionPerCertificate'
  BY <1>1 DEF Numbered, OneAdmissionPerCertificate
<1>8. Evidenced'
  <2>. SUFFICES ASSUME NEW a \in asked, Newest(a)
                PROVE  /\ admissions'[a.session].stage = "evidence" => admissions'[a.session].req = a.req
                       /\ admissions'[a.session].stage = "id" => a \in vouched'
    BY <1>1 DEF Evidenced, Newest
  <2>1. a.session \in Sessions
    BY AskedFields
  <2>2. CASE a.session = s
    BY <1>2, <2>2 DEF IntroducerTypes, NoAdmission
  <2>3. CASE a.session # s
    <3>1. admissions'[a.session] = admissions[a.session]
      BY <1>2, <2>1, <2>3 DEF IntroducerTypes
    <3>. QED  BY <3>1 DEF Evidenced
  <2>. QED  BY <2>2, <2>3
<1>. QED  BY <1>3, <1>4, <1>5, <1>6, <1>7, <1>8

LEMMA AwaitInv ==
    ASSUME Inv, NEW s \in Sessions, NEW stage \in Stages, Await(s, stage), Aside,
           s \in Pending \/ Cardinality(Pending) < MaxPendingJoins,
           vouched \subseteq vouched', vouched' \subseteq asked,
           stage = "id" => \A a \in asked : a.session = s /\ Newest(a) => a \in vouched'
    PROVE  Inv'
<1>. USE DEF Inv
<1>1. UNCHANGED <<members, tombs, locked, blocked, heard, changes, replies, join, tries, identity,
                  requests>>
  BY DEF Await, Aside, applicants, view
<1>2. /\ admissions' = [admissions EXCEPT ![s] = [stage |-> stage, req |-> correlation]]
      /\ asked' = asked \cup {[stage |-> stage, req |-> correlation, session |-> s]}
      /\ correlation' = correlation + 1
  BY DEF Await
<1>3. correlation \in Nat /\ [stage |-> stage, req |-> correlation] \in Waiting
  BY DEF IntroducerTypes, Waiting
<1>4. IntroducerTypes'
  <2>1. admissions' \in [Sessions -> Waiting \cup {NoAdmission}]
    BY <1>2, <1>3 DEF IntroducerTypes
  <2>2. asked' \subseteq [stage : Stages, req : Nat, session : Sessions]
    BY <1>2, <1>3 DEF IntroducerTypes
  <2>. QED  BY <1>1, <1>2, <1>3, <2>1, <2>2 DEF IntroducerTypes
<1>5. ApplicantTypes'
  BY <1>1 DEF ApplicantTypes
<1>6. Bounded'
  <2>1. Held' = Held
    BY <1>1 DEF Held
  <2>2. Pending' \subseteq Pending \cup {s}
    BY <1>2 DEF Pending, IntroducerTypes
  <2>3. IsFiniteSet(Pending) /\ Cardinality(Pending) \in Nat /\ MaxPendingJoins \in Nat
    BY FS_CardinalityType, AdmissionLimitsAssumption DEF Bounded
  <2>4. IsFiniteSet(Pending \cup {s}) /\ Cardinality(Pending \cup {s}) <= MaxPendingJoins
    <3>1. CASE s \in Pending
      <4>1. Pending \cup {s} = Pending
        BY <3>1
      <4>. QED  BY <4>1 DEF Bounded
    <3>2. CASE s \notin Pending /\ Cardinality(Pending) < MaxPendingJoins
      <4>1. IsFiniteSet(Pending \cup {s}) /\ Cardinality(Pending \cup {s}) = Cardinality(Pending) + 1
        BY <2>3, <3>2, FS_AddElement, Zenon
      <4>. QED  BY <2>3, <3>2, <4>1
    <3>. QED  BY <3>1, <3>2
  <2>5. IsFiniteSet(Pending') /\ Cardinality(Pending') <= MaxPendingJoins
    BY <2>2, <2>3, <2>4, SubsetBounded
  <2>. QED  BY <2>1, <2>5 DEF Bounded
<1>7. RepliesAreOnRecord' /\ AdoptedIdentityIsOnRecord'
  <2>1. Remembered
    BY <1>1, SameRecords
  <2>. QED  BY <1>1, <2>1, RecordFrame DEF RepliesAreOnRecord
<1>8. Numbered' /\ OneAdmissionPerCertificate'
  <2>1. \A a \in asked' : a \in asked \/ a.req = correlation
    BY <1>2
  <2>2. \A a \in asked : a.req \in Nat
    BY AskedFields
  <2>3. Numbered'
    BY <1>2, <1>3, <2>1, <2>2 DEF Numbered
  <2>. QED  BY <1>1, <2>3 DEF OneAdmissionPerCertificate
<1>9. Evidenced'
  <2>. DEFINE n == [stage |-> stage, req |-> correlation, session |-> s]
  <2>. SUFFICES ASSUME NEW a \in asked', Newest(a)'
                PROVE  /\ admissions'[a.session].stage = "evidence" => admissions'[a.session].req = a.req
                       /\ admissions'[a.session].stage = "id" => a \in vouched'
    BY DEF Evidenced
  <2>1. /\ n.stage = stage /\ n.req = correlation /\ n.session = s
        /\ asked' = asked \cup {n}
    BY <1>2
  <2>2. admissions'[s] = [stage |-> stage, req |-> correlation]
    BY <1>2 DEF IntroducerTypes
  <2>. HIDE DEF n
  <2>3. CASE a = n
    <3>1. stage = "evidence" /\ a.session = s
      BY <2>1, <2>3 DEF Newest
    <3>. QED  BY <2>1, <2>2, <2>3, <3>1
  <2>4. CASE a # n
    <3>1. a \in asked /\ Newest(a) /\ a.session \in Sessions /\ a.req \in Nat
      BY <2>1, <2>4, AskedFields DEF Newest
    <3>2. CASE a.session # s
      <4>1. admissions'[a.session] = admissions[a.session]
        BY <1>2, <3>1, <3>2 DEF IntroducerTypes
      <4>. QED  BY <3>1, <4>1 DEF Evidenced
    <3>3. CASE a.session = s
      <4>1. stage # "evidence"
        <5>1. a.req < correlation
          BY <3>1 DEF Numbered
        <5>2. stage = "evidence" => correlation <= a.req
          BY <2>1, <3>3 DEF Newest
        <5>. QED  BY <1>3, <3>1, <5>1, <5>2
      <4>2. stage = "id"
        BY <4>1 DEF Stages
      <4>. QED  BY <2>2, <3>1, <3>3, <4>2
    <3>. QED  BY <3>2, <3>3
  <2>. QED  BY <2>3, <2>4
<1>. QED  BY <1>4, <1>5, <1>6, <1>7, <1>8, <1>9

LEMMA InsertInv ==
    ASSUME Inv, NEW a \in asked, NEW i \in Ids, HandleNodeIdAllocated(a, i),
           IdFree(i), FinalGates(a.session.cert)
    PROVE  Inv'
<1>. USE DEF Inv
<1>. DEFINE new == [cert |-> a.session.cert, live |-> TRUE]
            reply == [session |-> a.session, id |-> i, listed |-> InSnapshot(i)]
<1>1. UNCHANGED <<tombs, locked, blocked, heard, changes, asked, correlation, vouched, join, tries,
                  identity, requests>>
  BY DEF HandleNodeIdAllocated, applicants, view
<1>2. /\ members' = [members EXCEPT ![i] = new]
      /\ admissions' = [admissions EXCEPT ![a.session] = NoAdmission]
      /\ replies' = replies \cup {reply}
  BY DEF HandleNodeIdAllocated, Reply
<1>3. a.session \in Sessions /\ a.session.cert \in Certs
  BY AskedFields
<1>4. new \in People /\ new # Nobody /\ new.cert = a.session.cert
  BY <1>3, Strangers DEF People
<1>5. members[i] = Nobody /\ tombs[i] = NoTomb
  BY DEF IdFree
<1>6. members'[i] = new /\ \A j \in Ids : j # i => members'[j] = members[j]
  BY <1>2 DEF IntroducerTypes
<1>7. IsFiniteSet(Held') /\ Cardinality(Held') <= MaxMembers
  <2>1. Held' = Held \cup {i} /\ i \notin Held
    BY <1>4, <1>5, <1>6 DEF Held
  <2>2. Cardinality(Held) < Capacity
    BY DEF FinalGates, Gates
  <2>3. /\ IsFiniteSet(Held) /\ Cardinality(Held) \in Nat
        /\ Capacity \in Nat /\ MaxMembers \in Nat /\ Capacity <= MaxMembers
    BY FS_CardinalityType, AdmissionLimitsAssumption DEF Bounded
  <2>4. IsFiniteSet(Held \cup {i}) /\ Cardinality(Held \cup {i}) = Cardinality(Held) + 1
    BY <2>1, <2>3, FS_AddElement
  <2>5. Cardinality(Held \cup {i}) <= MaxMembers
    BY <2>2, <2>3, <2>4
  <2>. QED  BY <2>1, <2>4, <2>5
<1>8. reply \in Replies /\ reply.id = i /\ reply.session = a.session
  <2>. DEFINE first == {j \in Held' : j <= i}
  <2>1. Cardinality(first) \in Nat
    <3>1. first \subseteq Held'
      OBVIOUS
    <3>. QED  BY <1>7, <3>1, FS_Subset, FS_CardinalityType
  <2>. HIDE DEF first
  <2>2. (Cardinality(first) <= SnapshotLimit) \in BOOLEAN
    BY <2>1, AdmissionLimitsAssumption
  <2>3. InSnapshot(i) \in BOOLEAN
    BY <2>2 DEF InSnapshot, first
  <2>. QED  BY <1>3, <2>3 DEF Replies
<1>. HIDE DEF new, reply
<1>9. IntroducerTypes' /\ ApplicantTypes'
  BY <1>1, <1>2, <1>4, <1>8 DEF IntroducerTypes, ApplicantTypes
<1>10. Bounded'
  <2>1. Pending' \subseteq Pending
    BY <1>2 DEF Pending, IntroducerTypes
  <2>. QED  BY <1>7, <2>1, SubsetBounded, AdmissionLimitsAssumption DEF Bounded
<1>11. RepliesAreOnRecord' /\ AdoptedIdentityIsOnRecord'
  <2>1. Remembered
    BY <1>1, <1>5, <1>6, Strangers DEF Remembered
  <2>2. a.session.cert \in {members'[i].cert, tombs'[i].cert}
    BY <1>4, <1>6
  <2>3. /\ AdoptedIdentityIsOnRecord'
        /\ \A r \in replies :
              r.id # NoId => r.session.cert \in {members'[r.id].cert, tombs'[r.id].cert}
    BY <1>1, <2>1, RecordFrame
  <2>. QED  BY <1>2, <1>8, <2>2, <2>3 DEF RepliesAreOnRecord
<1>12. Numbered'
  BY <1>1 DEF Numbered
<1>13. OneAdmissionPerCertificate'
  <2>1. \A j \in Ids : ~(members[j].live /\ members[j].cert = a.session.cert)
    BY DEF FinalGates, Gates, AlreadyAdmitted
  <2>2. \A c \in Certs, j \in Ids : members[j] = [cert |-> c, live |-> TRUE] => c # a.session.cert
    BY <2>1
  <2>3. \A c \in Certs : new = [cert |-> c, live |-> TRUE] => c = a.session.cert
    BY <1>4
  <2>. QED  BY <1>1, <1>6, <2>2, <2>3 DEF OneAdmissionPerCertificate
<1>14. Evidenced'
  <2>. SUFFICES ASSUME NEW b \in asked, Newest(b)
                PROVE  /\ admissions'[b.session].stage = "evidence" => admissions'[b.session].req = b.req
                       /\ admissions'[b.session].stage = "id" => b \in vouched
    BY <1>1 DEF Evidenced, Newest
  <2>1. b.session \in Sessions
    BY AskedFields
  <2>2. CASE b.session = a.session
    BY <1>2, <1>3, <2>2 DEF IntroducerTypes, NoAdmission
  <2>3. CASE b.session # a.session
    <3>1. admissions'[b.session] = admissions[b.session]
      BY <1>2, <2>1, <2>3 DEF IntroducerTypes
    <3>. QED  BY <3>1 DEF Evidenced
  <2>. QED  BY <2>2, <2>3
<1>. QED  BY <1>9, <1>10, <1>11, <1>12, <1>13, <1>14

LEMMA HandleJoinRequestInv ==
    ASSUME Inv, NEW s \in requests, HandleJoinRequest(s)
    PROVE  Inv'
<1>1. s \in Sessions /\ Aside /\ vouched' = vouched /\ vouched \subseteq asked
  BY DEF Inv, ApplicantTypes, IntroducerTypes, HandleJoinRequest, Aside
<1>2. Refuse(s) \/ (Await(s, "evidence") /\ Cardinality(Pending) < MaxPendingJoins)
  BY DEF HandleJoinRequest
<1>. QED  BY <1>1, <1>2, RefuseInv, AwaitInv DEF Stages

LEMMA ShellAnswersInv ==
    ASSUME Inv, NEW a \in asked, ShellAnswers(a)
    PROVE  Inv'
<1>1. a.session \in Sessions /\ vouched \subseteq asked
  BY AskedFields DEF Inv, IntroducerTypes
<1>2. ASSUME Current(a) PROVE a.session \in Pending
  <2>1. [stage |-> a.stage, req |-> a.req] # NoAdmission
    <3>1. a.stage \in Stages /\ a.req \in Nat
      BY DEF Inv, IntroducerTypes
    <3>. QED  BY <3>1, Strangers DEF Waiting
  <2>. QED  BY <1>1, <1>2, <2>1 DEF Current, Pending
<1>3. ASSUME NEW valid \in BOOLEAN, HandleCredentialVerified(a, valid) PROVE Inv'
  <2>1. Aside /\ Current(a) /\ a.stage = "evidence"
    BY <1>3 DEF HandleCredentialVerified, Aside
  <2>2. vouched \subseteq vouched' /\ vouched' \subseteq asked
    BY <1>1, <1>3 DEF HandleCredentialVerified
  <2>3. \/ Refuse(a.session)
        \/ Await(a.session, "id") /\ a \in vouched'
    BY <1>3 DEF HandleCredentialVerified
  <2>4. ASSUME NEW b \in asked, b.session = a.session, Newest(b) PROVE b = a
    <3>1. admissions[a.session].stage = "evidence" /\ admissions[a.session].req = a.req
      BY <2>1 DEF Current
    <3>2. b.req = a.req /\ b.stage = "evidence"
      BY <2>4, <3>1 DEF Inv, Evidenced, Newest
    <3>. QED  BY <2>1, <2>4, <3>2, AskedFields DEF Inv
  <2>. QED  BY <1>1, <1>2, <2>1, <2>2, <2>3, <2>4, RefuseInv, AwaitInv DEF Stages
<1>4. ASSUME NEW i \in Ids, HandleNodeIdAllocated(a, i) PROVE Inv'
  <2>1. CASE IdFree(i) /\ FinalGates(a.session.cert)
    BY <1>4, <2>1, InsertInv
  <2>2. CASE ~(IdFree(i) /\ FinalGates(a.session.cert))
    <3>1. Aside /\ Refuse(a.session) /\ vouched' = vouched
      BY <1>4, <2>2 DEF HandleNodeIdAllocated, Aside
    <3>. QED  BY <1>1, <3>1, RefuseInv
  <2>. QED  BY <2>1, <2>2
<1>5. CASE HandleNodeIdUnavailable(a)
  <2>1. Aside /\ Refuse(a.session) /\ vouched' = vouched
    BY <1>5 DEF HandleNodeIdUnavailable, Aside
  <2>. QED  BY <1>1, <2>1, RefuseInv
<1>. QED  BY <1>3, <1>4, <1>5, NewsAssumption DEF ShellAnswers

-----------------------------------------------------------------------------
(* The rest of the world.                                                  *)

\* Records move; a live one that was not there before came by gossip.
LEMMA ElsewhereInv ==
    ASSUME Inv, Elsewhere,
           members' \in [Ids -> People \cup {Nobody}], tombs' \in [Ids -> Tombs \cup {NoTomb}],
           locked' \in BOOLEAN, blocked' \subseteq Certs, Remembered,
           heard \subseteq heard', heard' \subseteq Ids,
           IsFiniteSet(Held'), Cardinality(Held') <= MaxMembers,
           \A i \in Ids : i \in heard' \/ ~members'[i].live \/ members'[i] = members[i]
    PROVE  Inv'
<1>. USE DEF Inv
<1>1. /\ changes < MaxChanges /\ changes' = changes + 1
      /\ UNCHANGED <<admissions, asked, correlation, vouched, join, tries, identity, requests, replies>>
  BY DEF Elsewhere, applicants
<1>2. changes' \in 0..MaxChanges
  BY <1>1, AdmissionLimitsAssumption DEF IntroducerTypes
<1>3. IntroducerTypes'
  BY <1>1, <1>2 DEF IntroducerTypes
<1>4. ApplicantTypes'
  BY <1>1 DEF ApplicantTypes
<1>5. Bounded'
  BY <1>1 DEF Bounded, Pending
<1>6. RepliesAreOnRecord' /\ AdoptedIdentityIsOnRecord'
  BY <1>1, RecordFrame DEF RepliesAreOnRecord
<1>7. Numbered' /\ Evidenced'
  BY <1>1 DEF Numbered, Evidenced, Newest
<1>8. OneAdmissionPerCertificate'
  <2>. SUFFICES ASSUME NEW c \in Certs, NEW i \in Ids \ heard', NEW j \in Ids \ heard',
                       members'[i] = [cert |-> c, live |-> TRUE], members'[i] = members'[j]
                PROVE  i = j
    BY DEF OneAdmissionPerCertificate
  <2>1. [cert |-> c, live |-> TRUE].live
    OBVIOUS
  <2>2. members[i] = members'[i] /\ members[j] = members'[j] /\ i \notin heard /\ j \notin heard
    BY <2>1
  <2>. QED  BY <2>2 DEF OneAdmissionPerCertificate
<1>. QED  BY <1>3, <1>4, <1>5, <1>6, <1>7, <1>8

\* No more members than before.
LEMMA FewerHeld ==
    ASSUME Inv, \A i \in Ids : members'[i] # Nobody => members[i] # Nobody
    PROVE  IsFiniteSet(Held') /\ Cardinality(Held') <= MaxMembers
<1>1. Held' \subseteq Held
  BY DEF Held
<1>2. MaxMembers \in Nat
  BY AdmissionLimitsAssumption
<1>. QED  BY <1>1, <1>2, SubsetBounded DEF Inv, Bounded

LEMMA WorldInv ==
    ASSUME Inv,
           \/ SetMembershipLock
           \/ \E c \in Certs : UpdateBlocklist(c)
           \/ \E i \in Ids : MemberDies(i)
           \/ \E n \in News, flag \in BOOLEAN :
                 TombstoneMerged(n[1], n[2], flag) \/ MemberHeard(n[1], n[2], flag)
    PROVE  Inv'
<1>1. /\ members \in [Ids -> People \cup {Nobody}] /\ tombs \in [Ids -> Tombs \cup {NoTomb}]
      /\ locked \in BOOLEAN /\ blocked \subseteq Certs /\ heard \subseteq Ids
  BY DEF Inv, IntroducerTypes
<1>2. CASE SetMembershipLock
  <2>1. Elsewhere /\ UNCHANGED <<members, tombs, blocked, heard>> /\ locked' \in BOOLEAN
    BY <1>1, <1>2 DEF SetMembershipLock
  <2>. QED  BY <1>1, <2>1, SameRecords, FewerHeld, ElsewhereInv
<1>3. ASSUME NEW c \in Certs, UpdateBlocklist(c) PROVE Inv'
  <2>1. Elsewhere /\ UNCHANGED <<members, tombs, locked, heard>> /\ blocked' \subseteq Certs
    BY <1>1, <1>3 DEF UpdateBlocklist
  <2>. QED  BY <1>1, <2>1, SameRecords, FewerHeld, ElsewhereInv
<1>4. ASSUME NEW i \in Ids, MemberDies(i) PROVE Inv'
  <2>1. Elsewhere /\ UNCHANGED <<tombs, locked, blocked, heard>> /\ members[i].live
    BY <1>4 DEF MemberDies
  <2>2. members[i] \in People
    BY <1>1, <2>1, Strangers
  <2>3. /\ members'[i].cert = members[i].cert /\ members'[i].live = FALSE /\ members'[i] \in People
        /\ \A j \in Ids : j # i => members'[j] = members[j]
        /\ members' \in [Ids -> People \cup {Nobody}]
    BY <1>1, <1>4, <2>2 DEF MemberDies, People
  <2>4. Remembered
    BY <2>1, <2>3 DEF Remembered
  <2>5. IsFiniteSet(Held') /\ Cardinality(Held') <= MaxMembers
    BY <2>2, <2>3, Strangers, FewerHeld
  <2>. QED  BY <1>1, <2>1, <2>3, <2>4, <2>5, ElsewhereInv
<1>5. ASSUME NEW i \in Ids, NEW c \in Certs \cup {Founder}, NEW flag \in BOOLEAN,
             TombstoneMerged(i, c, flag)
      PROVE  Inv'
  <2>1. Elsewhere /\ UNCHANGED <<locked, blocked, heard>> /\ Names(i, c)
    BY <1>5 DEF TombstoneMerged
  <2>2. [cert |-> c, fenced |-> flag] \in Tombs
    BY DEF Tombs
  <2>3. /\ members'[i] = Nobody /\ \A j \in Ids : j # i => members'[j] = members[j]
        /\ members' \in [Ids -> People \cup {Nobody}]
    BY <1>1, <1>5 DEF TombstoneMerged
  <2>4. /\ tombs'[i].cert = c /\ \A j \in Ids : j # i => tombs'[j] = tombs[j]
        /\ tombs' \in [Ids -> Tombs \cup {NoTomb}]
    BY <1>1, <1>5, <2>2 DEF TombstoneMerged
  <2>5. Remembered
    BY <2>1, <2>3, <2>4, Strangers DEF Remembered, Names
  <2>6. IsFiniteSet(Held') /\ Cardinality(Held') <= MaxMembers
    BY <2>3, FewerHeld
  <2>7. ~Nobody.live
    BY Strangers
  <2>. QED  BY <1>1, <2>1, <2>3, <2>4, <2>5, <2>6, <2>7, ElsewhereInv
<1>6. ASSUME NEW i \in Ids, NEW c \in Certs \cup {Founder}, NEW flag \in BOOLEAN,
             MemberHeard(i, c, flag)
      PROVE  Inv'
  <2>1. /\ Elsewhere /\ UNCHANGED <<tombs, locked, blocked>> /\ Names(i, c) /\ Room
        /\ members[i] = Nobody /\ heard' = heard \cup {i}
    BY <1>6 DEF MemberHeard
  <2>2. [cert |-> c, live |-> flag] \in People
    BY DEF People
  <2>3. /\ members'[i] # Nobody /\ \A j \in Ids : j # i => members'[j] = members[j]
        /\ members' \in [Ids -> People \cup {Nobody}]
    BY <1>1, <1>6, <2>2, Strangers DEF MemberHeard
  <2>4. Remembered
    BY <2>1, <2>3, Strangers DEF Remembered
  <2>5. IsFiniteSet(Held') /\ Cardinality(Held') <= MaxMembers
    <3>1. Held' = Held \cup {i} /\ i \notin Held
      BY <2>1, <2>3 DEF Held
    <3>2. IsFiniteSet(Held) /\ Cardinality(Held) \in Nat /\ MaxMembers \in Nat
      BY FS_CardinalityType, AdmissionLimitsAssumption DEF Inv, Bounded
    <3>3. IsFiniteSet(Held \cup {i}) /\ Cardinality(Held \cup {i}) = Cardinality(Held) + 1
      BY <3>1, <3>2, FS_AddElement
    <3>. QED  BY <2>1, <3>1, <3>2, <3>3 DEF Room
  <2>6. heard' \subseteq Ids /\ \A j \in Ids : j \in heard' \/ members'[j] = members[j]
    BY <1>1, <2>1, <2>3
  <2>. QED  BY <1>1, <2>1, <2>3, <2>4, <2>5, <2>6, ElsewhereInv
<1>7. \A n \in News : n[1] \in Ids /\ n[2] \in Certs \cup {Founder}
  BY NewsAssumption
<1>. QED  BY <1>2, <1>3, <1>4, <1>5, <1>6, <1>7

-----------------------------------------------------------------------------
(* The applicants' steps.                                                  *)

LEMMA ApplicantInv ==
    ASSUME Inv, UNCHANGED <<introducer, replies>>, ApplicantTypes', AdoptedIdentityIsOnRecord'
    PROVE  Inv'
<1>1. UNCHANGED <<members, tombs, locked, blocked, admissions, asked, correlation, vouched, heard,
                  changes, replies>>
  BY DEF introducer
<1>2. IntroducerTypes'
  BY <1>1 DEF Inv, IntroducerTypes
<1>3. Bounded'
  BY <1>1 DEF Inv, Bounded, Held, Pending
<1>4. RepliesAreOnRecord' /\ OneAdmissionPerCertificate'
  BY <1>1 DEF Inv, RepliesAreOnRecord, OneAdmissionPerCertificate
<1>5. Numbered' /\ Evidenced'
  BY <1>1 DEF Inv, Numbered, Evidenced, Newest
<1>. QED  BY <1>2, <1>3, <1>4, <1>5 DEF Inv

LEMMA SameIdentity ==
    ASSUME Inv, UNCHANGED <<introducer, identity>>
    PROVE  AdoptedIdentityIsOnRecord'
<1>1. UNCHANGED <<members, tombs>>
  BY DEF introducer
<1>. QED  BY <1>1 DEF Inv, AdoptedIdentityIsOnRecord

LEMMA RetryJoinInv ==
    ASSUME Inv, NEW c \in Certs, NEW line \in Lines, join[c] # NoJoin, RetryJoin(c, line)
    PROVE  Inv'
<1>. DEFINE n == join[c].attempt + 1
<1>1. join[c].attempt \in 1..MaxAttempts /\ MaxAttempts \in Nat
  BY AdmissionLimitsAssumption DEF Inv, ApplicantTypes, Joins
<1>2. UNCHANGED <<introducer, tries, identity, replies>>
  BY DEF RetryJoin
<1>3. /\ join' \in [Certs -> Joins \cup {NoJoin}]
      /\ requests' \subseteq Sessions
  <2>1. CASE n > MaxAttempts
    <3>1. join' = [join EXCEPT ![c] = NoJoin] /\ UNCHANGED requests
      BY <2>1 DEF RetryJoin, Abandoned, NextAttempt
    <3>. QED  BY <3>1 DEF Inv, ApplicantTypes
  <2>2. CASE ~(n > MaxAttempts)
    <3>1. /\ join' = [join EXCEPT ![c] = [line |-> line, attempt |-> n]]
          /\ requests' = requests \cup {Session(c, line)}
      BY <2>2 DEF RetryJoin, Abandoned, NextAttempt
    <3>2. [line |-> line, attempt |-> n] \in Joins
      BY <1>1, <2>2 DEF Joins
    <3>. QED  BY <3>1, <3>2, SessionFields DEF Inv, ApplicantTypes
  <2>. QED  BY <2>1, <2>2
<1>4. ApplicantTypes'
  BY <1>2, <1>3 DEF Inv, ApplicantTypes
<1>. QED  BY <1>2, <1>4, ApplicantInv, SameIdentity

LEMMA JoinInv ==
    ASSUME Inv, NEW c \in Certs,
           \/ \E line \in Lines : BeginJoin(c, line) \/ RebindJoin(c, line)
           \/ JoinTimer(c)
           \/ \E r \in replies : JoinRefused(c, r) \/ JoinAccepted(c, r)
    PROVE  Inv'
<1>1. ASSUME NEW line \in Lines, BeginJoin(c, line) PROVE Inv'
  <2>1. UNCHANGED <<introducer, identity, replies>> /\ tries[c] < MaxTries
    BY <1>1 DEF BeginJoin
  <2>2. tries' \in [Certs -> 0..MaxTries]
    BY <1>1, <2>1, AdmissionLimitsAssumption DEF BeginJoin, Inv, ApplicantTypes
  <2>3. [line |-> line, attempt |-> 1] \in Joins
    BY AdmissionLimitsAssumption DEF Joins
  <2>4. join' \in [Certs -> Joins \cup {NoJoin}] /\ requests' \subseteq Sessions
    BY <1>1, <2>3, SessionFields DEF BeginJoin, Inv, ApplicantTypes
  <2>5. ApplicantTypes'
    BY <2>1, <2>2, <2>4 DEF Inv, ApplicantTypes
  <2>. QED  BY <2>1, <2>5, ApplicantInv, SameIdentity
<1>2. join[c] # NoJoin => join[c].line \in Lines
  BY DEF Inv, ApplicantTypes, Joins
<1>3. ASSUME NEW line \in Lines, RebindJoin(c, line) PROVE Inv'
  BY <1>3, RetryJoinInv DEF RebindJoin
<1>4. CASE JoinTimer(c)
  BY <1>2, <1>4, RetryJoinInv DEF JoinTimer
<1>5. ASSUME NEW r \in replies, JoinRefused(c, r) PROVE Inv'
  BY <1>2, <1>5, RetryJoinInv DEF JoinRefused, Expected
<1>6. ASSUME NEW r \in replies, JoinAccepted(c, r) PROVE Inv'
  <2>1. /\ UNCHANGED <<introducer, tries, requests, replies>> /\ r.id # NoId
        /\ identity' = [identity EXCEPT ![c] = r.id] /\ join' = [join EXCEPT ![c] = NoJoin]
        /\ r.session = Session(c, join[c].line) /\ join[c] # NoJoin
    BY <1>6 DEF JoinAccepted, Expected
  <2>2. r.session.cert = c /\ r.id \in Ids
    BY <1>2, <2>1, SessionFields DEF Inv, ApplicantTypes, Replies
  <2>3. ApplicantTypes'
    <3>1. identity' \in [Certs -> Ids \cup {NoId}] /\ join' \in [Certs -> Joins \cup {NoJoin}]
      BY <2>1, <2>2 DEF Inv, ApplicantTypes
    <3>. QED  BY <2>1, <3>1 DEF Inv, ApplicantTypes
  <2>4. AdoptedIdentityIsOnRecord'
    <3>1. identity'[c] = r.id /\ \A d \in Certs : d # c => identity'[d] = identity[d]
      BY <2>1 DEF Inv, ApplicantTypes
    <3>2. UNCHANGED <<members, tombs>>
      BY <2>1 DEF introducer
    <3>3. c \in {members[r.id].cert, tombs[r.id].cert}
      BY <2>1, <2>2 DEF Inv, RepliesAreOnRecord
    <3>. QED  BY <3>1, <3>2, <3>3 DEF Inv, AdoptedIdentityIsOnRecord
  <2>. QED  BY <2>1, <2>3, <2>4, ApplicantInv
<1>. QED  BY <1>1, <1>3, <1>4, <1>5, <1>6

-----------------------------------------------------------------------------
(* The invariant, and what follows from it.                                *)

LEMMA InitInv == Init => Inv
<1>. SUFFICES ASSUME Init PROVE Inv
  OBVIOUS
<1>1. PICK others \in SUBSET Established :
         members = [i \in Ids |-> IF i \in others \cup {Local}
                                  THEN [cert |-> Founder, live |-> TRUE] ELSE Nobody]
  BY DEF Init
<1>2. [cert |-> Founder, live |-> TRUE] \in People
  BY DEF People
<1>3. IntroducerTypes
  <2>1. members \in [Ids -> People \cup {Nobody}]
    BY <1>1, <1>2
  <2>2. tombs \in [Ids -> Tombs \cup {NoTomb}] /\ admissions \in [Sessions -> Waiting \cup {NoAdmission}]
    BY DEF Init
  <2>3. locked \in BOOLEAN
    BY DEF Init
  <2>4. /\ blocked \subseteq Certs /\ correlation \in Nat /\ changes \in 0..MaxChanges
        /\ vouched \subseteq asked /\ heard \subseteq Ids
        /\ asked \subseteq [stage : Stages, req : Nat, session : Sessions]
    BY AdmissionLimitsAssumption DEF Init
  <2>. QED  BY <2>1, <2>2, <2>3, <2>4 DEF IntroducerTypes
<1>4. ApplicantTypes
  <2>1. /\ join \in [Certs -> Joins \cup {NoJoin}] /\ identity \in [Certs -> Ids \cup {NoId}]
        /\ tries \in [Certs -> 0..MaxTries]
    BY AdmissionLimitsAssumption DEF Init
  <2>2. requests \subseteq Sessions /\ replies \subseteq Replies
    BY DEF Init
  <2>. QED  BY <2>1, <2>2 DEF ApplicantTypes
<1>5. Bounded
  <2>1. Held \subseteq Established \cup {Local}
    BY <1>1 DEF Held
  <2>2. /\ IsFiniteSet(Established \cup {Local})
        /\ Cardinality(Established \cup {Local}) = Cardinality(Established) + 1
        /\ Cardinality(Established) \in Nat
    BY EstablishedAssumption, IdsAssumption, FS_AddElement, FS_CardinalityType
  <2>3. MaxMembers \in Nat /\ Cardinality(Established \cup {Local}) <= MaxMembers
    BY <2>2, EstablishedAssumption, AdmissionLimitsAssumption
  <2>4. IsFiniteSet(Held) /\ Cardinality(Held) <= MaxMembers
    BY <2>1, <2>2, <2>3, SubsetBounded
  <2>5. Pending = {}
    BY DEF Init, Pending
  <2>6. IsFiniteSet(Pending) /\ Cardinality(Pending) <= MaxPendingJoins
    BY <2>5, FS_EmptySet, AdmissionLimitsAssumption
  <2>. QED  BY <2>4, <2>6 DEF Bounded
<1>6. Numbered /\ RepliesAreOnRecord
  BY DEF Init, Numbered, RepliesAreOnRecord
<1>7. AdoptedIdentityIsOnRecord
  BY DEF Init, AdoptedIdentityIsOnRecord
<1>8. OneAdmissionPerCertificate
  <2>1. \A i \in Ids : members[i].cert \in {Founder, NoCert}
    BY <1>1, Strangers
  <2>2. \A c \in Certs : [cert |-> c, live |-> TRUE].cert \notin {Founder, NoCert}
    BY CertsAssumption
  <2>. QED  BY <2>1, <2>2 DEF OneAdmissionPerCertificate
<1>9. Evidenced
  BY DEF Init, Evidenced
<1>. QED  BY <1>3, <1>4, <1>5, <1>6, <1>7, <1>8, <1>9 DEF Inv

LEMMA NextInv == Inv /\ [Next]_vars => Inv'
<1>. SUFFICES ASSUME Inv, [Next]_vars PROVE Inv'
  OBVIOUS
<1>1. CASE UNCHANGED vars
  <2>1. UNCHANGED <<introducer, join, tries, identity, requests, replies>>
    BY <1>1 DEF vars, introducer
  <2>2. ApplicantTypes'
    BY <2>1 DEF Inv, ApplicantTypes
  <2>. QED  BY <2>1, <2>2, ApplicantInv, SameIdentity
<1>2. CASE Next
  BY <1>2, HandleJoinRequestInv, ShellAnswersInv, WorldInv, JoinInv DEF Next
<1>. QED  BY <1>1, <1>2

LEMMA Invariance == Spec => []Inv
BY InitInv, NextInv, PTL DEF Spec

\* The introducer's members, gossiped ones included, its pending admissions and
\* an applicant's attempts never exceed their limits, whatever stages, retries and connections interleave.
THEOREM TypeCorrect == Spec => []TypeOK
<1>1. Inv => TypeOK
  BY DEF Inv, TypeOK, IntroducerTypes, ApplicantTypes, Bounded, People, Tombs, Waiting, Joins,
         Replies, Held, Pending
<1>. QED  BY <1>1, Invariance, PTL

\* Of two live memberships of one certificate one always came by gossip: the
\* introducer itself admits none beside a live one, since the gates are run again
\* by the turn that inserts the member.
THEOREM OneLifePerCertificate == Spec => []OneAdmissionPerCertificate
<1>1. Inv => OneAdmissionPerCertificate
  BY DEF Inv
<1>. QED  BY <1>1, Invariance, PTL

\* An ID an applicant has adopted stays on the introducer's record under the
\* applicant's certificate, and so is given to nobody else.
THEOREM IdentitiesAreNotReused == Spec => []AdoptedIdentityIsOnRecord
<1>1. Inv => AdoptedIdentityIsOnRecord
  BY DEF Inv
<1>. QED  BY <1>1, Invariance, PTL

-----------------------------------------------------------------------------
(* What an admission rests on.                                             *)

\* What a step other than an admission leaves alone.
Quiet ==
    /\ \A i \in Ids \ heard' : members'[i] = members[i] \/ members[i] # Nobody
    /\ \A r \in replies' \ replies : r.id = NoId

\* A step admits nobody, or it is the insertion.
LEMMA StepKinds ==
    ASSUME Inv, [Next]_vars
    PROVE  \/ Quiet
           \/ \E a \in asked, i \in Ids : /\ HandleNodeIdAllocated(a, i)
                                          /\ IdFree(i) /\ FinalGates(a.session.cert)
<1>1. ASSUME members' = members, replies' = replies PROVE Quiet
  BY <1>1 DEF Quiet
<1>2. ASSUME NEW s \in Sessions, Refuse(s) PROVE Quiet
  BY <1>2 DEF Refuse, Reply, Quiet
<1>3. ASSUME NEW s \in Sessions, NEW stage, Await(s, stage) PROVE Quiet
  BY <1>3 DEF Await, Quiet
<1>4. ASSUME NEW s \in requests, HandleJoinRequest(s) PROVE Quiet
  <2>1. s \in Sessions
    BY DEF Inv, ApplicantTypes
  <2>. QED  BY <1>2, <1>3, <1>4, <2>1 DEF HandleJoinRequest
<1>5. ASSUME NEW a \in asked, ShellAnswers(a)
      PROVE  \/ Quiet
             \/ \E i \in Ids : /\ HandleNodeIdAllocated(a, i)
                               /\ IdFree(i) /\ FinalGates(a.session.cert)
  <2>1. a.session \in Sessions /\ Minted \subseteq Ids
    BY AskedFields, NewsAssumption DEF Inv
  <2>2. ASSUME NEW valid \in BOOLEAN, HandleCredentialVerified(a, valid) PROVE Quiet
    BY <1>2, <1>3, <2>1, <2>2 DEF HandleCredentialVerified
  <2>3. ASSUME NEW i \in Ids, HandleNodeIdAllocated(a, i), ~(IdFree(i) /\ FinalGates(a.session.cert))
        PROVE  Quiet
    BY <1>2, <2>1, <2>3 DEF HandleNodeIdAllocated
  <2>4. ASSUME HandleNodeIdUnavailable(a) PROVE Quiet
    BY <1>2, <2>1, <2>4 DEF HandleNodeIdUnavailable
  <2>. QED  BY <1>5, <2>1, <2>2, <2>3, <2>4 DEF ShellAnswers
<1>6. ASSUME SetMembershipLock \/ \E c \in Certs : UpdateBlocklist(c) PROVE Quiet
  <2>1. members' = members /\ replies' = replies
    BY <1>6 DEF SetMembershipLock, UpdateBlocklist, Elsewhere
  <2>. QED  BY <1>1, <2>1
<1>7. ASSUME NEW i \in Ids, MemberDies(i) PROVE Quiet
  BY <1>7, Strangers DEF MemberDies, Elsewhere, Inv, IntroducerTypes, Quiet
<1>8. ASSUME NEW n \in News, NEW flag \in BOOLEAN,
             TombstoneMerged(n[1], n[2], flag) \/ MemberHeard(n[1], n[2], flag)
      PROVE  Quiet
  <2>1. n[1] \in Ids /\ members \in [Ids -> People \cup {Nobody}]
    BY NewsAssumption DEF Inv, IntroducerTypes
  <2>2. CASE TombstoneMerged(n[1], n[2], flag)
    <3>1. members' = [members EXCEPT ![n[1]] = Nobody] /\ replies' = replies
      BY <2>2 DEF TombstoneMerged, Elsewhere
    <3>. QED  BY <2>1, <3>1 DEF Quiet
  <2>3. CASE MemberHeard(n[1], n[2], flag)
    <3>1. /\ \A j \in Ids : j # n[1] => members'[j] = members[j]
          /\ n[1] \in heard' /\ replies' = replies
      BY <2>1, <2>3 DEF MemberHeard, Elsewhere
    <3>. QED  BY <3>1 DEF Quiet
  <2>. QED  BY <1>8, <2>2, <2>3
<1>9. ASSUME NEW c \in Certs,
             \/ \E line \in Lines : BeginJoin(c, line) \/ RebindJoin(c, line)
             \/ JoinTimer(c)
             \/ \E r \in replies : JoinRefused(c, r) \/ JoinAccepted(c, r)
      PROVE  Quiet
  <2>1. members' = members /\ replies' = replies
    BY <1>9 DEF BeginJoin, RebindJoin, JoinTimer, JoinRefused, JoinAccepted, RetryJoin, introducer
  <2>. QED  BY <1>1, <2>1
<1>10. CASE UNCHANGED vars
  BY <1>1, <1>10 DEF vars
<1>. QED  BY <1>4, <1>5, <1>6, <1>7, <1>8, <1>9, <1>10 DEF Next

\* A member is admitted only in a state whose lock, blocklist, tombstones and
\* capacity admit it, however long ago the credential was verified.
THEOREM NobodySlipsIn == Spec => InsertionPassesEveryGate
<1>. DEFINE Passes == \A i \in Ids \ heard' :
          members[i] = Nobody /\ members'[i] # Nobody =>
             LET c == members'[i].cert
             IN  /\ ~locked /\ c \notin blocked /\ ~Excluded(c) /\ tombs[i] = NoTomb
                 /\ Cardinality(Held) < Capacity
<1>1. Inv /\ [Next]_vars => Passes
  <2>. SUFFICES ASSUME Inv, [Next]_vars PROVE Passes
    OBVIOUS
  <2>1. CASE Quiet
    BY <2>1 DEF Quiet
  <2>2. ASSUME NEW a \in asked, NEW i \in Ids, HandleNodeIdAllocated(a, i),
               IdFree(i), FinalGates(a.session.cert)
        PROVE  Passes
    <3>1. members' = [members EXCEPT ![i] = [cert |-> a.session.cert, live |-> TRUE]]
      BY <2>2 DEF HandleNodeIdAllocated
    <3>2. members'[i].cert = a.session.cert /\ \A j \in Ids : j # i => members'[j] = members[j]
      BY <3>1 DEF Inv, IntroducerTypes
    <3>. QED  BY <2>2, <3>2 DEF IdFree, FinalGates, Gates
  <2>. HIDE DEF Passes
  <2>. QED  BY <2>1, <2>2, StepKinds
<1>2. InsertionPassesEveryGate <=> [][Passes]_vars
  BY DEF InsertionPassesEveryGate
<1>. QED  BY <1>1, <1>2, Invariance, PTL DEF Spec

\* Whatever requests repeat, supersede one another and are answered late: an
\* acceptance goes out only on a session whose newest evidence request was
\* itself answered, and as valid.
THEOREM NobodyEntersOnOldEvidence == Spec => AdmissionRestsOnNewestEvidence
<1>. DEFINE Rests == \A r \in replies' \ replies : \A a \in asked :
          r.id # NoId /\ a.session = r.session /\ Newest(a) => a \in vouched
<1>1. Inv /\ [Next]_vars => Rests
  <2>. SUFFICES ASSUME Inv, [Next]_vars PROVE Rests
    OBVIOUS
  <2>1. CASE Quiet
    BY <2>1 DEF Quiet
  <2>2. ASSUME NEW a \in asked, NEW i \in Ids, HandleNodeIdAllocated(a, i),
               IdFree(i), FinalGates(a.session.cert)
        PROVE  Rests
    <3>1. replies' = replies \cup {[session |-> a.session, id |-> i, listed |-> InSnapshot(i)]}
      BY <2>2 DEF HandleNodeIdAllocated, Reply
    <3>2. \A r \in replies' \ replies : r.session = a.session
      BY <3>1
    <3>3. admissions[a.session].stage = "id"
      BY <2>2 DEF HandleNodeIdAllocated, Current
    <3>. QED  BY <3>2, <3>3 DEF Inv, Evidenced
  <2>. HIDE DEF Rests
  <2>. QED  BY <2>1, <2>2, StepKinds
<1>2. AdmissionRestsOnNewestEvidence <=> [][Rests]_vars
  BY DEF AdmissionRestsOnNewestEvidence
<1>. QED  BY <1>1, <1>2, Invariance, PTL DEF Spec
=============================================================================
