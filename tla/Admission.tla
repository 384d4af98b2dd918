----------------------------- MODULE Admission -----------------------------
(***************************************************************************)
(* Joining a formation: the introducer's admission stages (update.rs,      *)
(* admission.rs) and the applicants' attempts (update.rs).                 *)
(*                                                                         *)
(* The core asks its shell to verify credentials and to allocate IDs and   *)
(* is written for answers that come later: the lock, the members and the   *)
(* exclusions may change between two stages, and an answer may belong to a *)
(* request that has been superseded.  Requests and replies may be lost,    *)
(* delayed and repeated.  AdmissionReplay models the ledger the worker     *)
(* keeps in front of this.                                                 *)
(***************************************************************************)
EXTENDS Integers, FiniteSets

CONSTANTS
    Certs,          \* applicants, named by their certificate fingerprint
    Ids,            \* node IDs, in their order
    Local,          \* the introducer's own ID
    Established,    \* IDs other members may hold before the first applicant comes
    Lines,          \* connections each applicant has to the introducer
    Capacity,       \* policy capacity: bounds admissions
    MaxMembers,     \* Limits.max_members: bounds what gossip may add
    SnapshotLimit,  \* Limits.max_snapshot_members
    MaxPendingJoins,\* Limits.max_pending_joins
    MaxAttempts,    \* Limits.max_join_attempts
    MaxTries,       \* bound: joins an applicant begins
    MaxHandled,     \* bound: join requests the introducer takes up
    MaxChanges,     \* bound: changes of the introducer's view from elsewhere
    Minted,         \* bound: IDs the shell allocates
    News            \* bound: IDs and certificates the formation has news about

ASSUME IdsAssumption == Ids \subseteq Nat /\ Local \in Ids \ Established /\ Established \subseteq Ids
ASSUME EstablishedAssumption == IsFiniteSet(Established) /\ Cardinality(Established) < Capacity
ASSUME AdmissionLimitsAssumption ==
    /\ {Capacity, MaxMembers, SnapshotLimit, MaxPendingJoins, MaxAttempts} \subseteq Nat \ {0}
    /\ Capacity <= MaxMembers
    /\ {MaxTries, MaxHandled, MaxChanges} \subseteq Nat

VARIABLES
    members,    \* ID -> the certificate and liveness of a member, or Nobody
    tombs,      \* ID -> the certificate a tombstone names and whether it fences
    locked,     \* membership lock
    blocked,    \* blocklisted certificates
    admissions, \* session -> PendingAdmission
    asked,      \* requests the shell may still answer
    vouched,    \* history: evidence requests answered with a valid credential
    heard,      \* history: IDs whose record gossip has brought
    correlation,\* next correlation ID
    changes,    \* counts towards MaxChanges
    join,       \* applicant -> JoinAttempt
    tries,      \* applicant -> joins begun
    identity,   \* applicant -> the ID it has adopted, or NoId
    requests,   \* sessions a join request was sent on
    replies     \* join replies sent

vars == <<members, tombs, locked, blocked, admissions, asked, correlation, vouched, heard,
          changes, join, tries, identity, requests, replies>>

introducer == <<members, tombs, locked, blocked, admissions, asked, correlation, vouched, heard,
                changes>>
view == <<tombs, locked, blocked, heard, changes>>
applicants == <<join, tries, identity>>

NoId == -1
NoCert == "none"
Founder == "founder"    \* the certificate of a member that was never an applicant
Nobody == [cert |-> NoCert, live |-> FALSE]
NoTomb == [cert |-> NoCert, fenced |-> FALSE]
NoAdmission == [stage |-> "none", req |-> 0]
NoJoin == [line |-> 0, attempt |-> 0]

ASSUME CertsAssumption == NoCert \notin Certs /\ Founder \notin Certs
ASSUME NewsAssumption == Minted \subseteq Ids /\ News \subseteq Ids \X (Certs \cup {Founder})

\* An authenticated session, with the applicant at its other end.
Sessions == [cert : Certs, line : Lines]

Stages == {"evidence", "id"}

TypeOK ==
    /\ members \in [Ids -> [cert : Certs \cup {Founder}, live : BOOLEAN] \cup {Nobody}]
    /\ tombs \in [Ids -> [cert : Certs \cup {Founder}, fenced : BOOLEAN] \cup {NoTomb}]
    /\ locked \in BOOLEAN
    /\ blocked \subseteq Certs
    /\ admissions \in [Sessions -> [stage : Stages, req : Nat] \cup {NoAdmission}]
    /\ asked \subseteq [stage : Stages, req : Nat, session : Sessions]
    /\ vouched \subseteq asked /\ heard \subseteq Ids
    /\ correlation \in Nat /\ changes \in 0..MaxChanges
    /\ join \in [Certs -> [line : Lines, attempt : 1..MaxAttempts] \cup {NoJoin}]
    /\ tries \in [Certs -> 0..MaxTries]
    /\ identity \in [Certs -> Ids \cup {NoId}]
    /\ requests \subseteq Sessions
    /\ replies \subseteq [session : Sessions, id : Ids \cup {NoId}, listed : BOOLEAN]
    /\ Cardinality({i \in Ids : members[i] # Nobody}) <= MaxMembers
    /\ Cardinality({s \in Sessions : admissions[s] # NoAdmission}) <= MaxPendingJoins

Init ==
    /\ \E others \in SUBSET Established :
          members = [i \in Ids |-> IF i \in others \cup {Local}
                                  THEN [cert |-> Founder, live |-> TRUE]
                                  ELSE Nobody]
    /\ tombs = [i \in Ids |-> NoTomb]
    /\ locked = FALSE
    /\ blocked = {}
    /\ admissions = [s \in Sessions |-> NoAdmission]
    /\ asked = {}
    /\ vouched = {} /\ heard = {}
    /\ correlation = 0 /\ changes = 0
    /\ join = [c \in Certs |-> NoJoin]
    /\ tries = [c \in Certs |-> 0]
    /\ identity = [c \in Certs |-> NoId]
    /\ requests = {}
    /\ replies = {}

-----------------------------------------------------------------------------
(* The gates.                                                              *)

Held == {i \in Ids : members[i] # Nobody}

Pending == {s \in Sessions : admissions[s] # NoAdmission}

\* A certificate an uncleared tombstone excludes.
Excluded(c) == \E i \in Ids : tombs[i].fenced /\ tombs[i].cert = c

\* A member record that is alive or suspected pins its certificate.
AlreadyAdmitted(c) == \E i \in Ids : members[i].live /\ members[i].cert = c

\* Mutant: a certificate may be admitted twice.
Gates_AdmitAgain(c) ==
    ~locked /\ c \notin blocked /\ ~Excluded(c) /\ Cardinality(Held) < Capacity

\* evaluate_local_gates.
Gates(c) ==
    /\ ~locked
    /\ c \notin blocked
    /\ ~Excluded(c)
    /\ ~AlreadyAdmitted(c)
    /\ Cardinality(Held) < Capacity

-----------------------------------------------------------------------------
(* The introducer.                                                         *)

Reply(s, i, listed) ==
    replies' = replies \cup {[session |-> s, id |-> i, listed |-> listed]}

\* refuse_admission, as a refusal or as a redirect: the pending admission of
\* the session goes.
Refuse(s) ==
    /\ admissions' = [admissions EXCEPT ![s] = NoAdmission]
    /\ Reply(s, NoId, FALSE)
    /\ UNCHANGED <<members, asked, correlation>>

\* The session's admission waits for the shell.
Await(s, stage) ==
    /\ admissions' = [admissions EXCEPT ![s] = [stage |-> stage, req |-> correlation]]
    /\ asked' = asked \cup {[stage |-> stage, req |-> correlation, session |-> s]}
    /\ correlation' = correlation + 1
    /\ UNCHANGED <<members, replies>>

\* handle_join_request.  A request may be seen again later.
HandleJoinRequest(s) ==
    /\ s \in requests
    /\ Cardinality({a \in asked : a.stage = "evidence"}) < MaxHandled
    /\ IF Gates(s.cert) /\ Cardinality(Pending) < MaxPendingJoins
       THEN Await(s, "evidence")
       ELSE Refuse(s)
    /\ UNCHANGED <<view, vouched, applicants, requests>>

\* Mutant: an answer is taken for whatever request of its stage is pending.
Current_AnyRequest(a) == admissions[a.session].stage = a.stage

\* The stage an answer is for; an answer to a superseded request is dropped.
Current(a) == admissions[a.session] = [stage |-> a.stage, req |-> a.req]

\* handle_credential_verified; the gates are run again.
HandleCredentialVerified(a, valid) ==
    /\ a.stage = "evidence" /\ Current(a)
    /\ IF valid /\ Gates(a.session.cert) THEN Await(a.session, "id") ELSE Refuse(a.session)
    /\ vouched' = IF valid THEN vouched \cup {a} ELSE vouched
    /\ UNCHANGED <<view, applicants, requests>>

\* Mutant: the allocated ID is compared with the tombstones only.
IdFree_Tombstones(i) == tombs[i] = NoTomb

\* The ID is neither a member's nor a tombstone's, cleared or not.
IdFree(i) == members[i] = Nobody /\ tombs[i] = NoTomb

\* Mutant: the last stage trusts the gates of the one before.
FinalGates_Skipped(c) == TRUE

\* The gates, as the turn that inserts the member evaluates them.
FinalGates(c) == Gates(c)

\* The snapshot: the first members in ID order, as many as the limit allows.
InSnapshot(i) == Cardinality({j \in Held' : j <= i}) <= SnapshotLimit

\* handle_node_id_allocated: the member is inserted and the acceptance sent in
\* one turn.
HandleNodeIdAllocated(a, i) ==
    /\ a.stage = "id" /\ Current(a)
    /\ IF IdFree(i) /\ FinalGates(a.session.cert)
       THEN /\ members' = [members EXCEPT ![i] = [cert |-> a.session.cert, live |-> TRUE]]
            /\ admissions' = [admissions EXCEPT ![a.session] = NoAdmission]
            /\ Reply(a.session, i, InSnapshot(i))
            /\ UNCHANGED <<asked, correlation>>
       ELSE Refuse(a.session)
    /\ UNCHANGED <<view, vouched, applicants, requests>>

\* NodeIdUnavailable.
HandleNodeIdUnavailable(a) ==
    /\ a.stage = "id" /\ Current(a)
    /\ Refuse(a.session)
    /\ UNCHANGED <<view, vouched, applicants, requests>>

-----------------------------------------------------------------------------
(* What else happens to the introducer's view.                             *)

Elsewhere ==
    /\ changes < MaxChanges
    /\ changes' = changes + 1
    /\ UNCHANGED <<admissions, asked, correlation, vouched, applicants, requests, replies>>

SetMembershipLock ==
    /\ Elsewhere
    /\ locked' = ~locked
    /\ UNCHANGED <<members, tombs, blocked, heard>>

\* Command::UpdateBlocklist, or a newer entry from a peer: either may block the
\* certificate or lift its block.
UpdateBlocklist(c) ==
    /\ Elsewhere
    /\ blocked' = IF c \in blocked THEN blocked \ {c} ELSE blocked \cup {c}
    /\ UNCHANGED <<members, tombs, locked, heard>>

\* declare_dead here, or a death from a peer.
MemberDies(i) ==
    /\ Elsewhere
    /\ members[i].live /\ i # Local
    /\ members' = [members EXCEPT ![i].live = FALSE]
    /\ UNCHANGED <<tombs, locked, blocked, heard>>

\* Records of i name the certificate it was admitted with, wherever that was.
Names(i, c) == members[i].cert \in {c, NoCert} /\ tombs[i].cert \in {c, NoCert}

\* handle_remove and handle_clear_tombstone here, or a tombstone from a peer: the
\* member goes, if there is one, even when the record says the fence is lifted.
TombstoneMerged(i, c, fenced) ==
    /\ Elsewhere
    /\ i # Local /\ Names(i, c)
    /\ tombs[i] # [cert |-> c, fenced |-> fenced]
    /\ members' = [members EXCEPT ![i] = Nobody]
    /\ tombs' = [tombs EXCEPT ![i] = [cert |-> c, fenced |-> fenced]]
    /\ UNCHANGED <<locked, blocked, heard>>

\* Mutant: gossip inserts past the limit.
Room_Unlimited == TRUE

\* merge_member's own limit; the admission capacity does not bind it.
Room == Cardinality(Held) < MaxMembers

\* merge_member inserts a record this view does not hold: one admitted by another
\* introducer, or one that returns after its tombstone was cleared.  Only the
\* fence and max_members can refuse it: neither the lock, the blocklist, the
\* capacity nor a live record of the same certificate is looked at.
MemberHeard(i, c, live) ==
    /\ Elsewhere
    /\ members[i] = Nobody /\ ~tombs[i].fenced /\ Names(i, c)
    /\ Room
    /\ members' = [members EXCEPT ![i] = [cert |-> c, live |-> live]]
    /\ heard' = heard \cup {i}
    /\ UNCHANGED <<tombs, locked, blocked>>

-----------------------------------------------------------------------------
(* The applicant.                                                          *)

Session(c, line) == [cert |-> c, line |-> line]

\* BeginJoin: one attempt at a time.
BeginJoin(c, line) ==
    /\ join[c] = NoJoin /\ identity[c] = NoId
    /\ tries[c] < MaxTries
    /\ tries' = [tries EXCEPT ![c] = @ + 1]
    /\ join' = [join EXCEPT ![c] = [line |-> line, attempt |-> 1]]
    /\ requests' = requests \cup {Session(c, line)}
    /\ UNCHANGED <<introducer, identity, replies>>

NextAttempt(n) == n + 1

Abandoned(n) == n > MaxAttempts

\* retry_join: the request goes out again, or the attempt is abandoned.
RetryJoin(c, line) ==
    LET next == NextAttempt(join[c].attempt)
    IN  /\ IF Abandoned(next)
           THEN /\ join' = [join EXCEPT ![c] = NoJoin]
                /\ UNCHANGED requests
           ELSE /\ join' = [join EXCEPT ![c] = [line |-> line, attempt |-> next]]
                /\ requests' = requests \cup {Session(c, line)}
        /\ UNCHANGED <<introducer, tries, identity, replies>>

\* handle_join_timer.
JoinTimer(c) ==
    /\ join[c] # NoJoin
    /\ RetryJoin(c, join[c].line)

\* RebindJoin: the connection was replaced.
RebindJoin(c, line) ==
    /\ join[c] # NoJoin /\ join[c].line # line
    /\ RetryJoin(c, line)

\* A reply on the session the request went out on.
Expected(c, r) == join[c] # NoJoin /\ r.session = Session(c, join[c].line)

\* handle_join_reply, for a refusal or a redirect.
JoinRefused(c, r) ==
    /\ r.id = NoId /\ Expected(c, r)
    /\ RetryJoin(c, join[c].line)

\* handle_join_reply and adopt_formation.  A snapshot that omits the entry for
\* the assigned ID is ignored and the attempt goes on waiting.
JoinAccepted(c, r) ==
    /\ r.id # NoId /\ r.listed /\ Expected(c, r)
    /\ identity' = [identity EXCEPT ![c] = r.id]
    /\ join' = [join EXCEPT ![c] = NoJoin]
    /\ UNCHANGED <<introducer, tries, requests, replies>>

ShellAnswers(a) ==
    \/ \E valid \in BOOLEAN : HandleCredentialVerified(a, valid)
    \/ \E i \in Minted : HandleNodeIdAllocated(a, i)
    \/ HandleNodeIdUnavailable(a)

Next ==
    \/ \E s \in requests : HandleJoinRequest(s)
    \/ \E a \in asked : ShellAnswers(a)
    \/ SetMembershipLock
    \/ \E c \in Certs : UpdateBlocklist(c)
    \/ \E i \in Ids : MemberDies(i)
    \/ \E n \in News, flag \in BOOLEAN :
          TombstoneMerged(n[1], n[2], flag) \/ MemberHeard(n[1], n[2], flag)
    \/ \E c \in Certs : \/ \E line \in Lines : BeginJoin(c, line) \/ RebindJoin(c, line)
                        \/ JoinTimer(c)
                        \/ \E r \in replies : JoinRefused(c, r) \/ JoinAccepted(c, r)

Spec == Init /\ [][Next]_vars

-----------------------------------------------------------------------------
(* Properties.                                                             *)

\* Two sessions, two attempts or two stages in flight never give one
\* certificate two live memberships (AlreadyAdmitted in evaluate_local_gates,
\* run again at insertion): of two live records of a certificate one came by
\* gossip, which the gate cannot hold back.
OneAdmissionPerCertificate ==
    \A c \in Certs, i, j \in Ids \ heard :
       [cert |-> c, live |-> TRUE] = members[i] /\ members[i] = members[j] => i = j

\* A member is admitted only in a state that admits it: a lock, a block, a
\* removal, or a record from elsewhere that took the last place or the ID, still
\* counts when it came after the credential was verified.
InsertionPassesEveryGate ==
    [][\A i \in Ids \ heard' :
          members[i] = Nobody /\ members'[i] # Nobody =>
             LET c == members'[i].cert
             IN  /\ ~locked /\ c \notin blocked /\ ~Excluded(c) /\ tombs[i] = NoTomb
                 /\ Cardinality(Held) < Capacity]_vars

\* An identity an applicant adopted, however late the acceptance came, is one
\* the introducer gave to its certificate and has given to nobody else since:
\* it is still on record as a member or as a tombstone.
AdoptedIdentityIsOnRecord ==
    \A c \in Certs : identity[c] # NoId =>
       c \in {members[identity[c]].cert, tombs[identity[c]].cert}

\* The evidence request of session s that superseded all its others.
Newest(a) ==
    /\ a \in asked /\ a.stage = "evidence"
    /\ \A b \in asked : b.stage = "evidence" /\ b.session = a.session => b.req <= a.req

\* Nobody is admitted on the verification of an attempt that a later request of
\* its session has superseded: the newest evidence request was itself answered,
\* and as valid (handle_credential_verified compares the request number).
AdmissionRestsOnNewestEvidence ==
    [][\A r \in replies' \ replies : \A a \in asked :
          r.id # NoId /\ a.session = r.session /\ Newest(a) => a \in vouched]_vars
=============================================================================
