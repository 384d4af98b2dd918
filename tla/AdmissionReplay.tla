-------------------------- MODULE AdmissionReplay --------------------------
(***************************************************************************)
(* Recovering a lost acceptance: the worker's ledger of accepted           *)
(* assignments (admission_replay.rs, replay_join in driver.rs) in front of *)
(* the admission gates, and the binding of sessions to members             *)
(* (session.rs, registry.rs).                                              *)
(*                                                                         *)
(* The worker verifies credentials and allocates IDs within the owner turn *)
(* that handles the request, so one turn is one action here, from looking  *)
(* up the ledger to answering.  An applicant retries one attempt ID over   *)
(* any number of connections until it hears; requests and answers may be   *)
(* lost, delayed and repeated.                                             *)
(***************************************************************************)
EXTENDS Integers, FiniteSets

CONSTANTS
    Certs,          \* applicants, named by their certificate fingerprint
    Ids,            \* node IDs the shell may draw
    Lines,          \* connections each applicant has to the introducer
    Bodies,         \* what a request says, as its digest
    Capacity,       \* members the gates admit
    SnapshotLimit,  \* Limits.max_snapshot_members
    LedgerCapacity, \* CAPACITY in admission_replay.rs
    MaxTries,       \* bound: joins an applicant begins
    MaxChanges      \* bound: changes of the introducer's view from elsewhere

ASSUME ReplayAssumption ==
    /\ Ids \subseteq Nat
    /\ {Capacity, SnapshotLimit, LedgerCapacity} \subseteq Nat \ {0}
    /\ MaxTries \in Nat /\ MaxChanges \in Nat
ASSUME ApplicantsAssumption ==
    /\ IsFiniteSet(Certs) /\ Bodies # {}
    /\ \E f \in [Certs -> Ids] : \A c, d \in Certs : f[c] = f[d] => c = d

VARIABLES
    members,    \* ID -> the certificate and liveness of a member, or Nobody
    tombs,      \* ID -> the certificate a tombstone names and whether it fences
    locked,     \* membership lock
    blocked,    \* blocklisted certificates
    safe,       \* whether the introducer itself is neither blocked nor fenced
    ledger,     \* <<certificate, attempt>> -> Accepted
    bound,      \* session -> the member it was promoted to, or NoId
    changes,    \* counts towards MaxChanges
    attempt,    \* applicant -> the join it is in: attempt ID and session
    tries,      \* applicant -> joins begun
    adopted,    \* applicant -> the ID it has adopted, or NoId
    requests,   \* join requests sent
    answers     \* answers sent

introducer == <<members, tombs, locked, blocked, safe, ledger, bound, changes>>
applicants == <<attempt, tries, adopted>>
vars == <<introducer, applicants, requests, answers>>

NoId == -1
NoCert == "none"
Nobody == [cert |-> NoCert, live |-> FALSE]
NoTomb == [cert |-> NoCert, fenced |-> FALSE]
NoRecord == [id |-> NoId, body |-> "none"]
Idle == [try |-> 0, line |-> 0]

Sessions == [cert : Certs, line : Lines]
Requests == [session : Sessions, try : 1..MaxTries, body : Bodies]
Attempts == Certs \X (0..MaxTries)   \* attempt 0 was made before the first step

TypeOK ==
    /\ members \in [Ids -> [cert : Certs, live : BOOLEAN] \cup {Nobody}]
    /\ tombs \in [Ids -> [cert : Certs, fenced : BOOLEAN] \cup {NoTomb}]
    /\ locked \in BOOLEAN
    /\ blocked \subseteq Certs
    /\ safe \in BOOLEAN
    /\ ledger \in [Attempts -> [id : Ids, body : Bodies] \cup {NoRecord}]
    /\ Cardinality({a \in Attempts : ledger[a] # NoRecord}) <= LedgerCapacity
    /\ bound \in [Sessions -> Ids \cup {NoId}]
    /\ changes \in 0..MaxChanges
    /\ attempt \in [Certs -> [try : 1..MaxTries, line : Lines] \cup {Idle}]
    /\ tries \in [Certs -> 0..MaxTries]
    /\ adopted \in [Certs -> Ids \cup {NoId}]
    /\ requests \subseteq Requests
    /\ answers \subseteq [session : Sessions, try : 1..MaxTries, id : Ids]

\* The member an applicant may have been before it died and came back, and what
\* it asked for.
Former == CHOOSE f \in [Certs -> Ids] : \A c, d \in Certs : f[c] = f[d] => c = d
FormerBody == CHOOSE body \in Bodies : TRUE

Init ==
    /\ \E back \in SUBSET Certs :
          /\ Cardinality(back) <= LedgerCapacity
          /\ members = [i \in Ids |-> IF \E c \in back : Former[c] = i
                                    THEN [cert |-> CHOOSE c \in back : Former[c] = i,
                                          live |-> FALSE]
                                    ELSE Nobody]
          /\ ledger = [a \in Attempts |-> IF a[2] = 0 /\ a[1] \in back
                                         THEN [id |-> Former[a[1]], body |-> FormerBody]
                                         ELSE NoRecord]
    /\ tombs = [i \in Ids |-> NoTomb]
    /\ locked = FALSE
    /\ blocked = {}
    /\ safe = TRUE
    /\ bound = [s \in Sessions |-> NoId]
    /\ changes = 0
    /\ attempt = [c \in Certs |-> Idle]
    /\ tries = [c \in Certs |-> 0]
    /\ adopted = [c \in Certs |-> NoId]
    /\ requests = {}
    /\ answers = {}

-----------------------------------------------------------------------------
(* The introducer.                                                         *)

Held == {i \in Ids : members[i] # Nobody}

Excluded(c) == \E i \in Ids : tombs[i].fenced /\ tombs[i].cert = c

\* evaluate_local_gates.
Gates(c) ==
    /\ ~locked
    /\ c \notin blocked
    /\ ~Excluded(c)
    /\ ~\E i \in Ids : members[i].live /\ members[i].cert = c
    /\ Cardinality(Held) < Capacity

\* Mutant: the record is found and the assignment not checked again.
ValidateMember_Recorded(c, i) == members[i].cert = c

\* validate_member: the assignment still stands.
ValidateMember(c, i) ==
    members[i].live /\ members[i].cert = c /\ c \notin blocked /\ ~Excluded(c)

\* A session bound to a member serves as long as the member stands
\* (Session::context, synchronize).
Usable(s) == bound[s] # NoId => ValidateMember(s.cert, bound[s])

\* Mutant: only the connection that was promoted may replay.
MayReplay_Promoted(s, i) == bound[s] = i

\* A promoted session may replay its own assignment only.
MayReplay(s, i) == bound[s] \in {NoId, i}

Answer(r, i) == answers' = answers \cup {[session |-> r.session, try |-> r.try, id |-> i]}

\* replay_join with a record: the assignment is answered again, or nothing is.  An
\* introducer that is not ready (local_admission_state_safe) replays nothing; the
\* admission gates do not ask.
Replay(r, record) ==
    LET s == r.session
    IN  /\ record.body = r.body
        /\ safe
        /\ MayReplay(s, record.id)
        /\ ValidateMember(s.cert, record.id)
        /\ Cardinality(Held) <= SnapshotLimit
        /\ Answer(r, record.id)
        /\ bound' = [bound EXCEPT ![s] = record.id]
        /\ UNCHANGED <<members, ledger>>

LedgerFull == Cardinality({a \in Attempts : ledger[a] # NoRecord}) = LedgerCapacity

\* handle_join_request to handle_node_id_allocated in one turn, then
\* Ledger::commit and promote before the answer leaves.
Admit(r) ==
    LET s == r.session
    IN  /\ bound[s] = NoId
        /\ ~LedgerFull
        /\ Gates(s.cert)
        /\ \E i \in Ids :
              /\ members[i] = Nobody /\ tombs[i] = NoTomb
              /\ members' = [members EXCEPT ![i] = [cert |-> s.cert, live |-> TRUE]]
              /\ ledger' = [ledger EXCEPT ![<<s.cert, r.try>>] = [id |-> i, body |-> r.body]]
              /\ bound' = [bound EXCEPT ![s] = i]
              /\ Answer(r, i)

\* Mutant: an assignment that no longer stands is forgotten.
Lookup_Standing(r) ==
    LET record == ledger[<<r.session.cert, r.try>>]
    IN  IF record # NoRecord /\ ValidateMember(r.session.cert, record.id)
        THEN record
        ELSE NoRecord

\* Ledger::lookup.
Lookup(r) == ledger[<<r.session.cert, r.try>>]

\* An owner turn for a join request with a valid token; every other outcome
\* refuses and changes nothing.
Turn(r) ==
    /\ r \in requests
    /\ Usable(r.session)
    /\ IF Lookup(r) # NoRecord THEN Replay(r, Lookup(r)) ELSE Admit(r)
    /\ UNCHANGED <<tombs, locked, blocked, safe, changes, applicants, requests>>

Elsewhere ==
    /\ changes < MaxChanges
    /\ changes' = changes + 1
    /\ UNCHANGED <<ledger, bound, applicants, requests, answers>>

SetMembershipLock ==
    /\ Elsewhere
    /\ locked' = ~locked
    /\ UNCHANGED <<members, tombs, blocked, safe>>

\* A newer entry blocks a certificate, or lifts its block.
UpdateBlocklist(c) ==
    /\ Elsewhere
    /\ blocked' = IF c \in blocked THEN blocked \ {c} ELSE blocked \cup {c}
    /\ UNCHANGED <<members, tombs, locked, safe>>

\* The same of the introducer's own certificate, name or ID.
LocalBlocklist ==
    /\ Elsewhere
    /\ safe' = ~safe
    /\ UNCHANGED <<members, tombs, locked, blocked>>

\* A member is declared dead.
MemberDies(i) ==
    /\ Elsewhere
    /\ members[i].live
    /\ members' = [members EXCEPT ![i].live = FALSE]
    /\ UNCHANGED <<tombs, locked, blocked, safe>>

\* A member is removed under a tombstone.
MemberRemoved(i) ==
    /\ Elsewhere
    /\ members[i] # Nobody
    /\ members' = [members EXCEPT ![i] = Nobody]
    /\ tombs' = [tombs EXCEPT ![i] = [cert |-> members[i].cert, fenced |-> TRUE]]
    /\ UNCHANGED <<locked, blocked, safe>>

TombstoneCleared(i) ==
    /\ Elsewhere
    /\ tombs[i].fenced
    /\ tombs' = [tombs EXCEPT ![i].fenced = FALSE]
    /\ UNCHANGED <<members, locked, blocked, safe>>

-----------------------------------------------------------------------------
(* The applicant.                                                          *)

Session(c, line) == [cert |-> c, line |-> line]

Send(c, try, line, body) ==
    requests' = requests \cup {[session |-> Session(c, line), try |-> try, body |-> body]}

\* BeginJoin: a fresh attempt ID.
BeginJoin(c, line, body) ==
    /\ attempt[c] = Idle /\ adopted[c] = NoId
    /\ tries[c] < MaxTries
    /\ tries' = [tries EXCEPT ![c] = @ + 1]
    /\ attempt' = [attempt EXCEPT ![c] = [try |-> tries'[c], line |-> line]]
    /\ Send(c, tries'[c], line, body)
    /\ UNCHANGED <<introducer, adopted, answers>>

\* The join timer, or RebindJoin on a replacement connection: the request goes
\* out again under the same attempt ID.
Retry(c, line, body) ==
    /\ attempt[c] # Idle
    /\ attempt' = [attempt EXCEPT ![c].line = line]
    /\ Send(c, attempt[c].try, line, body)
    /\ UNCHANGED <<introducer, tries, adopted, answers>>

\* The attempt's budget is spent.
Abandon(c) ==
    /\ attempt[c] # Idle
    /\ attempt' = [attempt EXCEPT ![c] = Idle]
    /\ UNCHANGED <<introducer, tries, adopted, requests, answers>>

\* handle_join_reply: an acceptance on the session the attempt is on.
Adopt(c, a) ==
    /\ attempt[c] # Idle
    /\ a.session = Session(c, attempt[c].line)
    /\ adopted' = [adopted EXCEPT ![c] = a.id]
    /\ attempt' = [attempt EXCEPT ![c] = Idle]
    /\ UNCHANGED <<introducer, tries, requests, answers>>

Applicant(c) ==
    \/ \E line \in Lines, body \in Bodies : BeginJoin(c, line, body) \/ Retry(c, line, body)
    \/ Abandon(c)

Next ==
    \/ \E r \in requests : Turn(r)
    \/ SetMembershipLock \/ LocalBlocklist
    \/ \E c \in Certs : UpdateBlocklist(c)
    \/ \E i \in Ids : MemberDies(i) \/ MemberRemoved(i) \/ TombstoneCleared(i)
    \/ \E c \in Certs : Applicant(c) \/ \E a \in answers : Adopt(c, a)

Spec == Init /\ [][Next]_vars

\* A request sent again and again is handled and its answer heard in the end.
FairSpec ==
    /\ Spec
    /\ \A r \in Requests : WF_vars(Turn(r))
    /\ \A c \in Certs : WF_vars(\E a \in answers : Adopt(c, a))

-----------------------------------------------------------------------------
(* Properties.                                                             *)

\* A lost acceptance is recovered, never repeated: all acceptances of one
\* attempt assign one ID, over any number of connections and although the
\* member may have died, been removed or been cleared in between.
AttemptAssignsOneId ==
    \A a, b \in answers :
       a.session.cert = b.session.cert /\ a.try = b.try => a.id = b.id

\* Replaying resurrects nobody: whatever is answered is, when it is answered,
\* a live member under the applicant's certificate, blocked or excluded by
\* nothing (replay_join's validate_member).
AcceptancesAreStanding ==
    [][\A a \in answers' \ answers :
          LET c == a.session.cert
          IN  members'[a.id] = [cert |-> c, live |-> TRUE] /\ c \notin blocked /\ ~Excluded(c)]_vars

\* The attempt was accepted and its assignment stands.
Stands(c, t) == \E i \in Ids : ledger[<<c, t>>].id = i /\ ValidateMember(c, i)

\* The applicant has said something else under the same attempt ID.
Conflicting(c, t) ==
    \E r \in requests : r.session.cert = c /\ r.try = t /\ r.body # ledger[<<c, t>>].body

\* An applicant that goes on waiting and repeats what it said hears of the
\* membership it was given on a connection it has lost, unless the membership is
\* taken away first or the introducer may not answer.
LostAcceptanceIsRecovered ==
    \A c \in Certs, t \in 1..MaxTries :
       Stands(c, t) /\ attempt[c].try = t
          ~> attempt[c].try # t \/ ~Stands(c, t) \/ ~safe \/ Conflicting(c, t)
=============================================================================
