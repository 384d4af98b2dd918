-------------------------------- MODULE Owner --------------------------------
(***************************************************************************)
(* The formation owner of one worker: the serialized task that holds the   *)
(* membership model, and carries out joining, catching up, leaving and     *)
(* being removed.                                                          *)
(*                                                                         *)
(* Everything slow happens outside it, in jobs that report back whenever   *)
(* they like: the first dial to an introducer, redials, reliable sends,    *)
(* catch-up transfers and the holder of the execution slot.  In between    *)
(* the worker may have become somebody else, so every report is stamped    *)
(* with the generation of the identity that asked for it.                  *)
(*                                                                         *)
(* One action is one turn of the owner.  A turn is written as a chain of   *)
(* functions on the owner's record, in the order of the code.              *)
(***************************************************************************)
EXTENDS Naturals, FiniteSets

CONSTANTS
    Operations,      \* join operation IDs; each names its own target formation
    None,            \* the absent value
    MaxJoinAttempts, \* requests of one join
    MaxReconnects,   \* redials of one join
    MaxCatchups,     \* transfers of one catch-up
    MaxGeneration    \* bound: changes of identity in a behaviour

ASSUME BoundsAssumption ==
    /\ MaxJoinAttempts \in Nat \ {0} /\ MaxReconnects \in Nat
    /\ MaxCatchups \in Nat /\ MaxGeneration \in Nat
ASSUME NoneAssumption ==
    None \notin Operations /\ None \notin Operations \X (0..MaxReconnects)

VARIABLES
    o,          \* the owner
    dials,      \* JoinPreparation jobs in flight: [op, gen]
    redials,    \* JoinReconnect jobs in flight: [gen, session, id]
    sends,      \* join requests in flight: [gen, session]
    transfers,  \* CatchupPreparation jobs in flight: [gen, id, form]
    requested   \* history: operations whose join request left this worker

vars == <<o, dials, redials, sends, transfers, requested>>

Own(g) == <<"own", g>>
Target(op) == <<"target", op>>
Session(op, k) == <<op, k>>

NoAttempt == [n |-> 0, session |-> None, timer |-> 0]
NoJoin == [session |-> None, emitted |-> FALSE, tries |-> 0, pending |-> 0]

Init ==
    /\ o = [gen |-> 0, part |-> "Standalone", token |-> Own(0),
            form |-> Own(0), alone |-> TRUE, locked |-> FALSE,
            attempt |-> NoAttempt, correlation |-> 0, timers |-> {},
            join |-> NoJoin, ops |-> [op \in Operations |-> "Unknown"],
            active |-> None, current |-> None,
            pending |-> 0, tries |-> 0, failed |-> FALSE, clock |-> "off",
            run |-> "none", fatal |-> FALSE]
    /\ dials = {} /\ redials = {} /\ sends = {} /\ transfers = {}
    /\ requested = {}

\* One step of a turn after another.
Then(Step(_), w) == CHOOSE r \in {Step(v) : v \in {w}} : TRUE

Running == o.part # "Stopping" /\ ~o.fatal
Occupied(w) == w.run # "none"

-----------------------------------------------------------------------------
(* JoinOperations.                                                         *)

Allowed == {<<"Connecting", "Admitting">>, <<"Connecting", "FailedBeforeAdmission">>,
            <<"Admitting", "CatchingUp">>, <<"Admitting", "Unresolved">>,
            <<"CatchingUp", "Joined">>, <<"CatchingUp", "CatchUpFailed">>,
            <<"CatchUpFailed", "CatchingUp">>}

\* advance: a refused transition ends the owner.
Advance(w, op, next) ==
    IF w.ops[op] = next THEN w
    ELSE IF w.active # op \/ <<w.ops[op], next>> \notin Allowed THEN [w EXCEPT !.fatal = TRUE]
    ELSE [w EXCEPT !.ops[op] = next,
                   !.active = IF next \in {"FailedBeforeAdmission", "Joined"} THEN None ELSE @]

EndLifecycle_CallsItClean(w) ==
    IF w.active = None THEN w
    ELSE [w EXCEPT !.active = None,
                   !.ops[w.active] = CASE @ \in {"Connecting", "Admitting"} -> "FailedBeforeAdmission"
                                       [] @ = "CatchingUp" -> "CatchUpFailed"
                                       [] OTHER -> @]

\* end_lifecycle: a local exit settles the active record by what is known of it.
EndLifecycle(w) ==
    IF w.active = None THEN w
    ELSE [w EXCEPT !.active = None,
                   !.ops[w.active] = CASE @ = "Connecting" -> "FailedBeforeAdmission"
                                       [] @ = "Admitting" -> "Unresolved"
                                       [] @ = "CatchingUp" -> "CatchUpFailed"
                                       [] OTHER -> @]

\* bind_recovery: the reference is bound in the turn that starts the join.
BindRecovery(w, op) ==
    IF w.join = NoJoin \/ (w.active = op /\ w.ops[op] \in {"Connecting", "Admitting"})
    THEN w ELSE [w EXCEPT !.fatal = TRUE]

-----------------------------------------------------------------------------
(* Parts of a turn.                                                        *)

Eligible_IgnoresDial(w) ==
    /\ w.part = "Standalone" /\ w.alone /\ w.locked
    /\ w.attempt = NoAttempt /\ w.join = NoJoin

\* execution_eligible.
Eligible(w) ==
    /\ w.part = "Standalone" /\ w.alone /\ w.locked
    /\ w.attempt = NoAttempt /\ w.active = None /\ w.join = NoJoin

Revoked(w) == [w EXCEPT !.run = IF @ = "none" THEN "none" ELSE "revoked"]

\* The stage a participation stands for.
Stage(w) ==
    CASE w.part = "CatchingUp" -> IF w.failed THEN "CatchUpFailed" ELSE "CatchingUp"
      [] w.part = "Ejected" /\ w.failed -> "CatchUpFailed"
      [] w.part = "Joined" -> "Joined"
      [] w.part = "JoinUnresolved" -> "Unresolved"
      [] w.part = "Standalone" -> "FailedBeforeAdmission"
      [] OTHER -> "none"

Fenced(w) == IF Eligible(w) THEN w ELSE Revoked(w)
Timed(w) == IF w.part = "CatchingUp" /\ w.clock = "expired" THEN [w EXCEPT !.failed = TRUE] ELSE w
Recorded(w) ==
    IF w.current = None \/ Stage(w) = "none" THEN w ELSE Advance(w, w.current, Stage(w))

\* publish: reconcile the execution slot, expire the catch-up, advance the record.
Publish(w) == Then(Recorded, Then(Timed, Fenced(w)))

\* apply, when the transition changed the formation or the node ID: a new model,
\* and nothing of the old identity stays.
NewIdentity(w, f) ==
    [Revoked(w) EXCEPT !.gen = @ + 1, !.form = f, !.token = None,
        !.attempt = NoAttempt, !.correlation = 0, !.timers = {}, !.locked = FALSE,
        !.join = NoJoin, !.pending = 0, !.tries = 0, !.failed = FALSE, !.clock = "off"]

\* FormationAdopted and FormationLeft.
Adopted(w) ==
    [NewIdentity(w, Target(w.attempt.session[1])) EXCEPT
        !.alone = FALSE, !.part = "CatchingUp", !.clock = "running"]

Left_KeepsRecord(w) ==
    LET f == Own(w.gen + 1) IN
    [Then(EndLifecycle, NewIdentity(w, f)) EXCEPT
        !.alone = TRUE, !.part = "Standalone", !.token = f]

Left(w) ==
    LET f == Own(w.gen + 1) IN
    [Then(EndLifecycle, NewIdentity(w, f)) EXCEPT
        !.alone = TRUE, !.part = "Standalone", !.current = None, !.token = f]

\* eject: the model stays, the process forgets everything it could act with.
Ejected(w) ==
    [Revoked(w) EXCEPT !.gen = @ + 1, !.failed = (w.part = "CatchingUp"), !.part = "Ejected",
        !.token = None, !.pending = 0, !.clock = "off", !.join = NoJoin, !.timers = {}]

\* The end of apply: a join that is over leaves a question only if it was asked.
Settled(w) ==
    IF w.attempt # NoAttempt THEN w
    ELSE [w EXCEPT !.join = NoJoin,
                   !.part = IF @ # "Joining" THEN @
                            ELSE IF w.join.emitted THEN "JoinUnresolved" ELSE "Standalone"]

Finish(w) == Then(Publish, Then(Settled, w))

\* Effect::Send of a JoinRequest; the session must be the transport's.
Request(w, route) ==
    IF w.attempt.session # w.join.session THEN [w EXCEPT !.fatal = TRUE]
    ELSE IF ~route THEN w
    ELSE LET e == [w EXCEPT !.join.emitted = TRUE] IN
         IF w.current = None THEN e ELSE Advance(e, w.current, "Admitting")

\* A core attempt with a fresh timer token, armed.
Attempt(w, n, s) ==
    [w EXCEPT !.attempt = [n |-> n, session |-> s, timer |-> w.correlation],
              !.correlation = @ + 1,
              !.timers = {t \in @ : t.token # w.correlation}
                            \cup {[token |-> w.correlation, gen |-> w.gen]}]

\* retry_join: retire the timer, then ask once more or give up.
RetryJoin(w, route) ==
    LET quiet == [w EXCEPT !.timers = {t \in @ : t.token # w.attempt.timer}] IN
    IF w.attempt.n + 1 > MaxJoinAttempts THEN [quiet EXCEPT !.attempt = NoAttempt]
    ELSE Then(LAMBDA v : Request(v, route), Attempt(quiet, w.attempt.n + 1, w.attempt.session))

\* What a turn leaves in flight: a request if one was made; abort_all cannot take
\* back a send that has already completed.
Sent(w, route) ==
    IF route /\ w.attempt # NoAttempt THEN {[gen |-> w.gen, session |-> w.attempt.session]} ELSE {}
Aborts(w) == w.gen # o.gen \/ (o.part = "Joining" /\ w.part # "Joining")
Turn(w, left, route) ==
    \E v \in {w} :
        /\ v.gen <= MaxGeneration
        /\ o' = v
        /\ sends' \in IF Aborts(v) THEN SUBSET left ELSE {left \cup Sent(v, route)}
        /\ requested' = IF route /\ v.attempt # NoAttempt /\ v.gen = o.gen
                        THEN requested \cup {v.attempt.session[1]} ELSE requested

Quiet(w) == Turn(w, sends, FALSE)

-----------------------------------------------------------------------------
(* Joining.                                                                *)

\* JoinOperations::reserve: a fresh operation, and no other one active.  A replay of a
\* known operation only reads its record.
Reservable(op) == o.ops[op] = "Unknown" /\ o.active = None /\ o.part = "Standalone"

\* PrepareJoin: reserve the operation and hand out the dial.
PrepareJoin(op) ==
    /\ Running
    /\ ~Occupied(o) /\ Reservable(op)
    /\ o' = [o EXCEPT !.ops[op] = "Connecting", !.active = op]
    /\ dials' = dials \cup {[op |-> op, gen |-> o.gen]}
    /\ UNCHANGED <<redials, sends, transfers, requested>>

\* BeginJoin.
Begun(w, op, route) ==
    LET j == [w EXCEPT !.join = [NoJoin EXCEPT !.session = Session(op, 0)], !.part = "Joining"]
    IN Finish(Then(LAMBDA v : Request(v, route), Attempt(j, 1, Session(op, 0))))

JoinNotPrepared_Silent(d) ==
    /\ Running
    /\ dials' = dials \ {d}
    /\ UNCHANGED <<o, redials, sends, transfers, requested>>

\* JoinPrepared without a usable connection, or too late to be used.
JoinNotPrepared(d) ==
    /\ Running
    /\ dials' = dials \ {d}
    /\ o' = Advance(o, d.op, "FailedBeforeAdmission")
    /\ UNCHANGED <<redials, sends, transfers, requested>>

\* JoinPrepared with one; BeginJoin looks again, also whether it is still open.
JoinPrepared(d, open, route) ==
    /\ Running
    /\ d.gen = o.gen /\ o.part = "Standalone"
    /\ dials' = dials \ {d}
    /\ LET w == [o EXCEPT !.current = d.op] IN
       IF ~open \/ Occupied(w) \/ w.attempt # NoAttempt
       THEN route = FALSE /\ o' = w /\ UNCHANGED <<sends, requested>>
       ELSE Turn(Then(LAMBDA v : BindRecovery(v, d.op), Begun(w, d.op, route)), sends, route)
    /\ UNCHANGED <<redials, transfers>>

\* PrepareJoinReconnect: one redial at a time, while another request may be made.
PrepareJoinReconnect ==
    /\ Running
    /\ o.part = "Joining" /\ o.join # NoJoin /\ o.join.pending = 0
    /\ o.join.tries < MaxReconnects
    /\ o.attempt # NoAttempt /\ o.attempt.n < MaxJoinAttempts
    /\ o.attempt.session = o.join.session
    /\ LET k == o.join.tries + 1 IN
       /\ o' = [o EXCEPT !.join.tries = k, !.join.pending = k]
       /\ redials' = redials \cup {[gen |-> o.gen, session |-> o.join.session, id |-> k]}
    /\ UNCHANGED <<dials, sends, transfers, requested>>

\* JoinReconnectFinished, and the RebindJoin it leads to.
JoinReconnectFinished(r, ok, route) ==
    /\ Running
    /\ redials' = redials \ {r}
    /\ LET valid == /\ r.gen = o.gen /\ o.part = "Joining"
                    /\ o.join.session = r.session /\ o.join.pending = r.id
                    /\ o.attempt.session = r.session
           idle == [o EXCEPT !.join.pending = 0]
           new == Session(r.session[1], r.id)
       IN CASE ~valid -> ok = FALSE /\ route = FALSE /\ UNCHANGED <<o, sends, requested>>
            [] valid /\ ~ok -> route = FALSE /\ o' = idle /\ UNCHANGED <<sends, requested>>
            [] OTHER -> Turn(Finish(RetryJoin([idle EXCEPT !.join.session = new,
                                                           !.attempt.session = new], route)),
                             sends, route)
    /\ UNCHANGED <<dials, transfers>>

\* A due timer of the join.
JoinTimer(t, route) ==
    /\ Running
    /\ LET w == [o EXCEPT !.timers = @ \ {t}]
           due == w.attempt # NoAttempt /\ w.attempt.timer = t.token
       IN Turn(Finish(IF due THEN RetryJoin(w, route) ELSE w), sends, due /\ route)
    /\ UNCHANGED <<dials, redials, transfers>>

\* send_finished: the introducer's answer to a join request.  An error, or an answer
\* to another identity or on another session, is only counted.
SendFinished(x, answer, route) ==
    /\ Running
    /\ LET heard == /\ x.gen = o.gen /\ o.part # "Ejected"
                    /\ o.attempt # NoAttempt /\ x.session = o.attempt.session
       IN CASE answer = "lost" \/ ~heard ->
                  /\ answer = "lost" /\ route = FALSE
                  /\ sends' = sends \ {x} /\ UNCHANGED <<o, requested>>
            [] answer = "refused" /\ heard ->
                  Turn(Finish(RetryJoin(o, route)), sends \ {x}, route)
            [] answer = "accepted" /\ heard ->
                  route = FALSE /\ Turn(Finish(Adopted(o)), sends \ {x}, FALSE)
    /\ UNCHANGED <<dials, redials, transfers>>

-----------------------------------------------------------------------------
(* Catching up.                                                            *)

\* A turn reads the clock more than once: the ninety seconds may run out between the
\* check of a catch-up and what publish makes of it.
Overtaken(w, late) ==
    IF late /\ w.clock = "running" THEN [w EXCEPT !.clock = "expired"] ELSE w

\* PrepareCatchup, when some member has a session.
PrepareCatchup(late) ==
    /\ Running
    /\ o.part = "CatchingUp" /\ o.pending = 0 /\ o.clock = "running"
    /\ o.tries < MaxCatchups
    /\ LET w == [o EXCEPT !.tries = @ + 1, !.pending = o.tries + 1, !.failed = FALSE] IN
       /\ o' = Publish(Overtaken(w, late))
       /\ transfers' = transfers \cup {[gen |-> o.gen, id |-> w.pending, form |-> o.form]}
    /\ UNCHANGED <<dials, redials, sends, requested>>

\* Whatever came of it, the attempt is over.
Concluded(w) == Publish([w EXCEPT !.failed = (w.part # "Joined")])

\* InstallAdmissionBaseline may find this very worker removed.
Installed(w, c, result) ==
    CASE result = "removed" -> Finish(Ejected(w))
      [] result = "applied" -> [Finish(w) EXCEPT !.token = c.form, !.failed = FALSE,
                                                 !.clock = "off", !.part = "Joined"]
      [] result = "refused" -> Finish(w)

\* CatchupFinished; a transfer that failed installs nothing.
CatchupFinished_AnyGeneration(c, result, late) ==
    /\ Running
    /\ transfers' = transfers \ {c}
    /\ LET w == [o EXCEPT !.pending = 0, !.failed = FALSE]
           valid == o.part = "CatchingUp" /\ o.clock = "running"
           done == IF valid /\ result # "failed" THEN Installed(Overtaken(w, late), c, result) ELSE w
       IN Quiet(Then(Concluded, done))
    /\ UNCHANGED <<dials, redials>>

CatchupFinished(c, result, late) ==
    /\ Running
    /\ transfers' = transfers \ {c}
    /\ LET w == [o EXCEPT !.pending = 0, !.failed = FALSE]
           valid == o.part = "CatchingUp" /\ o.clock = "running"
           done == IF valid /\ result # "failed" THEN Installed(Overtaken(w, late), c, result) ELSE w
       IN IF c.gen = o.gen /\ o.pending = c.id
          THEN Quiet(Then(Concluded, done))
          ELSE result = "failed" /\ UNCHANGED <<o, sends, requested>>
    /\ UNCHANGED <<dials, redials>>

-----------------------------------------------------------------------------
(* The rest of the world.                                                  *)

\* leave_operation; alone and standalone there is nothing to leave.
Leave ==
    /\ Running
    /\ ~Occupied(o)
    /\ o.part \notin {"Joining", "JoinUnresolved"}
    /\ o.part # "Standalone" \/ ~o.alone
    /\ Quiet(Finish(Left(o)))
    /\ UNCHANGED <<dials, redials, transfers>>

\* decide_lock.
SetLock(l) ==
    /\ Running
    /\ o.part \in {"Standalone", "Joined"}
    /\ ~l => ~Occupied(o)
    /\ Quiet(Finish([o EXCEPT !.locked = l]))
    /\ UNCHANGED <<dials, redials, transfers>>

\* A peer is admitted with the token of this formation.
Admit ==
    /\ Running
    /\ o.part \in {"Standalone", "Joined"} /\ o.token # None /\ ~o.locked
    /\ Quiet(Finish([o EXCEPT !.alone = FALSE]))
    /\ UNCHANGED <<dials, redials, transfers>>

\* Other members go, or decide the lock.
PeerNews(alone, locked) ==
    /\ Running /\ o.part # "Ejected" /\ ~o.alone
    /\ Quiet(Finish([o EXCEPT !.alone = alone, !.locked = locked]))
    /\ UNCHANGED <<dials, redials, transfers>>

\* Gossip says that this worker is removed.
Removed ==
    /\ Running /\ o.part # "Ejected" /\ ~o.alone
    /\ Quiet(Finish(Ejected(o)))
    /\ UNCHANGED <<dials, redials, transfers>>

\* reserve_execution and the end of a lease.
ReserveExecution ==
    /\ Running
    /\ ~Occupied(o) /\ Eligible(o)
    /\ o' = [o EXCEPT !.run = "held"]
    /\ UNCHANGED <<dials, redials, sends, transfers, requested>>

ReleaseExecution ==
    /\ Running /\ Occupied(o)
    /\ o' = [o EXCEPT !.run = "none"]
    /\ UNCHANGED <<dials, redials, sends, transfers, requested>>

\* The one-second tick applies a command and so publishes.
ProbeTick ==
    /\ Running /\ o.part # "Ejected"
    /\ Quiet(Finish(o))
    /\ UNCHANGED <<dials, redials, transfers>>

\* Ninety seconds of catching up are over.
Expire ==
    /\ Running /\ o.clock = "running"
    /\ o' = [o EXCEPT !.clock = "expired"]
    /\ UNCHANGED <<dials, redials, sends, transfers, requested>>

Stop ==
    /\ Running
    /\ o' = [Revoked(o) EXCEPT !.part = "Stopping"]
    /\ UNCHANGED <<dials, redials, sends, transfers, requested>>

DialEnds ==
    \E d \in dials :
        JoinNotPrepared(d) \/ \E open, route \in BOOLEAN : JoinPrepared(d, open, route)
RedialEnds == \E r \in redials, ok, route \in BOOLEAN : JoinReconnectFinished(r, ok, route)
SendEnds == \E x \in sends, answer \in {"lost", "refused", "accepted"}, route \in BOOLEAN :
                SendFinished(x, answer, route)
TransferEnds == \E c \in transfers, result \in {"failed", "refused", "applied", "removed"},
                  late \in BOOLEAN : CatchupFinished(c, result, late)
TimerFires == \E t \in o.timers, route \in BOOLEAN : JoinTimer(t, route)

Next ==
    \/ \E op \in Operations : PrepareJoin(op)
    \/ DialEnds \/ PrepareJoinReconnect \/ RedialEnds \/ TimerFires \/ SendEnds
    \/ (\E late \in BOOLEAN : PrepareCatchup(late)) \/ TransferEnds \/ Expire
    \/ Leave \/ (\E l \in BOOLEAN : SetLock(l)) \/ Admit \/ Removed
    \/ \E alone, locked \in BOOLEAN : PeerNews(alone, locked)
    \/ ReserveExecution \/ ReleaseExecution \/ ProbeTick \/ Stop

Spec == Init /\ [][Next]_vars

\* A dial reports, also when it is dropped; timers and the tick are the runtime's.
\* Nothing else is owed: answers, redials and transfers may never come.
Owed == DialEnds \/ TimerFires \/ Expire \/ ProbeTick

FairSpec == Spec /\ WF_vars(Owed)

-----------------------------------------------------------------------------
(* Properties.                                                             *)

Participations == {"Standalone", "Joining", "JoinUnresolved", "CatchingUp", "Joined", "Ejected",
                   "Stopping"}
States == {"Unknown", "Connecting", "Admitting", "CatchingUp", "CatchUpFailed", "Joined",
           "FailedBeforeAdmission", "Unresolved"}

TypeOK ==
    /\ o.part \in Participations
    /\ o.ops \in [Operations -> States]
    /\ o.active \in Operations \cup {None} /\ o.current \in Operations \cup {None}
    /\ o.attempt.n \in 0..MaxJoinAttempts
    /\ o.pending \in 0..MaxCatchups

\* The owner ends itself (DriverError) when a join record refuses its next stage or a
\* join request has no transport.  No order of reports, removals and leaves gets there;
\* one race of the clock does: CatchupFinished finds the catch-up in time, the publish
\* inside its installation finds it expired and writes the record off as failed, and
\* the record then refuses the worker that has just joined.
OnlyTheClockEndsTheOwner ==
    [][~o.fatal /\ o'.fatal =>
          /\ o.part = "CatchingUp" /\ o.clock = "running"
          /\ o'.part = "Joined" /\ o'.ops[o'.current] = "CatchUpFailed"]_vars

\* An operation recorded as failed before admission never sent a join request, so
\* no formation has admitted this worker on its behalf.
CleanFailureIsTrue ==
    \A op \in Operations : o.ops[op] = "FailedBeforeAdmission" => op \notin requested

\* A run that is not fenced is alone: no dial, no join and no member can turn up
\* under it.
RunIsAlone ==
    o.run = "held" => /\ o.part = "Standalone" /\ o.alone /\ o.locked
                      /\ o.active = None
                      /\ \A d \in dials : d.gen # o.gen

\* Nothing of an old identity stays with a new one.  The admission token, which this
\* worker hands out together with its formation ID, is the current formation's,
\* though it arrives from jobs of any age.  The armed join timers are exactly the one
\* of the pending attempt, though tokens start again from zero with every identity.
IdentityIsItsOwn ==
    /\ o.token \in {None, o.form}
    /\ o.part \notin {"Ejected", "Stopping"} =>
          o.timers = IF o.attempt = NoAttempt THEN {}
                     ELSE {[token |-> o.attempt.timer, gen |-> o.gen]}

\* An operation does not stay where it waits for somebody: a dial, an answer or a
\* transfer that never comes ends it, unless the worker is removed or stopped.
OperationsProgress ==
    \A op \in Operations : \A s \in {"Connecting", "Admitting", "CatchingUp"} :
        o.ops[op] = s ~> o.ops[op] # s \/ o.part \in {"Ejected", "Stopping"}

=============================================================================
