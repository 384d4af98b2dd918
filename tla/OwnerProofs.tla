----------------------------- MODULE OwnerProofs -----------------------------
(***************************************************************************)
(* For every set of join operations and all limits: nothing but one race   *)
(* of the catch-up clock makes the owner fail, an operation recorded as    *)
(* failed before admission asked nobody, a run that is not fenced is       *)
(* alone, and an identity keeps nothing of the one before.                 *)
(***************************************************************************)
EXTENDS Owner, TLAPS

-----------------------------------------------------------------------------
(* The inductive invariant.                                                *)

Sessions == Operations \X (0..MaxReconnects)
Formations == {Own(g) : g \in Nat} \cup {Target(op) : op \in Operations}

Attempts == [n : 0..MaxJoinAttempts, session : Sessions \cup {None}, timer : Nat]
Joins == [session : Sessions \cup {None}, emitted : BOOLEAN, tries : 0..MaxReconnects,
          pending : 0..MaxReconnects]

Owners ==
    [gen : Nat, part : Participations, token : Formations \cup {None},
     form : Formations, alone : BOOLEAN, locked : BOOLEAN,
     attempt : Attempts, correlation : Nat, timers : SUBSET [token : Nat, gen : Nat],
     join : Joins, ops : [Operations -> States],
     active : Operations \cup {None}, current : Operations \cup {None},
     pending : 0..MaxCatchups, tries : 0..MaxCatchups, failed : BOOLEAN,
     clock : {"off", "running", "expired"},
     run : {"none", "held", "revoked"}, fatal : BOOLEAN]

\* An operation under way is the active one.
UnderWay == {"Connecting", "Admitting", "CatchingUp"}
ActiveIsKnown(w) == \A op \in Operations : w.ops[op] \in UnderWay => w.active = op

\* No join in the model and none in the transport.
AtRest(w) == w.attempt = NoAttempt /\ w.join = NoJoin

\* The current operation is at one of these stages.
CurrentIs(w, stages) == w.current \in Operations /\ w.ops[w.current] \in stages

\* What a join under way keeps: its request goes out on the transport's session,
\* and the record says whether one ever went.
JoinIsConsistent(w) ==
    /\ w.attempt # NoAttempt /\ w.attempt.session = w.join.session
    /\ w.current \in Operations /\ w.attempt.session \in {w.current} \X (0..MaxReconnects)
    /\ w.ops[w.current] = IF w.join.emitted THEN "Admitting" ELSE "Connecting"

\* A participation, and the stage its operation's record is at.
PartIsRecorded(w) ==
    /\ w.part = "Standalone" =>
          AtRest(w) /\ (w.current = None \/ CurrentIs(w, {"Connecting", "FailedBeforeAdmission"}))
    /\ w.part = "Joining" => JoinIsConsistent(w)
    /\ w.part = "JoinUnresolved" => AtRest(w) /\ CurrentIs(w, {"Unresolved"})
    /\ w.part = "CatchingUp" =>
          AtRest(w) /\ CurrentIs(w, {"CatchingUp", "CatchUpFailed"}) /\ w.active = w.current
    /\ w.part = "Joined" => AtRest(w) /\ CurrentIs(w, {"Joined"})
    /\ w.part = "Ejected" => w.timers = {} /\ (w.failed => CurrentIs(w, {"CatchUpFailed"}))

OwnToken(w) == w.token \in {None, w.form}
OwnTimers(w) ==
    w.part \notin {"Ejected", "Stopping"} =>
       w.timers = IF w.attempt = NoAttempt THEN {} ELSE {[token |-> w.attempt.timer, gen |-> w.gen]}

\* Only a catch-up waits for a transfer.
TransferIsWaitedFor(w) == w.pending # 0 => w.part \in {"CatchingUp", "Stopping"}

HeldIsAlone(w) ==
    w.run = "held" => w.part = "Standalone" /\ w.alone /\ w.locked /\ w.active = None

Sound(w) ==
    /\ w \in Owners /\ ~w.fatal
    /\ ActiveIsKnown(w) /\ PartIsRecorded(w) /\ OwnToken(w) /\ OwnTimers(w)
    /\ TransferIsWaitedFor(w)

Good(w) == Sound(w) /\ HeldIsAlone(w)

\* Stages of an operation whose dial may still be heard of.
Dialled == {"Connecting", "FailedBeforeAdmission"}

\* A dial of this generation finds the worker where it was asked for.
Still == {"Standalone", "Stopping"}

\* An operation is dialled once; until its dial is heard of it is connecting or
\* has failed, and is not the current one.
DialsAreHeard(w, D) ==
    \A d \in D :
       /\ d.op \in Operations /\ d.gen \in Nat /\ d.gen <= w.gen
       /\ w.ops[d.op] \in Dialled /\ w.current # d.op
       /\ d.gen = w.gen => w.ops[d.op] = "Connecting" /\ w.part \in Still
       /\ \A e \in D : e.op = d.op => e = d

TransfersAreStamped(w, T) ==
    \A c \in T :
       /\ c.gen \in Nat /\ c.gen <= w.gen /\ c.id # 0
       /\ c.gen = w.gen => c.form = w.form

\* Stages of an operation that may have asked somebody.
Asked == {"Admitting", "CatchingUp", "CatchUpFailed", "Joined", "Unresolved"}
RequestsAreRecorded(w, R) == \A op \in R : op \in Operations /\ w.ops[op] \in Asked

Linked(w, D, T, R) ==
    DialsAreHeard(w, D) /\ TransfersAreStamped(w, T) /\ RequestsAreRecorded(w, R)

\* A request in flight is on record as one.
SendsAreRequests == \A x \in sends : x.session[1] \in requested

Inv == Good(o) /\ Linked(o, dials, transfers, requested) /\ SendsAreRequests

\* An owner that has ended takes no further turn.  What it leaves is still right.
Ended == o.fatal /\ CleanFailureIsTrue /\ RunIsAlone /\ IdentityIsItsOwn

\* The turn in which the clock overtakes an installation.
Overtakes ==
    /\ o.part = "CatchingUp" /\ o.clock = "running"
    /\ o'.part = "Joined" /\ o'.ops[o'.current] = "CatchUpFailed"

-----------------------------------------------------------------------------
(* The steps of a turn.                                                    *)

\* Then is composition.
LEMMA OneAfterAnother ==
    ASSUME NEW w
    PROVE  /\ Publish(w) = Recorded(Timed(Fenced(w)))
           /\ Finish(w) = Publish(Settled(w))
           /\ Then(EndLifecycle, w) = EndLifecycle(w)
           /\ Then(Concluded, w) = Concluded(w)
           /\ \A route : Then(LAMBDA v : Request(v, route), w) = Request(w, route)
           /\ \A op : Then(LAMBDA v : BindRecovery(v, op), w) = BindRecovery(w, op)
<1>1. \A x : Then(Timed, x) = Timed(x)
  BY DEF Then
<1>2. \A x : Then(Recorded, x) = Recorded(x)
  BY DEF Then
<1>3. \A x : Then(Settled, x) = Settled(x)
  BY DEF Then
<1>4. \A x : Then(Publish, x) = Publish(x)
  BY DEF Then
<1>5. Then(EndLifecycle, w) = EndLifecycle(w)
  BY DEF Then
<1>6. Then(Concluded, w) = Concluded(w)
  BY DEF Then
<1>7. \A route : Then(LAMBDA v : Request(v, route), w) = Request(w, route)
  BY DEF Then
<1>8. \A op : Then(LAMBDA v : BindRecovery(v, op), w) = BindRecovery(w, op)
  BY DEF Then
<1>9. Publish(w) = Recorded(Timed(Fenced(w)))
  BY <1>1, <1>2 DEF Publish
<1>10. Finish(w) = Publish(Settled(w))
  BY <1>3, <1>4 DEF Finish
<1>. QED  BY <1>5, <1>6, <1>7, <1>8, <1>9, <1>10

\* What only a few steps change.
Kept(v, w) ==
    /\ v.gen = w.gen /\ v.form = w.form /\ v.token = w.token
    /\ v.alone = w.alone /\ v.locked = w.locked /\ v.current = w.current
    /\ v.attempt = w.attempt /\ v.correlation = w.correlation /\ v.timers = w.timers
    /\ v.pending = w.pending /\ v.tries = w.tries /\ v.clock = w.clock

\* The run is fenced unless the worker is eligible for one.
LEMMA FencedFacts ==
    ASSUME NEW w \in Owners
    PROVE  /\ Fenced(w) \in Owners /\ Kept(Fenced(w), w)
           /\ Fenced(w).part = w.part /\ Fenced(w).join = w.join /\ Fenced(w).failed = w.failed
           /\ Fenced(w).ops = w.ops /\ Fenced(w).active = w.active /\ Fenced(w).fatal = w.fatal
           /\ Fenced(w).run = "held" => w.run = "held" /\ Eligible(w)
<1>1. CASE Eligible(w)
  BY <1>1 DEF Fenced, Kept
<1>2. CASE ~Eligible(w)
  BY <1>2 DEF Fenced, Revoked, Kept, Owners
<1>. QED  BY <1>1, <1>2

LEMMA TimedFacts ==
    ASSUME NEW w \in Owners
    PROVE  /\ Timed(w) \in Owners /\ Kept(Timed(w), w)
           /\ Timed(w).part = w.part /\ Timed(w).join = w.join /\ Timed(w).run = w.run
           /\ Timed(w).ops = w.ops /\ Timed(w).active = w.active /\ Timed(w).fatal = w.fatal
           /\ w.part # "CatchingUp" \/ w.clock # "expired" => Timed(w).failed = w.failed
           /\ w.part = "CatchingUp" /\ w.clock = "expired" => Timed(w).failed = TRUE
<1>1. CASE w.part = "CatchingUp" /\ w.clock = "expired"
  BY <1>1 DEF Timed, Kept, Owners
<1>2. CASE ~(w.part = "CatchingUp" /\ w.clock = "expired")
  BY <1>2 DEF Timed, Kept
<1>. QED  BY <1>1, <1>2

\* The stage next is where the current operation is, or may go.
Can(w, next) ==
    \/ w.ops[w.current] = next
    \/ w.active = w.current /\ <<w.ops[w.current], next>> \in Allowed

\* Publishing advances the record without being refused.
Recordable(w) ==
    w.current # None =>
       /\ w.part = "Standalone" => Can(w, "FailedBeforeAdmission")
       /\ w.part = "JoinUnresolved" => Can(w, "Unresolved")
       /\ w.part = "Joined" => Can(w, "Joined")
       /\ w.part = "CatchingUp" /\ ~w.failed /\ w.clock # "expired" => Can(w, "CatchingUp")
       /\ w.part = "CatchingUp" /\ (w.failed \/ w.clock = "expired") => Can(w, "CatchUpFailed")
       /\ w.part = "Ejected" /\ w.failed => Can(w, "CatchUpFailed")

LEMMA AdvanceFacts ==
    ASSUME NEW w \in Owners, ActiveIsKnown(w), NEW op \in Operations, NEW next \in States,
           w.ops[op] = next \/ (w.active = op /\ <<w.ops[op], next>> \in Allowed),
           NEW v, v = Advance(w, op, next)
    PROVE  /\ v \in Owners /\ Kept(v, w) /\ ActiveIsKnown(v)
           /\ v.part = w.part /\ v.join = w.join /\ v.failed = w.failed
           /\ v.run = w.run /\ v.fatal = w.fatal
           /\ v.ops[op] = next /\ \A q \in Operations : q # op => v.ops[q] = w.ops[q]
           /\ v.active \in {w.active, None}
           /\ next \notin {"FailedBeforeAdmission", "Joined"} => v.active = w.active
           /\ w.ops[op] \in Asked => next \in Asked
<1>1. w.ops \in [Operations -> States] /\ w.active \in Operations \cup {None}
  BY DEF Owners
<1>2. w.ops[op] \in Asked => next \in Asked
  BY DEF Asked, Allowed
<1>3. CASE w.ops[op] = next
  <2>1. v = w
    BY <1>3 DEF Advance
  <2>. QED  BY <1>2, <1>3, <2>1 DEF Kept
<1>4. CASE w.ops[op] # next /\ w.active = op /\ <<w.ops[op], next>> \in Allowed
  <2>. DEFINE u == [w EXCEPT !.ops[op] = next,
                      !.active = IF next \in {"FailedBeforeAdmission", "Joined"} THEN None ELSE @]
  <2>1. v = u
    BY <1>4 DEF Advance
  <2>2. /\ u.ops = [w.ops EXCEPT ![op] = next]
        /\ u.active = IF next \in {"FailedBeforeAdmission", "Joined"} THEN None ELSE w.active
        /\ u \in Owners /\ Kept(u, w)
        /\ u.part = w.part /\ u.join = w.join /\ u.failed = w.failed
        /\ u.run = w.run /\ u.fatal = w.fatal
    BY <1>1, ZenonT(40) DEF Owners, Kept
  <2>. HIDE DEF u
  <2>3. /\ v.ops = [w.ops EXCEPT ![op] = next]
        /\ v.active = IF next \in {"FailedBeforeAdmission", "Joined"} THEN None ELSE w.active
        /\ v \in Owners /\ Kept(v, w)
        /\ v.part = w.part /\ v.join = w.join /\ v.failed = w.failed
        /\ v.run = w.run /\ v.fatal = w.fatal
    BY <2>1, <2>2
  <2>4. v.ops[op] = next /\ \A q \in Operations : q # op => v.ops[q] = w.ops[q]
    BY <1>1, <2>3
  <2>5. ActiveIsKnown(v)
    BY <1>4, <2>3, <2>4 DEF ActiveIsKnown, UnderWay
  <2>. QED  BY <1>2, <2>3, <2>4, <2>5
<1>. QED  BY <1>3, <1>4

\* What publishing does to an owner it finds consistent.
LEMMA PublishFacts ==
    ASSUME NEW w \in Owners, ~w.fatal, ActiveIsKnown(w), Recordable(w),
           NEW v, v = Publish(w)
    PROVE  /\ v \in Owners /\ Kept(v, w) /\ ActiveIsKnown(v) /\ ~v.fatal
           /\ v.part = w.part /\ v.join = w.join
           /\ w.part # "CatchingUp" => v.failed = w.failed
           /\ v.run = "held" => w.run = "held" /\ Eligible(w)
           /\ v.active \in {w.active, None}
           /\ w.part \in {"Joining", "JoinUnresolved", "CatchingUp", "Ejected"} => v.active = w.active
           /\ \A q \in Operations : /\ q # w.current => v.ops[q] = w.ops[q]
                                    /\ w.ops[q] \in Asked => v.ops[q] \in Asked
           /\ w.part \in {"Joining", "Stopping"} \/ (w.part = "Ejected" /\ ~w.failed) => v.ops = w.ops
           /\ w.current # None =>
                 /\ w.part = "Standalone" => v.ops[w.current] = "FailedBeforeAdmission"
                 /\ w.part = "JoinUnresolved" => v.ops[w.current] = "Unresolved"
                 /\ w.part = "Joined" => v.ops[w.current] = "Joined"
                 /\ w.part = "CatchingUp" => v.ops[w.current] \in {"CatchingUp", "CatchUpFailed"}
                 /\ w.part = "CatchingUp" /\ ~w.failed /\ w.clock # "expired"
                       => v.ops[w.current] = "CatchingUp" /\ ~v.failed
                 /\ w.part = "Ejected" /\ w.failed => v.ops[w.current] = "CatchUpFailed"
<1>1. PICK f \in Owners : f = Fenced(w)
  BY FencedFacts
<1>2. PICK x \in Owners : x = Timed(f)
  BY TimedFacts
<1>3. /\ Kept(f, w) /\ f.part = w.part /\ f.join = w.join /\ f.failed = w.failed
      /\ f.ops = w.ops /\ f.active = w.active /\ f.fatal = w.fatal
      /\ f.run = "held" => w.run = "held" /\ Eligible(w)
  BY <1>1, FencedFacts
<1>4. /\ Kept(x, f) /\ x.part = f.part /\ x.join = f.join /\ x.run = f.run
      /\ x.ops = f.ops /\ x.active = f.active /\ x.fatal = f.fatal
      /\ f.part # "CatchingUp" \/ f.clock # "expired" => x.failed = f.failed
      /\ f.part = "CatchingUp" /\ f.clock = "expired" => x.failed = TRUE
  BY <1>2, TimedFacts
<1>5. /\ Kept(x, w) /\ x.part = w.part /\ x.join = w.join
      /\ x.ops = w.ops /\ x.active = w.active /\ x.fatal = w.fatal
      /\ x.run = "held" => w.run = "held" /\ Eligible(w)
  BY <1>3, <1>4 DEF Kept
<1>6. /\ w.part # "CatchingUp" \/ w.clock # "expired" => x.failed = w.failed
      /\ w.part = "CatchingUp" /\ w.clock = "expired" => x.failed = TRUE
  BY <1>3, <1>4 DEF Kept
<1>7. v = Recorded(x)
  BY <1>1, <1>2, OneAfterAnother
<1>8. ActiveIsKnown(x) /\ x.current = w.current
  BY <1>5 DEF ActiveIsKnown, Kept
<1>9. w.part \in Participations /\ w.current \in Operations \cup {None} /\ w.failed \in BOOLEAN
  BY DEF Owners
<1>10. CASE w.current = None \/ Stage(x) = "none"
  <2>1. v = x
    BY <1>7, <1>8, <1>10 DEF Recorded
  <2>2. w.current # None => w.part \in {"Joining", "Stopping"} \/ (w.part = "Ejected" /\ ~w.failed)
    BY <1>5, <1>6, <1>9, <1>10 DEF Stage, Participations
  <2>. QED  BY <1>5, <1>6, <1>8, <2>1, <2>2
<1>11. CASE w.current # None /\ Stage(x) # "none"
  <2>1. v = Advance(x, w.current, Stage(x)) /\ w.current \in Operations
    BY <1>7, <1>8, <1>9, <1>11 DEF Recorded
  <2>2. /\ w.part = "Standalone" => Stage(x) = "FailedBeforeAdmission"
        /\ w.part = "JoinUnresolved" => Stage(x) = "Unresolved"
        /\ w.part = "Joined" => Stage(x) = "Joined"
        /\ w.part = "CatchingUp" /\ ~w.failed /\ w.clock # "expired" => Stage(x) = "CatchingUp"
        /\ w.part = "CatchingUp" /\ (w.failed \/ w.clock = "expired") => Stage(x) = "CatchUpFailed"
        /\ w.part = "Ejected" /\ w.failed => Stage(x) = "CatchUpFailed"
    BY <1>5, <1>6 DEF Stage
  <2>3. /\ w.part \in {"Standalone", "JoinUnresolved", "Joined", "CatchingUp", "Ejected"}
        /\ w.part = "Ejected" => w.failed
    BY <1>5, <1>6, <1>9, <1>11 DEF Stage, Participations
  <2>4. Stage(x) \in States
    BY <2>2, <2>3 DEF States
  <2>5. Can(w, Stage(x))
    BY <1>11, <2>2, <2>3 DEF Recordable
  <2>6. x.ops[w.current] = Stage(x) \/ (x.active = w.current /\ <<x.ops[w.current], Stage(x)>> \in Allowed)
    BY <1>5, <2>5 DEF Can
  <2>7. PICK st \in States : st = Stage(x)
    BY <2>4
  <2>8. /\ v \in Owners /\ Kept(v, x) /\ ActiveIsKnown(v)
        /\ v.part = x.part /\ v.join = x.join /\ v.failed = x.failed
        /\ v.run = x.run /\ v.fatal = x.fatal
        /\ v.ops[w.current] = st /\ \A q \in Operations : q # w.current => v.ops[q] = x.ops[q]
        /\ v.active \in {x.active, None}
        /\ st \notin {"FailedBeforeAdmission", "Joined"} => v.active = x.active
        /\ x.ops[w.current] \in Asked => st \in Asked
    BY <1>8, <2>1, <2>6, <2>7, AdvanceFacts
  <2>9. Kept(v, w)
    BY <1>5, <2>8 DEF Kept
  <2>10. \A q \in Operations : /\ q # w.current => v.ops[q] = w.ops[q]
                               /\ w.ops[q] \in Asked => v.ops[q] \in Asked
    BY <1>5, <2>8
  <2>11. w.part \in {"JoinUnresolved", "CatchingUp", "Ejected"} => v.active = w.active
    BY <1>5, <2>2, <2>3, <2>7, <2>8
  <2>. QED  BY <1>5, <1>6, <2>2, <2>3, <2>7, <2>8, <2>9, <2>10, <2>11
<1>. QED  BY <1>10, <1>11

\* An owner that is consistent but for what publishing settles.
Ready(w) ==
    /\ w \in Owners /\ ~w.fatal /\ ActiveIsKnown(w) /\ Recordable(w)
    /\ OwnToken(w) /\ OwnTimers(w) /\ TransferIsWaitedFor(w)
    /\ w.part \notin {"Joining", "Ejected", "Stopping"} => AtRest(w)
    /\ w.part = "Joining" => JoinIsConsistent(w)
    /\ w.part \in {"JoinUnresolved", "CatchingUp", "Joined"} => w.current \in Operations
    /\ w.part = "CatchingUp" => w.active = w.current
    /\ w.part = "Ejected" => w.timers = {} /\ (w.failed => w.current \in Operations)

\* How a turn may move an owner, as the jobs in flight see it.
Moves(w, v) ==
    /\ w.gen \in Nat /\ v.gen \in Nat /\ w.gen <= v.gen /\ v.current \in {w.current, None}
    /\ v.gen = w.gen => /\ v.form = w.form
                        /\ w.part \in Still => v.part \in Still
    /\ \A q \in Operations :
          /\ w.ops[q] \in Asked => v.ops[q] \in Asked
          /\ q # w.current /\ w.ops[q] \in Dialled => v.ops[q] \in Dialled
          /\ q # w.current /\ v.gen = w.gen => v.ops[q] = w.ops[q]

LEMMA MovesTwice == ASSUME NEW w, NEW x, NEW v, Moves(w, x), Moves(x, v) PROVE Moves(w, v)
<1>1. \A q \in Operations : q # w.current => q # x.current
  BY NoneAssumption DEF Moves
<1>2. /\ w.gen \in Nat /\ v.gen \in Nat /\ w.gen <= v.gen /\ v.current \in {w.current, None}
      /\ v.gen = w.gen => x.gen = w.gen
  BY DEF Moves
<1>. QED  BY <1>1, <1>2 DEF Moves

LEMMA PublishGood ==
    ASSUME NEW w, Ready(w), NEW v, v = Publish(w)
    PROVE  /\ Good(v) /\ Moves(w, v) /\ Kept(v, w) /\ v.part = w.part
           /\ w.part # "CatchingUp" => v.failed = w.failed
           /\ w.part = "CatchingUp" /\ ~w.failed /\ w.clock # "expired" =>
                 v.ops[w.current] = "CatchingUp"
<1>1. /\ w \in Owners /\ ~w.fatal /\ ActiveIsKnown(w) /\ Recordable(w)
      /\ w.current \in Operations \cup {None}
  BY DEF Ready, Owners
<1>2. /\ v \in Owners /\ Kept(v, w) /\ ActiveIsKnown(v) /\ ~v.fatal
      /\ v.part = w.part /\ v.join = w.join
      /\ w.part # "CatchingUp" => v.failed = w.failed
      /\ v.run = "held" => w.run = "held" /\ Eligible(w)
      /\ v.active \in {w.active, None}
      /\ w.part \in {"Joining", "JoinUnresolved", "CatchingUp", "Ejected"} => v.active = w.active
  BY <1>1, PublishFacts
<1>3. /\ \A q \in Operations : /\ q # w.current => v.ops[q] = w.ops[q]
                               /\ w.ops[q] \in Asked => v.ops[q] \in Asked
      /\ w.part \in {"Joining", "Stopping"} \/ (w.part = "Ejected" /\ ~w.failed) => v.ops = w.ops
  BY <1>1, PublishFacts
<1>4. w.current # None =>
         /\ w.part = "Standalone" => v.ops[w.current] = "FailedBeforeAdmission"
         /\ w.part = "JoinUnresolved" => v.ops[w.current] = "Unresolved"
         /\ w.part = "Joined" => v.ops[w.current] = "Joined"
         /\ w.part = "CatchingUp" => v.ops[w.current] \in {"CatchingUp", "CatchUpFailed"}
         /\ w.part = "Ejected" /\ w.failed => v.ops[w.current] = "CatchUpFailed"
  BY <1>1, PublishFacts
<1>5. PartIsRecorded(v)
  <2>1. v.attempt = w.attempt /\ v.current = w.current /\ v.timers = w.timers
    BY <1>2 DEF Kept
  <2>2. w.part = "Joining" => JoinIsConsistent(v)
    BY <1>2, <1>3, <2>1 DEF Ready, JoinIsConsistent
  <2>3. w.part \notin {"Joining", "Ejected", "Stopping"} => AtRest(v)
    BY <1>2, <2>1 DEF Ready, AtRest
  <2>4. /\ w.part \in {"JoinUnresolved", "CatchingUp", "Joined"} => w.current \in Operations
        /\ w.part = "CatchingUp" => w.active = w.current
        /\ w.part = "Ejected" => w.timers = {} /\ (w.failed => w.current \in Operations)
    BY DEF Ready
  <2>5. w.current \in Operations => w.current # None
    BY NoneAssumption
  <2>. QED  BY <1>1, <1>2, <1>4, <2>1, <2>2, <2>3, <2>4, <2>5 DEF PartIsRecorded, CurrentIs
<1>6. OwnToken(v) /\ OwnTimers(v) /\ TransferIsWaitedFor(v)
  BY <1>2 DEF Ready, Kept, OwnToken, OwnTimers, TransferIsWaitedFor
<1>7. HeldIsAlone(v)
  BY <1>2 DEF HeldIsAlone, Eligible, Kept
<1>8. Moves(w, v)
  <2>1. w.gen \in Nat /\ v.gen = w.gen /\ v.form = w.form /\ v.current = w.current
    BY <1>1, <1>2 DEF Kept, Owners
  <2>. QED  BY <1>2, <1>3, <2>1 DEF Moves
<1>9. w.part = "CatchingUp" /\ ~w.failed /\ w.clock # "expired" => v.ops[w.current] = "CatchingUp"
  BY <1>1, PublishFacts, NoneAssumption DEF Ready
<1>. QED  BY <1>1, <1>2, <1>5, <1>6, <1>7, <1>8, <1>9 DEF Good, Sound

LEMMA SettledFacts ==
    ASSUME NEW w \in Owners, NEW v, v = Settled(w)
    PROVE  /\ v \in Owners /\ Kept(v, w) /\ v.ops = w.ops /\ v.active = w.active
           /\ v.failed = w.failed /\ v.run = w.run /\ v.fatal = w.fatal
           /\ w.attempt # NoAttempt => v.part = w.part /\ v.join = w.join
           /\ w.attempt = NoAttempt => v.join = NoJoin
           /\ w.part # "Joining" => v.part = w.part
           /\ w.attempt = NoAttempt /\ w.part = "Joining" =>
                 v.part = IF w.join.emitted THEN "JoinUnresolved" ELSE "Standalone"
<1>1. CASE w.attempt # NoAttempt
  BY <1>1 DEF Settled, Kept
<1>2. CASE w.attempt = NoAttempt
  <2>. DEFINE p == IF w.part # "Joining" THEN w.part
                   ELSE IF w.join.emitted THEN "JoinUnresolved" ELSE "Standalone"
              u == [w EXCEPT !.join = NoJoin, !.part = p]
  <2>1. v = u
    BY <1>2 DEF Settled
  <2>2. p \in Participations /\ NoJoin \in Joins
    BY BoundsAssumption DEF Owners, Participations, NoJoin, Joins
  <2>. HIDE DEF p
  <2>3. /\ u \in Owners /\ Kept(u, w) /\ u.ops = w.ops /\ u.active = w.active
        /\ u.failed = w.failed /\ u.run = w.run /\ u.fatal = w.fatal
        /\ u.join = NoJoin /\ u.part = p
    BY <2>2 DEF Owners, Kept
  <2>. HIDE DEF u
  <2>4. /\ w.part # "Joining" => p = w.part
        /\ w.part = "Joining" => p = IF w.join.emitted THEN "JoinUnresolved" ELSE "Standalone"
    BY DEF p
  <2>. QED  BY <1>2, <2>1, <2>3, <2>4
<1>. QED  BY <1>1, <1>2

\* The end of a turn leaves a good owner.
LEMMA FinishGood ==
    ASSUME NEW w \in Owners, Ready(Settled(w)), NEW v, v = Finish(w)
    PROVE  /\ Good(v) /\ Moves(w, v) /\ Kept(v, w)
           /\ w.attempt # NoAttempt \/ w.part # "Joining" => v.part = w.part
           /\ w.part \notin {"Joining", "CatchingUp"} => v.failed = w.failed
           /\ w.part = "CatchingUp" /\ ~w.failed /\ w.clock # "expired" =>
                 v.ops[w.current] = "CatchingUp"
<1>1. PICK x \in Owners : x = Settled(w)
  BY SettledFacts
<1>2. /\ Kept(x, w) /\ x.ops = w.ops /\ x.failed = w.failed
      /\ w.attempt # NoAttempt => x.part = w.part
      /\ w.part # "Joining" => x.part = w.part
  BY <1>1, SettledFacts
<1>3. v = Publish(x) /\ Ready(x)
  BY <1>1, OneAfterAnother
<1>4. /\ Good(v) /\ Moves(x, v) /\ Kept(v, x) /\ v.part = x.part
      /\ x.part # "CatchingUp" => v.failed = x.failed
      /\ x.part = "CatchingUp" /\ ~x.failed /\ x.clock # "expired" =>
            v.ops[x.current] = "CatchingUp"
  BY <1>3, PublishGood
<1>5. Moves(w, x)
  <2>1. w.gen \in Nat /\ x.gen = w.gen /\ x.form = w.form /\ x.current = w.current
    BY <1>2 DEF Owners, Kept
  <2>2. w.part \in Still => x.part \in Still
    BY <1>2 DEF Still
  <2>. QED  BY <1>2, <2>1, <2>2 DEF Moves
<1>6. Moves(w, v)
  BY <1>4, <1>5, MovesTwice
<1>7. Kept(v, w)
  BY <1>2, <1>4 DEF Kept
<1>8. x.clock = w.clock /\ x.current = w.current
  BY <1>2 DEF Kept
<1>. QED  BY <1>1, <1>2, <1>4, <1>6, <1>7, <1>8

\* A sound owner only has to be settled.
LEMMA SoundReady ==
    ASSUME NEW w, Sound(w)
    PROVE  w \in Owners /\ Ready(Settled(w))
<1>0. w \in Owners
  BY DEF Sound
<1>1. PICK v \in Owners : v = Settled(w)
  BY <1>0, SettledFacts
<1>2. /\ Kept(v, w) /\ v.ops = w.ops /\ v.active = w.active
      /\ v.failed = w.failed /\ v.fatal = w.fatal
      /\ w.attempt # NoAttempt => v.part = w.part /\ v.join = w.join
      /\ w.attempt = NoAttempt => v.join = NoJoin
      /\ w.part # "Joining" => v.part = w.part
  BY <1>0, <1>1, SettledFacts
<1>3. v.part = w.part
  BY <1>2 DEF Sound, PartIsRecorded, JoinIsConsistent
<1>4. v.attempt = w.attempt /\ v.current = w.current /\ v.timers = w.timers /\ v.clock = w.clock
  BY <1>2 DEF Kept
<1>5. /\ ~v.fatal /\ ActiveIsKnown(v) /\ OwnToken(v) /\ OwnTimers(v) /\ TransferIsWaitedFor(v)
  BY <1>2, <1>3 DEF Sound, Kept, ActiveIsKnown, OwnToken, OwnTimers, TransferIsWaitedFor
<1>6. /\ w.part \notin {"Joining", "Ejected", "Stopping"} => AtRest(v)
      /\ w.part = "Joining" => JoinIsConsistent(v)
  <2>1. w.part \in Participations
    BY <1>0 DEF Owners
  <2>. QED  BY <1>2, <1>4, <2>1 DEF Sound, PartIsRecorded, AtRest, JoinIsConsistent, Participations
<1>7. /\ w.part \in {"JoinUnresolved", "CatchingUp", "Joined"} => w.current \in Operations
      /\ w.part = "CatchingUp" => w.active = w.current
      /\ w.part = "Ejected" => w.timers = {} /\ (w.failed => w.current \in Operations)
  BY DEF Sound, PartIsRecorded, CurrentIs
<1>8. Recordable(v)
  <2>1. \A op \in Operations : w.ops[op] \in UnderWay => w.active = op
    BY DEF Sound, ActiveIsKnown
  <2>2. /\ w.part = "Standalone" =>
              w.current = None \/ CurrentIs(w, {"Connecting", "FailedBeforeAdmission"})
        /\ w.part = "JoinUnresolved" => CurrentIs(w, {"Unresolved"})
        /\ w.part = "CatchingUp" => CurrentIs(w, {"CatchingUp", "CatchUpFailed"}) /\ w.active = w.current
        /\ w.part = "Joined" => CurrentIs(w, {"Joined"})
        /\ w.part = "Ejected" => (w.failed => CurrentIs(w, {"CatchUpFailed"}))
    BY DEF Sound, PartIsRecorded
  <2>. QED  BY <1>2, <1>3, <1>4, <2>1, <2>2 DEF Recordable, Can, CurrentIs, UnderWay, Allowed
<1>9. Ready(v)
  BY <1>2, <1>3, <1>4, <1>5, <1>6, <1>7, <1>8 DEF Ready
<1>. QED  BY <1>0, <1>1, <1>9

-----------------------------------------------------------------------------
(* Turns.                                                                  *)

\* The jobs in flight follow the owner, and some of them come to their end.
LEMMA LinksFollow ==
    ASSUME NEW w, NEW v, Moves(w, v), NEW D, NEW T, NEW R, Linked(w, D, T, R),
           NEW E, E \subseteq D, NEW U, U \subseteq T
    PROVE  Linked(v, E, U, R)
<1>1. DialsAreHeard(v, E)
  <2>. SUFFICES ASSUME NEW d \in E
                PROVE  /\ d.op \in Operations /\ d.gen \in Nat /\ d.gen <= v.gen
                       /\ v.ops[d.op] \in Dialled /\ v.current # d.op
                       /\ d.gen = v.gen => v.ops[d.op] = "Connecting" /\ v.part \in Still
                       /\ \A e \in E : e.op = d.op => e = d
    BY DEF DialsAreHeard
  <2>1. /\ d.op \in Operations /\ d.gen \in Nat /\ d.gen <= w.gen
        /\ w.ops[d.op] \in Dialled /\ w.current # d.op
        /\ d.gen = w.gen => w.ops[d.op] = "Connecting" /\ w.part \in Still
        /\ \A e \in E : e.op = d.op => e = d
    BY DEF Linked, DialsAreHeard
  <2>2. d.gen <= v.gen /\ v.ops[d.op] \in Dialled /\ v.current # d.op
    BY <2>1, NoneAssumption DEF Moves
  <2>3. ASSUME d.gen = v.gen PROVE v.ops[d.op] = "Connecting" /\ v.part \in Still
    <3>1. w.gen = v.gen /\ d.gen = w.gen
      BY <2>1, <2>3 DEF Moves
    <3>. QED  BY <2>1, <3>1 DEF Moves
  <2>. QED  BY <2>1, <2>2, <2>3
<1>2. TransfersAreStamped(v, U)
  BY DEF Linked, TransfersAreStamped, Moves
<1>3. RequestsAreRecorded(v, R)
  BY DEF Linked, RequestsAreRecorded, Moves
<1>. QED  BY <1>1, <1>2, <1>3 DEF Linked

\* A request leaves only with a join whose record says so.
Justified(w, route) == route /\ w.attempt # NoAttempt => w.part = "Joining" /\ w.join.emitted

LEMMA TurnKeeps ==
    ASSUME SendsAreRequests, NEW w, NEW v, Good(v), Moves(w, v),
           NEW left \in SUBSET sends, NEW route \in BOOLEAN,
           Justified(v, route), Turn(v, left, route),
           NEW D, dials' \subseteq D, NEW T, transfers' \subseteq T, Linked(w, D, T, requested)
    PROVE  Inv'
<1>1. o' = v
  BY DEF Turn
<1>2. requested' = IF route /\ v.attempt # NoAttempt /\ v.gen = o.gen
                   THEN requested \cup {v.attempt.session[1]} ELSE requested
  BY DEF Turn
<1>3. Linked(v, dials', transfers', requested)
  BY LinksFollow
<1>4. RequestsAreRecorded(v, requested')
  <2>1. CASE route /\ v.attempt # NoAttempt /\ v.gen = o.gen
    <3>1. JoinIsConsistent(v) /\ v.join.emitted
      BY <2>1 DEF Justified, Good, Sound, PartIsRecorded
    <3>2. v.attempt.session[1] \in Operations /\ v.ops[v.attempt.session[1]] = "Admitting"
      BY <3>1 DEF JoinIsConsistent
    <3>. QED  BY <1>2, <1>3, <2>1, <3>2 DEF Linked, RequestsAreRecorded, Asked
  <2>2. CASE ~(route /\ v.attempt # NoAttempt /\ v.gen = o.gen)
    BY <1>2, <1>3, <2>2 DEF Linked
  <2>. QED  BY <2>1, <2>2
<1>5. Good(o') /\ Linked(o', dials', transfers', requested')
  BY <1>1, <1>3, <1>4 DEF Linked
<1>6. SendsAreRequests'
  <2>1. CASE Aborts(v)
    BY <1>2, <2>1 DEF Turn, SendsAreRequests
  <2>2. CASE ~Aborts(v)
    <3>1. sends' = left \cup Sent(v, route) /\ v.gen = o.gen
      BY <2>2 DEF Turn, Aborts
    <3>. QED  BY <1>2, <3>1 DEF SendsAreRequests, Sent
  <2>. QED  BY <2>1, <2>2
<1>. QED  BY <1>5, <1>6 DEF Inv

\* A turn that sends nothing and ends no job but one of these.
LEMMA QuietKeeps ==
    ASSUME Inv, NEW v, Good(v), Moves(o, v), NEW left \in SUBSET sends, Turn(v, left, FALSE),
           dials' \subseteq dials, transfers' \subseteq transfers
    PROVE  Inv'
<1>1. Linked(o, dials, transfers, requested) /\ SendsAreRequests
  BY DEF Inv
<1>2. Justified(v, FALSE)
  BY DEF Justified
<1>. QED  BY <1>1, <1>2, TurnKeeps

\* An action that only sets fields, and sends nothing.
LEMMA StepKeeps ==
    ASSUME Inv, Good(o'), Moves(o, o'), requested' = requested, sends' \subseteq sends,
           dials' \subseteq dials, transfers' \subseteq transfers
    PROVE  Inv'
<1>1. Linked(o, dials, transfers, requested)
  BY DEF Inv
<1>2. Linked(o', dials', transfers', requested)
  BY <1>1, LinksFollow
<1>. QED  BY <1>2 DEF Inv, SendsAreRequests

-----------------------------------------------------------------------------
(* A join.                                                                 *)

\* A fresh attempt: its timer is the only one.
LEMMA AttemptFacts ==
    ASSUME NEW w \in Owners, w.timers = {}, NEW n \in 1..MaxJoinAttempts, NEW s \in Sessions,
           NEW v, v = Attempt(w, n, s)
    PROVE  /\ v \in Owners /\ v.attempt # NoAttempt /\ v.attempt.session = s
           /\ v.timers = {[token |-> v.attempt.timer, gen |-> v.gen]}
           /\ v.gen = w.gen /\ v.form = w.form /\ v.token = w.token
           /\ v.current = w.current /\ v.pending = w.pending
           /\ v.part = w.part /\ v.join = w.join /\ v.failed = w.failed
           /\ v.ops = w.ops /\ v.active = w.active /\ v.run = w.run /\ v.fatal = w.fatal
<1>. DEFINE a == [n |-> n, session |-> s, timer |-> w.correlation]
            t == {[token |-> w.correlation, gen |-> w.gen]}
            c == w.correlation + 1
            u == [w EXCEPT !.attempt = a, !.correlation = c, !.timers = t]
<1>1. v = u
  BY DEF Attempt
<1>2. w.correlation \in Nat /\ w.gen \in Nat /\ c \in Nat
  BY DEF Owners
<1>3. /\ a \in Attempts /\ a.session = s /\ a.timer = w.correlation
      /\ a.n # 0
      /\ t \in SUBSET [token : Nat, gen : Nat]
  BY <1>2, BoundsAssumption DEF Attempts
<1>4. a # NoAttempt
  BY <1>3 DEF NoAttempt
<1>5. t = {[token |-> a.timer, gen |-> w.gen]}
  BY <1>3
<1>. HIDE DEF a, t, c
<1>6. /\ u \in Owners /\ u.attempt = a /\ u.timers = t
      /\ u.gen = w.gen /\ u.form = w.form /\ u.token = w.token
      /\ u.current = w.current /\ u.pending = w.pending
      /\ u.part = w.part /\ u.join = w.join /\ u.failed = w.failed
      /\ u.ops = w.ops /\ u.active = w.active /\ u.run = w.run /\ u.fatal = w.fatal
  BY <1>2, <1>3 DEF Owners
<1>. HIDE DEF u
<1>. QED  BY <1>1, <1>3, <1>4, <1>5, <1>6

\* A request on the transport's session is never refused.
LEMMA RequestFacts ==
    ASSUME NEW w \in Owners, ~w.fatal, ActiveIsKnown(w), JoinIsConsistent(w),
           NEW route \in BOOLEAN, NEW v, v = Request(w, route)
    PROVE  /\ v \in Owners /\ Kept(v, w) /\ ~v.fatal /\ ActiveIsKnown(v) /\ JoinIsConsistent(v)
           /\ v.part = w.part /\ v.failed = w.failed /\ v.run = w.run /\ v.active = w.active
           /\ route => v.join.emitted
           /\ \A q \in Operations : q # w.current => v.ops[q] = w.ops[q]
           /\ w.ops[w.current] \in Asked => v.ops[w.current] \in Asked
<1>1. /\ w.attempt.session = w.join.session /\ w.current \in Operations /\ w.current # None
      /\ w.attempt # NoAttempt /\ w.attempt.session \in {w.current} \X (0..MaxReconnects)
      /\ w.ops[w.current] = IF w.join.emitted THEN "Admitting" ELSE "Connecting"
  BY NoneAssumption DEF JoinIsConsistent
<1>2. CASE ~route
  <2>1. v = w
    BY <1>1, <1>2 DEF Request
  <2>. QED  BY <1>2, <2>1 DEF Kept
<1>3. CASE route
  <2>. DEFINE j == [w.join EXCEPT !.emitted = TRUE]
              e == [w EXCEPT !.join = j]
  <2>1. v = Advance(e, w.current, "Admitting")
    BY <1>1, <1>3 DEF Request
  <2>2. j \in Joins /\ j.emitted = TRUE /\ j.session = w.join.session
    BY DEF Owners, Joins
  <2>. HIDE DEF j
  <2>3. /\ e \in Owners /\ Kept(e, w) /\ e.join = j /\ e.part = w.part /\ e.failed = w.failed
        /\ e.run = w.run /\ e.active = w.active /\ e.ops = w.ops /\ e.fatal = w.fatal
    BY <2>2 DEF Owners, Kept
  <2>. HIDE DEF e
  <2>4. ActiveIsKnown(e)
    BY <2>3 DEF ActiveIsKnown
  <2>5. e.ops[w.current] = "Admitting" \/
          (e.active = w.current /\ <<e.ops[w.current], "Admitting">> \in Allowed)
    BY <1>1, <2>3 DEF ActiveIsKnown, UnderWay, Allowed
  <2>6. "Admitting" \in States
    BY DEF States
  <2>7. /\ v \in Owners /\ Kept(v, e) /\ ActiveIsKnown(v)
        /\ v.part = e.part /\ v.join = e.join /\ v.failed = e.failed
        /\ v.run = e.run /\ v.fatal = e.fatal
        /\ v.ops[w.current] = "Admitting"
        /\ \A q \in Operations : q # w.current => v.ops[q] = e.ops[q]
        /\ v.active = e.active
    BY <1>1, <2>1, <2>3, <2>4, <2>5, <2>6, AdvanceFacts
  <2>8. Kept(v, w)
    BY <2>3, <2>7 DEF Kept
  <2>9. JoinIsConsistent(v)
    BY <1>1, <2>2, <2>3, <2>7, <2>8 DEF JoinIsConsistent, Kept
  <2>. QED  BY <1>3, <2>2, <2>3, <2>7, <2>8, <2>9 DEF Asked
<1>. QED  BY <1>2, <1>3

\* The owner in the middle of a join, its timer armed, due or gone.
InJoin(w) ==
    /\ w \in Owners /\ ~w.fatal /\ ActiveIsKnown(w) /\ OwnToken(w) /\ w.pending = 0
    /\ w.part = "Joining" /\ JoinIsConsistent(w)
    /\ w.timers \subseteq {[token |-> w.attempt.timer, gen |-> w.gen]}

\* An owner with a join whose one timer is armed only has to publish.
LEMMA JoinIsReady ==
    ASSUME NEW v, v \in Owners, ~v.fatal, ActiveIsKnown(v), OwnToken(v), v.pending = 0,
           v.part = "Joining", JoinIsConsistent(v),
           v.timers = {[token |-> v.attempt.timer, gen |-> v.gen]}
    PROVE  Ready(Settled(v))
<1>1. Sound(v)
  BY DEF Sound, PartIsRecorded, OwnTimers, TransferIsWaitedFor, JoinIsConsistent
<1>. QED  BY <1>1, SoundReady

\* Asking for the first time or once more: the attempt is armed, the request made.
LEMMA AskFacts ==
    ASSUME NEW w,
           w \in Owners, ~w.fatal, ActiveIsKnown(w), OwnToken(w), w.pending = 0,
           w.part = "Joining", w.timers = {}, w.current \in Operations,
           w.join.session \in {w.current} \X (0..MaxReconnects),
           w.ops[w.current] = IF w.join.emitted THEN "Admitting" ELSE "Connecting",
           NEW n \in 1..MaxJoinAttempts, NEW route \in BOOLEAN,
           NEW v, v = Request(Attempt(w, n, w.join.session), route)
    PROVE  /\ v \in Owners /\ Ready(Settled(v)) /\ Moves(w, v)
           /\ v.attempt # NoAttempt /\ v.part = "Joining" /\ v.active = w.active
           /\ v.current = w.current
           /\ route => v.ops[v.current] = "Admitting"
<1>1. w.join.session \in Sessions
  BY DEF Sessions
<1>2. PICK a \in Owners : a = Attempt(w, n, w.join.session)
  BY <1>1, AttemptFacts
<1>3. /\ a.attempt # NoAttempt /\ a.attempt.session = w.join.session
      /\ a.timers = {[token |-> a.attempt.timer, gen |-> a.gen]}
      /\ a.gen = w.gen /\ a.form = w.form /\ a.token = w.token
      /\ a.current = w.current /\ a.pending = w.pending
      /\ a.part = w.part /\ a.join = w.join
      /\ a.ops = w.ops /\ a.active = w.active /\ a.fatal = w.fatal
  BY <1>1, <1>2, AttemptFacts
<1>4. ~a.fatal /\ ActiveIsKnown(a) /\ JoinIsConsistent(a) /\ a.part = "Joining"
  BY <1>3 DEF ActiveIsKnown, JoinIsConsistent
<1>5. /\ v \in Owners /\ Kept(v, a) /\ ~v.fatal /\ ActiveIsKnown(v) /\ JoinIsConsistent(v)
      /\ v.part = a.part /\ v.active = a.active
      /\ route => v.join.emitted
      /\ \A q \in Operations : q # a.current => v.ops[q] = a.ops[q]
      /\ a.ops[a.current] \in Asked => v.ops[a.current] \in Asked
  BY <1>2, <1>4, RequestFacts
<1>6. v.attempt # NoAttempt /\ v.part = "Joining" /\ v.active = w.active
  BY <1>3, <1>4, <1>5 DEF Kept
<1>7. /\ OwnToken(v) /\ v.pending = 0 /\ v.timers = {[token |-> v.attempt.timer, gen |-> v.gen]}
      /\ v.gen = w.gen /\ v.form = w.form /\ v.current = w.current
  BY <1>3, <1>5 DEF Kept, OwnToken
<1>8. Ready(Settled(v))
  BY <1>5, <1>6, <1>7, JoinIsReady
<1>9. w.gen \in Nat
  BY DEF Owners
<1>10. Moves(w, v)
  BY <1>3, <1>5, <1>6, <1>7, <1>9 DEF Moves, Dialled, Still
<1>11. route => v.ops[v.current] = "Admitting"
  BY <1>5 DEF JoinIsConsistent
<1>. QED  BY <1>5, <1>6, <1>7, <1>8, <1>10, <1>11

\* retry_join: the old timer retired, the join asks once more or is over.
LEMMA RetryFacts ==
    ASSUME NEW w, InJoin(w), NEW route \in BOOLEAN, NEW v, v = RetryJoin(w, route)
    PROVE  /\ v \in Owners /\ Ready(Settled(v)) /\ Moves(w, v) /\ v.current = w.current
           /\ v.attempt # NoAttempt => v.part = "Joining"
           /\ v.attempt # NoAttempt /\ route => v.ops[v.current] = "Admitting"
<1>. DEFINE q == [w EXCEPT !.timers = {t \in w.timers : t.token # w.attempt.timer}]
<1>1. /\ w \in Owners /\ ~w.fatal /\ ActiveIsKnown(w) /\ OwnToken(w) /\ w.pending = 0
      /\ w.part = "Joining" /\ JoinIsConsistent(w)
      /\ w.attempt \in Attempts /\ w.gen \in Nat /\ w.join.emitted \in BOOLEAN
  BY DEF InJoin, Owners, Joins
<1>2. {t \in w.timers : t.token # w.attempt.timer} = {}
  BY DEF InJoin
<1>3. q = [w EXCEPT !.timers = {}]
  BY <1>2
<1>4. /\ q \in Owners /\ q.timers = {} /\ q.attempt = w.attempt
      /\ q.gen = w.gen /\ q.form = w.form /\ q.token = w.token
      /\ q.current = w.current /\ q.pending = w.pending
      /\ q.part = w.part /\ q.join = w.join
      /\ q.ops = w.ops /\ q.active = w.active /\ q.fatal = w.fatal
  BY <1>1, <1>3 DEF Owners
<1>5. v = IF w.attempt.n + 1 > MaxJoinAttempts THEN [q EXCEPT !.attempt = NoAttempt]
          ELSE Request(Attempt(q, w.attempt.n + 1, w.attempt.session), route)
  BY OneAfterAnother DEF RetryJoin
<1>. HIDE DEF q
<1>6. Moves(w, q)
  BY <1>1, <1>4 DEF Moves
<1>7. CASE w.attempt.n + 1 > MaxJoinAttempts
  <2>. DEFINE u == [q EXCEPT !.attempt = NoAttempt]
  <2>1. v = u
    BY <1>5, <1>7
  <2>2. NoAttempt \in Attempts
    BY BoundsAssumption DEF NoAttempt, Attempts
  <2>3. /\ u \in Owners /\ u.timers = {} /\ u.attempt = NoAttempt
        /\ u.gen = w.gen /\ u.form = w.form /\ u.token = w.token
        /\ u.current = w.current /\ u.pending = w.pending
        /\ u.part = w.part /\ u.join = w.join
        /\ u.ops = w.ops /\ u.active = w.active /\ u.fatal = w.fatal
    BY <1>4, <2>2 DEF Owners
  <2>. HIDE DEF u
  <2>4. PICK x \in Owners : x = Settled(u)
    BY <2>3, SettledFacts
  <2>5. /\ Kept(x, u) /\ x.ops = u.ops /\ x.active = u.active /\ x.fatal = u.fatal
        /\ x.join = NoJoin
        /\ x.part = IF w.join.emitted THEN "JoinUnresolved" ELSE "Standalone"
    BY <1>1, <2>3, <2>4, SettledFacts
  <2>6. /\ x.attempt = NoAttempt /\ x.timers = {} /\ x.token = w.token /\ x.form = w.form
        /\ x.current = w.current /\ x.pending = 0
    BY <1>1, <2>3, <2>5 DEF Kept
  <2>7. ~x.fatal /\ ActiveIsKnown(x) /\ AtRest(x) /\ OwnToken(x) /\ OwnTimers(x) /\ TransferIsWaitedFor(x)
    BY <1>1, <2>3, <2>5, <2>6 DEF ActiveIsKnown, AtRest, OwnToken, OwnTimers, TransferIsWaitedFor
  <2>8. /\ w.current \in Operations
        /\ w.ops[w.current] = IF w.join.emitted THEN "Admitting" ELSE "Connecting"
        /\ w.active = w.current
    BY <1>1 DEF JoinIsConsistent, ActiveIsKnown, UnderWay
  <2>9. Recordable(x)
    <3>1. CASE w.join.emitted
      BY <2>3, <2>5, <2>6, <2>8, <3>1 DEF Recordable, Can, Allowed
    <3>2. CASE ~w.join.emitted
      BY <2>3, <2>5, <2>6, <2>8, <3>2 DEF Recordable, Can, Allowed
    <3>. QED  BY <3>1, <3>2
  <2>10. Ready(x)
    BY <2>5, <2>6, <2>7, <2>8, <2>9 DEF Ready
  <2>11. Moves(w, v)
    BY <1>1, <2>1, <2>3 DEF Moves
  <2>. QED  BY <2>1, <2>3, <2>4, <2>10, <2>11
<1>8. CASE ~(w.attempt.n + 1 > MaxJoinAttempts)
  <2>1. w.attempt.n + 1 \in 1..MaxJoinAttempts
    BY <1>1, <1>8, BoundsAssumption DEF Attempts
  <2>2. /\ w.attempt.session = q.join.session
        /\ q.current \in Operations
        /\ q.join.session \in {q.current} \X (0..MaxReconnects)
        /\ q.ops[q.current] = IF q.join.emitted THEN "Admitting" ELSE "Connecting"
    BY <1>1, <1>4 DEF JoinIsConsistent
  <2>3. ~q.fatal /\ ActiveIsKnown(q) /\ OwnToken(q) /\ q.pending = 0 /\ q.part = "Joining"
    BY <1>1, <1>4 DEF ActiveIsKnown, OwnToken
  <2>4. v = Request(Attempt(q, w.attempt.n + 1, q.join.session), route)
    BY <1>5, <1>8, <2>2
  <2>5. /\ v \in Owners /\ Ready(Settled(v)) /\ Moves(q, v)
        /\ v.part = "Joining" /\ v.current = q.current
        /\ route => v.ops[v.current] = "Admitting"
    BY <1>4, <2>1, <2>2, <2>3, <2>4, AskFacts
  <2>6. Moves(w, v)
    BY <1>6, <2>5, MovesTwice
  <2>. QED  BY <1>4, <2>5, <2>6
<1>. QED  BY <1>7, <1>8

\* So does the turn it ends.
LEMMA AskedGood ==
    ASSUME NEW w \in Owners, Ready(Settled(w)), NEW route \in BOOLEAN,
           w.attempt # NoAttempt => w.part = "Joining",
           w.attempt # NoAttempt /\ route => w.ops[w.current] = "Admitting",
           NEW v, v = Finish(w)
    PROVE  /\ Good(v) /\ Moves(w, v) /\ Justified(v, route) /\ v.current = w.current
           /\ v.attempt = w.attempt /\ (w.attempt # NoAttempt => v.part = "Joining")
<1>1. Good(v) /\ Moves(w, v) /\ Kept(v, w) /\ (w.attempt # NoAttempt => v.part = w.part)
  BY FinishGood
<1>2. v.attempt = w.attempt /\ v.current = w.current
  BY <1>1 DEF Kept
<1>3. ASSUME route, v.attempt # NoAttempt PROVE v.part = "Joining" /\ v.join.emitted
  <2>1. v.part = "Joining" /\ w.ops[v.current] = "Admitting"
    BY <1>1, <1>2, <1>3
  <2>2. JoinIsConsistent(v)
    BY <1>1, <2>1 DEF Good, Sound, PartIsRecorded
  <2>3. v.ops[v.current] \in Asked
    BY <1>1, <2>1, <2>2 DEF Moves, JoinIsConsistent, Asked
  <2>. QED  BY <2>1, <2>2, <2>3 DEF JoinIsConsistent, Asked
<1>. QED  BY <1>1, <1>2, <1>3 DEF Justified

LEMMA RetryGood ==
    ASSUME NEW w, InJoin(w), NEW route \in BOOLEAN, NEW v, v = Finish(RetryJoin(w, route))
    PROVE  Good(v) /\ Moves(w, v) /\ Justified(v, route)
<1>1. PICK x \in Owners : x = RetryJoin(w, route)
  BY RetryFacts
<1>2. /\ Ready(Settled(x)) /\ Moves(w, x)
      /\ x.attempt # NoAttempt => x.part = "Joining"
      /\ x.attempt # NoAttempt /\ route => x.ops[x.current] = "Admitting"
  BY <1>1, RetryFacts
<1>3. Good(v) /\ Moves(x, v) /\ Justified(v, route)
  BY <1>1, <1>2, AskedGood
<1>. QED  BY <1>2, <1>3, MovesTwice

-----------------------------------------------------------------------------
(* A change of identity, and a removal.                                    *)

LEMMA NewIdentityFacts ==
    ASSUME NEW w \in Owners, NEW f \in Formations, NEW v, v = NewIdentity(w, f)
    PROVE  /\ v \in Owners /\ v.gen = w.gen + 1 /\ v.form = f /\ v.token = None
           /\ v.attempt = NoAttempt /\ v.timers = {} /\ v.join = NoJoin
           /\ v.pending = 0 /\ ~v.failed
           /\ v.ops = w.ops /\ v.active = w.active /\ v.current = w.current /\ v.fatal = w.fatal
<1>. DEFINE g == w.gen + 1
            r == IF w.run = "none" THEN "none" ELSE "revoked"
            u == [w EXCEPT !.run = r, !.gen = g, !.form = f, !.token = None,
                     !.attempt = NoAttempt, !.correlation = 0, !.timers = {}, !.locked = FALSE,
                     !.join = NoJoin, !.pending = 0, !.tries = 0, !.failed = FALSE, !.clock = "off"]
<1>1. v = u
  BY DEF NewIdentity, Revoked
<1>2. /\ g \in Nat /\ r \in {"none", "held", "revoked"}
      /\ NoAttempt \in Attempts /\ NoJoin \in Joins /\ 0 \in 0..MaxCatchups
  BY BoundsAssumption DEF Owners, NoAttempt, Attempts, NoJoin, Joins
<1>. HIDE DEF g, r
<1>3. /\ u \in Owners /\ u.gen = g /\ u.form = f /\ u.token = None
      /\ u.attempt = NoAttempt /\ u.timers = {} /\ u.join = NoJoin
      /\ u.pending = 0 /\ ~u.failed
      /\ u.ops = w.ops /\ u.active = w.active /\ u.current = w.current /\ u.fatal = w.fatal
  BY <1>2, ZenonT(40) DEF Owners
<1>. HIDE DEF u
<1>. QED  BY <1>1, <1>3 DEF g

\* Accepted: the record moves from admitting to catching up.
LEMMA AdoptedGood ==
    ASSUME NEW w, InJoin(w), w.ops[w.current] = "Admitting", NEW v, v = Finish(Adopted(w))
    PROVE  Good(v) /\ Moves(w, v)
<1>1. /\ w \in Owners /\ ~w.fatal /\ ActiveIsKnown(w) /\ w.gen \in Nat
      /\ w.current \in Operations /\ w.attempt.session[1] = w.current
      /\ w.active = w.current
  BY DEF InJoin, Owners, JoinIsConsistent, ActiveIsKnown, UnderWay
<1>2. Target(w.attempt.session[1]) \in Formations
  BY <1>1 DEF Formations
<1>3. PICK i \in Owners : i = NewIdentity(w, Target(w.attempt.session[1]))
  BY <1>1, <1>2, NewIdentityFacts
<1>4. /\ i.gen = w.gen + 1 /\ i.token = None
      /\ i.attempt = NoAttempt /\ i.timers = {} /\ i.join = NoJoin
      /\ i.pending = 0 /\ ~i.failed
      /\ i.ops = w.ops /\ i.active = w.active /\ i.current = w.current /\ i.fatal = w.fatal
  BY <1>1, <1>2, <1>3, NewIdentityFacts
<1>. DEFINE u == [i EXCEPT !.alone = FALSE, !.part = "CatchingUp", !.clock = "running"]
<1>5. Adopted(w) = u
  BY <1>3 DEF Adopted
<1>6. /\ u \in Owners /\ u.gen = w.gen + 1 /\ u.token = None /\ u.part = "CatchingUp"
      /\ u.attempt = NoAttempt /\ u.timers = {} /\ u.join = NoJoin /\ u.clock = "running"
      /\ u.pending = 0 /\ ~u.failed
      /\ u.ops = w.ops /\ u.active = w.active /\ u.current = w.current /\ u.fatal = w.fatal
  BY <1>4, ZenonT(40) DEF Owners, Participations
<1>. HIDE DEF u
<1>7. PICK x \in Owners : x = Settled(u)
  BY <1>6, SettledFacts
<1>8. /\ Kept(x, u) /\ x.ops = u.ops /\ x.active = u.active /\ x.failed = u.failed
      /\ x.fatal = u.fatal /\ x.join = NoJoin /\ x.part = "CatchingUp"
  BY <1>6, <1>7, SettledFacts
<1>9. /\ x.token = None /\ x.attempt = NoAttempt /\ x.timers = {} /\ x.clock = "running"
      /\ x.pending = 0 /\ ~x.failed /\ x.current = w.current
  BY <1>6, <1>8 DEF Kept
<1>10. ActiveIsKnown(x) /\ AtRest(x) /\ OwnToken(x) /\ OwnTimers(x) /\ TransferIsWaitedFor(x)
  BY <1>1, <1>6, <1>8, <1>9 DEF ActiveIsKnown, AtRest, OwnToken, OwnTimers, TransferIsWaitedFor
<1>11. Recordable(x)
  BY <1>1, <1>6, <1>8, <1>9 DEF Recordable, Can, Allowed
<1>12. Ready(x)
  BY <1>1, <1>6, <1>8, <1>9, <1>10, <1>11 DEF Ready
<1>13. Moves(w, u)
  BY <1>1, <1>6 DEF Moves
<1>14. Good(v) /\ Moves(u, v)
  BY <1>5, <1>6, <1>7, <1>12, FinishGood
<1>. QED  BY <1>13, <1>14, MovesTwice

\* A local exit settles the active record.
LEMMA EndLifecycleFacts ==
    ASSUME NEW w \in Owners, ActiveIsKnown(w), NEW v, v = EndLifecycle(w)
    PROVE  /\ v \in Owners /\ Kept(v, w) /\ v.part = w.part /\ v.join = w.join
           /\ v.failed = w.failed /\ v.run = w.run /\ v.fatal = w.fatal
           /\ v.active = None
           /\ \A q \in Operations : /\ v.ops[q] \notin UnderWay
                                    /\ w.ops[q] \in Asked => v.ops[q] \in Asked
                                    /\ w.ops[q] \in Dialled => v.ops[q] \in Dialled
<1>1. w.ops \in [Operations -> States] /\ w.active \in Operations \cup {None}
  BY DEF Owners
<1>2. CASE w.active = None
  <2>1. v = w
    BY <1>2 DEF EndLifecycle
  <2>. QED  BY <1>2, <2>1, NoneAssumption DEF Kept, ActiveIsKnown
<1>3. CASE w.active # None
  <2>. DEFINE a == w.ops[w.active]
              s == CASE a = "Connecting" -> "FailedBeforeAdmission"
                     [] a = "Admitting" -> "Unresolved"
                     [] a = "CatchingUp" -> "CatchUpFailed"
                     [] OTHER -> a
              m == [w.ops EXCEPT ![w.active] = s]
              u == [w EXCEPT !.active = None, !.ops = m]
  <2>1. v = u
    BY <1>3 DEF EndLifecycle
  <2>2. a \in States /\ w.active \in Operations
    BY <1>1, <1>3
  <2>3. /\ s \in States /\ s \notin UnderWay
        /\ a \in Asked => s \in Asked
        /\ a \in Dialled => s \in Dialled
    BY <2>2 DEF States, UnderWay, Asked, Dialled
  <2>. HIDE DEF s
  <2>4. /\ m \in [Operations -> States] /\ m[w.active] = s
        /\ \A q \in Operations : q # w.active => m[q] = w.ops[q]
    BY <1>1, <2>2, <2>3
  <2>. HIDE DEF m
  <2>5. /\ u \in Owners /\ Kept(u, w) /\ u.part = w.part /\ u.join = w.join
        /\ u.failed = w.failed /\ u.run = w.run /\ u.fatal = w.fatal
        /\ u.active = None /\ u.ops = m
    BY <2>4 DEF Owners, Kept
  <2>. HIDE DEF u
  <2>6. \A q \in Operations : /\ m[q] \notin UnderWay
                              /\ w.ops[q] \in Asked => m[q] \in Asked
                              /\ w.ops[q] \in Dialled => m[q] \in Dialled
    BY <2>2, <2>3, <2>4 DEF ActiveIsKnown
  <2>. QED  BY <2>1, <2>5, <2>6
<1>. QED  BY <1>2, <1>3

\* Leaving founds a formation of one's own.
LEMMA LeftGood ==
    ASSUME NEW w, Good(w), NEW v, v = Finish(Left(w))
    PROVE  Good(v) /\ Moves(w, v)
<1>1. w \in Owners /\ ~w.fatal /\ ActiveIsKnown(w) /\ w.gen \in Nat
  BY DEF Good, Sound, Owners
<1>2. PICK f \in Formations : f = Own(w.gen + 1)
  BY <1>1 DEF Formations
<1>3. PICK i \in Owners : i = NewIdentity(w, f)
  BY <1>1, NewIdentityFacts
<1>4. /\ i.gen = w.gen + 1 /\ i.form = f
      /\ i.attempt = NoAttempt /\ i.timers = {} /\ i.join = NoJoin
      /\ i.pending = 0 /\ ~i.failed
      /\ i.ops = w.ops /\ i.active = w.active /\ i.fatal = w.fatal
  BY <1>1, <1>3, NewIdentityFacts
<1>5. ActiveIsKnown(i)
  BY <1>1, <1>4 DEF ActiveIsKnown
<1>6. PICK e \in Owners : e = EndLifecycle(i)
  BY <1>5, EndLifecycleFacts
<1>7. /\ Kept(e, i) /\ e.join = i.join /\ e.fatal = i.fatal
      /\ \A q \in Operations : /\ e.ops[q] \notin UnderWay
                               /\ i.ops[q] \in Asked => e.ops[q] \in Asked
                               /\ i.ops[q] \in Dialled => e.ops[q] \in Dialled
  BY <1>5, <1>6, EndLifecycleFacts
<1>. DEFINE u == [e EXCEPT !.alone = TRUE, !.part = "Standalone", !.current = None, !.token = f]
<1>8. Left(w) = u
  BY <1>2, <1>3, <1>6, OneAfterAnother DEF Left
<1>9. /\ u \in Owners /\ u.part = "Standalone" /\ u.current = None /\ u.token = f
      /\ u.gen = e.gen /\ u.form = e.form /\ u.attempt = e.attempt /\ u.timers = e.timers
      /\ u.join = e.join /\ u.pending = e.pending /\ u.ops = e.ops /\ u.fatal = e.fatal
  BY DEF Owners, Participations
<1>. HIDE DEF u
<1>10. /\ u.gen = w.gen + 1 /\ u.form = f /\ u.attempt = NoAttempt /\ u.timers = {}
       /\ u.join = NoJoin /\ u.pending = 0 /\ ~u.fatal
  BY <1>1, <1>4, <1>7, <1>9 DEF Kept
<1>11. Sound(u)
  <2>1. ActiveIsKnown(u)
    BY <1>7, <1>9 DEF ActiveIsKnown
  <2>2. PartIsRecorded(u)
    BY <1>9, <1>10 DEF PartIsRecorded, AtRest
  <2>. QED  BY <1>9, <1>10, <2>1, <2>2 DEF Sound, OwnToken, OwnTimers, TransferIsWaitedFor
<1>12. Moves(w, u)
  BY <1>1, <1>4, <1>7, <1>9, <1>10 DEF Moves
<1>13. Good(v) /\ Moves(u, v)
  BY <1>8, <1>11, SoundReady, FinishGood
<1>. QED  BY <1>12, <1>13, MovesTwice

\* Removed: a catch-up is recorded as failed, anything else stays as it was.
LEMMA EjectedGood ==
    ASSUME NEW w, Sound(w), w.part \notin {"Ejected", "Stopping"}, NEW v, v = Finish(Ejected(w))
    PROVE  /\ Good(v) /\ Moves(w, v) /\ v.part = "Ejected"
           /\ w.part = "CatchingUp" => v.failed
<1>1. /\ w \in Owners /\ ~w.fatal /\ ActiveIsKnown(w) /\ w.gen \in Nat
      /\ w.part = "CatchingUp" =>
            CurrentIs(w, {"CatchingUp", "CatchUpFailed"}) /\ w.active = w.current
  BY DEF Sound, Owners, PartIsRecorded
<1>. DEFINE g == w.gen + 1
            r == IF w.run = "none" THEN "none" ELSE "revoked"
            b == w.part = "CatchingUp"
            u == [w EXCEPT !.run = r, !.gen = g, !.failed = b, !.part = "Ejected",
                     !.token = None, !.pending = 0, !.clock = "off", !.join = NoJoin, !.timers = {}]
<1>2. Ejected(w) = u
  BY DEF Ejected, Revoked
<1>3. /\ g \in Nat /\ w.gen < g /\ r \in {"none", "held", "revoked"} /\ b \in BOOLEAN
      /\ NoJoin \in Joins /\ 0 \in 0..MaxCatchups
  BY <1>1, BoundsAssumption DEF NoJoin, Joins
<1>. HIDE DEF g, r
<1>4. /\ u \in Owners /\ u.gen = g /\ u.part = "Ejected" /\ u.token = None /\ u.pending = 0
      /\ u.join = NoJoin /\ u.timers = {} /\ u.ops = w.ops /\ u.active = w.active
      /\ u.current = w.current /\ u.fatal = w.fatal /\ u.failed = b
  BY <1>1, <1>3, ZenonT(40) DEF Owners, Participations
<1>. HIDE DEF u
<1>5. u.failed <=> w.part = "CatchingUp"
  BY <1>4
<1>6. PICK x \in Owners : x = Settled(u)
  BY <1>4, SettledFacts
<1>7. /\ Kept(x, u) /\ x.ops = u.ops /\ x.active = u.active /\ x.fatal = u.fatal
      /\ x.failed = u.failed /\ x.part = "Ejected"
  BY <1>4, <1>6, SettledFacts
<1>8. x.token = None /\ x.pending = 0 /\ x.timers = {} /\ x.current = w.current
  BY <1>4, <1>7 DEF Kept
<1>9. x.failed => CurrentIs(w, {"CatchingUp", "CatchUpFailed"}) /\ w.active = w.current
  BY <1>1, <1>5, <1>7
<1>10. Recordable(x)
  BY <1>4, <1>7, <1>8, <1>9 DEF Recordable, Can, Allowed, CurrentIs
<1>11. Ready(x)
  BY <1>1, <1>4, <1>7, <1>8, <1>9, <1>10
     DEF Ready, ActiveIsKnown, OwnToken, OwnTimers, TransferIsWaitedFor, CurrentIs
<1>12. Moves(w, u)
  BY <1>1, <1>3, <1>4 DEF Moves
<1>13. Good(v) /\ Moves(u, v) /\ v.part = "Ejected" /\ v.failed = u.failed
  BY <1>2, <1>4, <1>6, <1>11, FinishGood
<1>. QED  BY <1>5, <1>12, <1>13, MovesTwice

-----------------------------------------------------------------------------
(* The actions.                                                            *)

\* Nothing but the lock, the company, the run and the clock differs.
Alike(v, w) ==
    /\ v.gen = w.gen /\ v.part = w.part /\ v.token = w.token /\ v.form = w.form
    /\ v.attempt = w.attempt /\ v.timers = w.timers /\ v.join = w.join /\ v.ops = w.ops
    /\ v.active = w.active /\ v.current = w.current /\ v.pending = w.pending
    /\ v.failed = w.failed /\ v.fatal = w.fatal

LEMMA AlikeIsSound ==
    ASSUME NEW w, Sound(w), NEW v \in Owners, Alike(v, w)
    PROVE  Sound(v) /\ Moves(w, v)
<1>1. ActiveIsKnown(v) /\ OwnToken(v) /\ OwnTimers(v) /\ TransferIsWaitedFor(v) /\ ~v.fatal
  BY DEF Sound, Alike, ActiveIsKnown, OwnToken, OwnTimers, TransferIsWaitedFor
<1>2. PartIsRecorded(v)
  BY DEF Sound, Alike, PartIsRecorded, AtRest, CurrentIs, JoinIsConsistent
<1>3. w.gen \in Nat
  BY DEF Sound, Owners
<1>4. Moves(w, v)
  BY <1>3 DEF Alike, Moves
<1>. QED  BY <1>1, <1>2, <1>4 DEF Sound

\* A turn that changes no more than that, and ends.
LEMMA AlikeTurn ==
    ASSUME Inv, NEW w \in Owners, Alike(w, o), Quiet(Finish(w)), UNCHANGED <<dials, redials, transfers>>
    PROVE  Inv'
<1>1. Sound(w) /\ Moves(o, w)
  BY AlikeIsSound DEF Inv, Good
<1>2. PICK v : v = Finish(w)
  OBVIOUS
<1>3. Good(v) /\ Moves(w, v)
  BY <1>1, <1>2, SoundReady, FinishGood
<1>4. Moves(o, v)
  BY <1>1, <1>3, MovesTwice
<1>5. Turn(v, sends, FALSE)
  BY <1>2 DEF Quiet
<1>. QED  BY <1>3, <1>4, <1>5, QuietKeeps

\* Time passing within a turn moves the clock only.
LEMMA OvertakenAlike ==
    ASSUME NEW w \in Owners, NEW late \in BOOLEAN, NEW v, v = Overtaken(w, late)
    PROVE  v \in Owners /\ Alike(v, w)
<1>1. CASE late /\ w.clock = "running"
  BY <1>1 DEF Overtaken, Owners, Alike
<1>2. CASE ~(late /\ w.clock = "running")
  BY <1>2 DEF Overtaken, Alike
<1>. QED  BY <1>1, <1>2

LEMMA SoundIsReady ==
    ASSUME NEW w, Sound(w)
    PROVE  Ready(w)
<1>1. /\ w.part \notin {"Joining", "Ejected", "Stopping"} => AtRest(w)
      /\ w.part = "Joining" => JoinIsConsistent(w)
  <2>1. w.part \in Participations
    BY DEF Sound, Owners
  <2>. QED  BY <2>1 DEF Sound, PartIsRecorded, Participations
<1>2. /\ w.part \in {"JoinUnresolved", "CatchingUp", "Joined"} => w.current \in Operations
      /\ w.part = "CatchingUp" => w.active = w.current
      /\ w.part = "Ejected" => w.timers = {} /\ (w.failed => w.current \in Operations)
  BY DEF Sound, PartIsRecorded, CurrentIs
<1>3. Recordable(w)
  <2>1. \A op \in Operations : w.ops[op] \in UnderWay => w.active = op
    BY DEF Sound, ActiveIsKnown
  <2>2. /\ w.part = "Standalone" =>
              w.current = None \/ CurrentIs(w, {"Connecting", "FailedBeforeAdmission"})
        /\ w.part = "JoinUnresolved" => CurrentIs(w, {"Unresolved"})
        /\ w.part = "CatchingUp" => CurrentIs(w, {"CatchingUp", "CatchUpFailed"}) /\ w.active = w.current
        /\ w.part = "Joined" => CurrentIs(w, {"Joined"})
        /\ w.part = "Ejected" => (w.failed => CurrentIs(w, {"CatchUpFailed"}))
    BY DEF Sound, PartIsRecorded
  <2>. QED  BY <2>1, <2>2 DEF Recordable, Can, CurrentIs, UnderWay, Allowed
<1>. QED  BY <1>1, <1>2, <1>3 DEF Ready, Sound

LEMMA PrepareJoinKeeps ==
    ASSUME Inv, NEW op \in Operations, PrepareJoin(op)
    PROVE  Inv'
<1>1. /\ Sound(o) /\ o \in Owners /\ ActiveIsKnown(o) /\ Linked(o, dials, transfers, requested)
      /\ o.ops \in [Operations -> States] /\ o.gen \in Nat
      /\ o.part = "Standalone" /\ o.active = None /\ o.ops[op] = "Unknown" /\ o.run = "none"
      /\ dials' = dials \cup {[op |-> op, gen |-> o.gen]}
      /\ transfers' = transfers /\ requested' = requested /\ sends' = sends
  BY DEF Inv, Good, Sound, Owners, PrepareJoin, Reservable, Occupied
<1>. DEFINE m == [o.ops EXCEPT ![op] = "Connecting"]
            u == [o EXCEPT !.ops = m, !.active = op]
<1>2. o' = u
  BY DEF PrepareJoin
<1>3. /\ m \in [Operations -> States] /\ m[op] = "Connecting"
      /\ \A q \in Operations : q # op => m[q] = o.ops[q]
  BY <1>1 DEF States
<1>. HIDE DEF m
<1>4. /\ u \in Owners /\ Kept(u, o) /\ u.part = o.part /\ u.join = o.join /\ u.run = o.run
      /\ u.failed = o.failed /\ u.fatal = o.fatal /\ u.ops = m /\ u.active = op
  BY <1>1, <1>3, ZenonT(40) DEF Owners, Kept
<1>. HIDE DEF u
<1>5. /\ u.gen = o.gen /\ u.form = o.form /\ u.attempt = o.attempt /\ u.current = o.current
      /\ u.timers = o.timers /\ u.pending = o.pending /\ u.token = o.token
  BY <1>4 DEF Kept
<1>6. \A q \in Operations : o.ops[q] \notin UnderWay
  BY <1>1, NoneAssumption DEF ActiveIsKnown
<1>7. o.current # op
  BY <1>1, NoneAssumption DEF Sound, PartIsRecorded, CurrentIs
<1>8. Good(u)
  <2>1. ActiveIsKnown(u)
    BY <1>3, <1>4, <1>6 DEF ActiveIsKnown
  <2>2. PartIsRecorded(u)
    BY <1>1, <1>3, <1>4, <1>5, <1>7 DEF Sound, PartIsRecorded, AtRest, CurrentIs
  <2>3. OwnToken(u) /\ OwnTimers(u) /\ TransferIsWaitedFor(u) /\ ~u.fatal
    BY <1>1, <1>4, <1>5 DEF Sound, OwnToken, OwnTimers, TransferIsWaitedFor
  <2>4. HeldIsAlone(u)
    BY <1>1, <1>4 DEF HeldIsAlone
  <2>. QED  BY <1>4, <2>1, <2>2, <2>3, <2>4 DEF Good, Sound
<1>9. DialsAreHeard(u, dials')
  <2>1. /\ DialsAreHeard(o, dials)
        /\ \A d \in dials : d.op # op /\ d.gen # o.gen
    BY <1>1, <1>6 DEF Linked, DialsAreHeard, Dialled, UnderWay
  <2>. QED  BY <1>1, <1>3, <1>4, <1>5, <1>7, <2>1 DEF DialsAreHeard, Dialled, Still
<1>10. TransfersAreStamped(u, transfers) /\ RequestsAreRecorded(u, requested)
  BY <1>1, <1>3, <1>4, <1>5 DEF Linked, TransfersAreStamped, RequestsAreRecorded, Asked
<1>. QED  BY <1>1, <1>2, <1>8, <1>9, <1>10 DEF Inv, Linked, SendsAreRequests

\* The dial is of the active operation, or of one that has already failed.
LEMMA JoinNotPreparedKeeps ==
    ASSUME Inv, NEW d \in dials, JoinNotPrepared(d)
    PROVE  Inv'
<1>1. /\ Sound(o) /\ HeldIsAlone(o) /\ o \in Owners /\ ActiveIsKnown(o) /\ ~o.fatal
      /\ Linked(o, dials, transfers, requested)
      /\ o' = Advance(o, d.op, "FailedBeforeAdmission") /\ dials' = dials \ {d}
      /\ transfers' = transfers /\ requested' = requested /\ sends' = sends
  BY DEF Inv, Good, Sound, JoinNotPrepared
<1>2. /\ d.op \in Operations /\ o.ops[d.op] \in Dialled /\ o.current # d.op
      /\ \A e \in dials : e.op = d.op => e = d
  BY <1>1 DEF Linked, DialsAreHeard
<1>3. o.ops[d.op] = "FailedBeforeAdmission" \/
        (o.active = d.op /\ <<o.ops[d.op], "FailedBeforeAdmission">> \in Allowed)
  BY <1>1, <1>2 DEF Dialled, ActiveIsKnown, UnderWay, Allowed
<1>4. PICK v : v = Advance(o, d.op, "FailedBeforeAdmission")
  OBVIOUS
<1>5. /\ v \in Owners /\ Kept(v, o) /\ ActiveIsKnown(v)
      /\ v.part = o.part /\ v.join = o.join /\ v.failed = o.failed
      /\ v.run = o.run /\ v.fatal = o.fatal
      /\ v.ops[d.op] = "FailedBeforeAdmission" /\ \A q \in Operations : q # d.op => v.ops[q] = o.ops[q]
      /\ v.active \in {o.active, None}
  <2>1. "FailedBeforeAdmission" \in States
    BY DEF States
  <2>. QED  BY <1>1, <1>2, <1>3, <1>4, <2>1, AdvanceFacts
<1>6. /\ v.gen = o.gen /\ v.form = o.form /\ v.attempt = o.attempt /\ v.current = o.current
      /\ v.timers = o.timers /\ v.pending = o.pending /\ v.token = o.token
      /\ v.alone = o.alone /\ v.locked = o.locked
  BY <1>5 DEF Kept
<1>7. o.part = "CatchingUp" => v.active = o.active
  <2>1. o.part = "CatchingUp" => o.active = o.current
    BY <1>1 DEF Sound, PartIsRecorded
  <2>2. o.ops[d.op] = "FailedBeforeAdmission" => v = o
    BY <1>4 DEF Advance
  <2>. QED  BY <1>2, <1>3, <2>1, <2>2
<1>8. Good(v)
  <2>1. PartIsRecorded(v)
    BY <1>1, <1>2, <1>5, <1>6, <1>7 DEF Sound, PartIsRecorded, AtRest, CurrentIs, JoinIsConsistent
  <2>2. OwnToken(v) /\ OwnTimers(v) /\ TransferIsWaitedFor(v) /\ ~v.fatal
    BY <1>1, <1>5, <1>6 DEF Sound, OwnToken, OwnTimers, TransferIsWaitedFor
  <2>3. HeldIsAlone(v)
    BY <1>1, <1>5, <1>6 DEF HeldIsAlone
  <2>. QED  BY <1>5, <2>1, <2>2, <2>3 DEF Good, Sound
<1>9. DialsAreHeard(v, dials \ {d})
  BY <1>1, <1>2, <1>5, <1>6 DEF Linked, DialsAreHeard
<1>10. TransfersAreStamped(v, transfers) /\ RequestsAreRecorded(v, requested)
  BY <1>1, <1>2, <1>5, <1>6 DEF Linked, TransfersAreStamped, RequestsAreRecorded, Asked, Dialled
<1>11. o' = v
  BY <1>1, <1>4
<1>. QED  BY <1>1, <1>8, <1>9, <1>10, <1>11 DEF Inv, Linked, SendsAreRequests

LEMMA JoinPreparedKeeps ==
    ASSUME Inv, NEW d \in dials, NEW open \in BOOLEAN, NEW route \in BOOLEAN,
           JoinPrepared(d, open, route)
    PROVE  Inv'
<1>. DEFINE w == [o EXCEPT !.current = d.op]
            D == dials \ {d}
<1>1. /\ Sound(o) /\ HeldIsAlone(o) /\ o \in Owners /\ ActiveIsKnown(o) /\ ~o.fatal
      /\ Linked(o, dials, transfers, requested) /\ SendsAreRequests
      /\ d.gen = o.gen /\ o.part = "Standalone" /\ dials' = D /\ transfers' = transfers
      /\ o.gen \in Nat
  BY DEF Inv, Good, Sound, Owners, JoinPrepared
<1>2. /\ d.op \in Operations /\ o.ops[d.op] = "Connecting" /\ o.current # d.op
      /\ \A e \in dials : e.op = d.op => e = d
  BY <1>1 DEF Linked, DialsAreHeard
<1>3. o.active = d.op
  BY <1>1, <1>2 DEF ActiveIsKnown, UnderWay
<1>4. /\ w \in Owners /\ w.current = d.op /\ w.part = "Standalone" /\ w.active = d.op
      /\ w.ops = o.ops /\ w.gen = o.gen /\ w.form = o.form /\ w.token = o.token
      /\ w.attempt = o.attempt /\ w.timers = o.timers /\ w.join = o.join
      /\ w.pending = o.pending /\ ~w.fatal /\ w.run = o.run
  BY <1>1, <1>2, <1>3 DEF Owners
<1>5. /\ ~open \/ Occupied(w) \/ w.attempt # NoAttempt =>
            o' = w /\ sends' = sends /\ requested' = requested
      /\ ~(~open \/ Occupied(w) \/ w.attempt # NoAttempt) =>
            Turn(Then(LAMBDA v : BindRecovery(v, d.op), Begun(w, d.op, route)), sends, route)
  BY DEF JoinPrepared
<1>. HIDE DEF w
<1>6. /\ w.attempt = NoAttempt /\ w.join = NoJoin /\ w.timers = {} /\ w.pending = 0 /\ OwnToken(w)
      /\ ActiveIsKnown(w) /\ ~w.fatal /\ w.run # "held"
  <2>1. o.attempt = NoAttempt /\ o.join = NoJoin
    BY <1>1 DEF Sound, PartIsRecorded, AtRest
  <2>2. o.timers = {} /\ o.pending = 0 /\ OwnToken(o)
    BY <1>1, <2>1 DEF Sound, OwnTimers, TransferIsWaitedFor
  <2>3. o.run # "held"
    BY <1>1, <1>2, <1>3, NoneAssumption DEF HeldIsAlone
  <2>4. ActiveIsKnown(w) /\ OwnToken(w)
    BY <1>1, <1>3, <1>4, <2>2 DEF OwnToken, ActiveIsKnown
  <2>. QED  BY <1>4, <2>1, <2>2, <2>3, <2>4
\* The dials left are of other operations, and of earlier generations.
<1>7. \A e \in D : e \in dials /\ e.op # d.op /\ e.gen # o.gen
  <2>1. \A e \in D : e \in dials /\ e.op # d.op
    BY <1>2
  <2>2. \A e \in dials : e.op \in Operations /\ (e.gen = o.gen => o.ops[e.op] = "Connecting")
    BY <1>1 DEF Linked, DialsAreHeard
  <2>. QED  BY <1>1, <1>3, <2>1, <2>2 DEF ActiveIsKnown, UnderWay
<1>8. ASSUME NEW x, x.current = d.op, x.ops = o.ops, x.gen = o.gen, x.form = o.form
      PROVE  Linked(x, D, transfers, requested)
  <2>1. DialsAreHeard(x, D)
    BY <1>1, <1>2, <1>7, <1>8 DEF Linked, DialsAreHeard
  <2>2. TransfersAreStamped(x, transfers) /\ RequestsAreRecorded(x, requested)
    BY <1>1, <1>8 DEF Linked, TransfersAreStamped, RequestsAreRecorded
  <2>. QED  BY <2>1, <2>2 DEF Linked
<1>9. CASE ~open \/ Occupied(w) \/ w.attempt # NoAttempt
  <2>1. Good(w)
    <3>1. PartIsRecorded(w)
      BY <1>2, <1>4, <1>6 DEF PartIsRecorded, AtRest, CurrentIs
    <3>. QED  BY <1>4, <1>6, <3>1
              DEF Good, Sound, HeldIsAlone, OwnTimers, TransferIsWaitedFor
  <2>2. Linked(w, D, transfers, requested)
    BY <1>4, <1>8
  <2>3. o' = w /\ sends' = sends /\ requested' = requested
    BY <1>5, <1>9
  <2>. HIDE DEF D
  <2>. QED  BY <1>1, <2>1, <2>2, <2>3 DEF Inv, SendsAreRequests
<1>10. CASE ~(~open \/ Occupied(w) \/ w.attempt # NoAttempt)
  <2>. DEFINE n == [NoJoin EXCEPT !.session = Session(d.op, 0)]
              j == [w EXCEPT !.join = n, !.part = "Joining"]
  <2>1. Begun(w, d.op, route) = Finish(Request(Attempt(j, 1, Session(d.op, 0)), route))
    BY OneAfterAnother DEF Begun
  <2>2. n \in Joins /\ n.session = Session(d.op, 0) /\ ~n.emitted
    <3>1. Session(d.op, 0) \in Sessions
      BY <1>2, BoundsAssumption DEF Sessions, Session
    <3>2. NoJoin \in Joins /\ ~NoJoin.emitted
      BY BoundsAssumption DEF NoJoin, Joins
    <3>. QED  BY <3>1, <3>2 DEF Joins
  <2>. HIDE DEF n
  <2>3. /\ j \in Owners /\ j.join = n /\ j.part = "Joining" /\ j.current = d.op
        /\ j.active = w.active /\ j.ops = w.ops /\ j.gen = w.gen /\ j.form = w.form
        /\ j.token = w.token /\ j.timers = w.timers /\ j.pending = w.pending /\ ~j.fatal
    BY <1>4, <2>2 DEF Owners, Participations
  <2>. HIDE DEF j
  <2>4. /\ ~j.fatal /\ ActiveIsKnown(j) /\ OwnToken(j) /\ j.pending = 0 /\ j.timers = {}
        /\ j.current \in Operations
        /\ j.join.session \in {j.current} \X (0..MaxReconnects)
        /\ j.ops[j.current] = IF j.join.emitted THEN "Admitting" ELSE "Connecting"
        /\ 1 \in 1..MaxJoinAttempts
    <3>1. ActiveIsKnown(j) /\ OwnToken(j)
      BY <1>6, <2>3 DEF ActiveIsKnown, OwnToken
    <3>2. j.join.session \in {j.current} \X (0..MaxReconnects) /\ 1 \in 1..MaxJoinAttempts
      BY <2>2, <2>3, BoundsAssumption DEF Session
    <3>3. j.ops[j.current] = IF j.join.emitted THEN "Admitting" ELSE "Connecting"
      BY <1>2, <1>4, <2>2, <2>3
    <3>. QED  BY <1>2, <1>6, <2>3, <3>1, <3>2, <3>3
  <2>5. PICK a \in Owners : a = Request(Attempt(j, 1, j.join.session), route)
    BY <2>3, <2>4, AskFacts
  <2>6. /\ Ready(Settled(a)) /\ Moves(j, a) /\ a.attempt # NoAttempt /\ a.part = "Joining"
        /\ a.current = j.current
        /\ route => a.ops[a.current] = "Admitting"
    BY <2>3, <2>4, <2>5, AskFacts
  <2>7. PICK v : v = Finish(a)
    OBVIOUS
  <2>8. /\ Good(v) /\ Moves(a, v) /\ Justified(v, route) /\ v.current = a.current
        /\ v.attempt = a.attempt /\ v.part = "Joining"
    BY <2>6, <2>7, AskedGood
  <2>9. BindRecovery(v, d.op) = v
    <3>1. JoinIsConsistent(v) /\ ActiveIsKnown(v)
      BY <2>8 DEF Good, Sound, PartIsRecorded
    <3>2. v.current = d.op
      BY <2>3, <2>6, <2>8
    <3>3. v.ops[d.op] \in {"Connecting", "Admitting"} /\ v.active = d.op
      BY <1>2, <3>1, <3>2 DEF JoinIsConsistent, ActiveIsKnown, UnderWay
    <3>. QED  BY <3>3 DEF BindRecovery
  <2>10. Begun(w, d.op, route) = v
    BY <2>1, <2>2, <2>3, <2>5, <2>7
  <2>11. Then(LAMBDA x : BindRecovery(x, d.op), Begun(w, d.op, route)) = v
    BY <2>9, <2>10, OneAfterAnother
  <2>12. Turn(v, sends, route)
    BY <1>5, <1>10, <2>11
  <2>13. Moves(j, v)
    BY <2>6, <2>8, MovesTwice
  <2>14. Linked(j, D, transfers, requested)
    BY <1>4, <1>8, <2>3
  <2>15. dials' \subseteq D /\ transfers' \subseteq transfers /\ sends \in SUBSET sends
    BY <1>1
  <2>. HIDE DEF D
  <2>. QED  BY <1>1, <2>8, <2>12, <2>13, <2>14, <2>15, TurnKeeps
<1>. QED  BY <1>9, <1>10

LEMMA PrepareJoinReconnectKeeps ==
    ASSUME Inv, PrepareJoinReconnect
    PROVE  Inv'
<1>1. /\ Sound(o) /\ HeldIsAlone(o) /\ o \in Owners /\ o.part = "Joining"
      /\ o.join.tries \in Nat /\ o.join.tries < MaxReconnects /\ o.gen \in Nat
      /\ o.join \in Joins
      /\ dials' = dials /\ transfers' = transfers /\ requested' = requested /\ sends' = sends
  BY BoundsAssumption DEF Inv, Good, Sound, Owners, Joins, PrepareJoinReconnect
<1>. DEFINE k == o.join.tries + 1
            j == [o.join EXCEPT !.tries = k, !.pending = k]
            u == [o EXCEPT !.join = j]
<1>2. o' = u
  BY <1>1 DEF PrepareJoinReconnect, Joins
<1>3. k \in 0..MaxReconnects
  BY <1>1, BoundsAssumption
<1>. HIDE DEF k
<1>4. j \in Joins /\ j.session = o.join.session /\ j.emitted = o.join.emitted
  BY <1>1, <1>3 DEF Joins
<1>. HIDE DEF j
<1>5. /\ u \in Owners /\ u.gen = o.gen /\ u.part = o.part /\ u.token = o.token /\ u.form = o.form
      /\ u.attempt = o.attempt /\ u.timers = o.timers /\ u.join = j /\ u.ops = o.ops
      /\ u.active = o.active /\ u.current = o.current /\ u.pending = o.pending
      /\ u.failed = o.failed /\ u.fatal = o.fatal /\ u.run = o.run
  BY <1>1, <1>4 DEF Owners
<1>. HIDE DEF u
<1>6. Good(u)
  <2>1. ActiveIsKnown(u) /\ OwnToken(u) /\ OwnTimers(u) /\ TransferIsWaitedFor(u) /\ ~u.fatal
    BY <1>1, <1>5 DEF Sound, ActiveIsKnown, OwnToken, OwnTimers, TransferIsWaitedFor
  <2>2. JoinIsConsistent(o)
    BY <1>1 DEF Sound, PartIsRecorded
  <2>3. JoinIsConsistent(u)
    BY <1>4, <1>5, <2>2 DEF JoinIsConsistent
  <2>4. PartIsRecorded(u)
    BY <1>1, <1>5, <2>3 DEF PartIsRecorded
  <2>5. HeldIsAlone(u)
    BY <1>1, <1>5 DEF HeldIsAlone
  <2>. QED  BY <1>5, <2>1, <2>4, <2>5 DEF Good, Sound
<1>7. Moves(o, u)
  BY <1>1, <1>5 DEF Moves
<1>. QED  BY <1>1, <1>2, <1>6, <1>7, StepKeeps

\* A good owner with a pending attempt is in the middle of a join.
LEMMA PendingIsInJoin ==
    ASSUME Inv, Running, o.part # "Ejected", o.attempt # NoAttempt
    PROVE  InJoin(o) /\ o.timers = {[token |-> o.attempt.timer, gen |-> o.gen]}
<1>1. Sound(o) /\ o \in Owners /\ o.part \in Participations
  BY DEF Inv, Good, Sound, Owners
<1>2. o.part = "Joining" /\ JoinIsConsistent(o)
  BY <1>1 DEF Running, Sound, PartIsRecorded, AtRest, Participations
<1>3. o.timers = {[token |-> o.attempt.timer, gen |-> o.gen]} /\ o.pending = 0
  BY <1>1, <1>2 DEF Sound, OwnTimers, TransferIsWaitedFor
<1>. QED  BY <1>1, <1>2, <1>3 DEF InJoin, Sound

\* A turn that asks once more, from an owner the jobs see as they see this one.
LEMMA RetryTurn ==
    ASSUME Inv, NEW w, InJoin(w), Moves(o, w), NEW route \in BOOLEAN, NEW left \in SUBSET sends,
           Turn(Finish(RetryJoin(w, route)), left, route), UNCHANGED <<dials, transfers>>
    PROVE  Inv'
<1>1. PICK v : v = Finish(RetryJoin(w, route))
  OBVIOUS
<1>2. Good(v) /\ Moves(w, v) /\ Justified(v, route)
  BY <1>1, RetryGood
<1>3. Moves(o, v)
  BY <1>2, MovesTwice
<1>4. Turn(v, left, route)
  BY <1>1
<1>5. Linked(o, dials, transfers, requested) /\ SendsAreRequests
  BY DEF Inv
<1>. QED  BY <1>2, <1>3, <1>4, <1>5, TurnKeeps

\* A join goes on, on another session or without its redial.
LEMMA JoinGoesOn ==
    ASSUME Inv, InJoin(o), NEW j \in Joins, j.emitted = o.join.emitted,
           NEW a \in Attempts, a.timer = o.attempt.timer, a.session = j.session,
           a.session \in {o.current} \X (0..MaxReconnects),
           NEW v, v = [o EXCEPT !.join = j, !.attempt = a]
    PROVE  InJoin(v) /\ Good(v) /\ Moves(o, v)
<1>1. /\ Sound(o) /\ HeldIsAlone(o) /\ o \in Owners /\ o.gen \in Nat
      /\ o.part = "Joining" /\ JoinIsConsistent(o) /\ o.current \in Operations
  BY DEF Inv, Good, Sound, Owners, InJoin, JoinIsConsistent
<1>2. a # NoAttempt
  BY <1>1, NoneAssumption DEF NoAttempt
<1>. DEFINE u == [o EXCEPT !.join = j, !.attempt = a]
<1>3. /\ u \in Owners /\ u.gen = o.gen /\ u.part = o.part /\ u.token = o.token /\ u.form = o.form
      /\ u.attempt = a /\ u.timers = o.timers /\ u.join = j /\ u.ops = o.ops
      /\ u.active = o.active /\ u.current = o.current /\ u.pending = o.pending
      /\ u.failed = o.failed /\ u.fatal = o.fatal /\ u.run = o.run
  BY <1>1 DEF Owners
<1>. HIDE DEF u
<1>4. v = u
  BY DEF u
<1>5. JoinIsConsistent(u)
  BY <1>1, <1>2, <1>3 DEF JoinIsConsistent
<1>6. ActiveIsKnown(u) /\ OwnToken(u) /\ ~u.fatal /\ u.pending = 0
  BY <1>1, <1>3 DEF Sound, InJoin, ActiveIsKnown, OwnToken
<1>7. u.timers = {[token |-> u.attempt.timer, gen |-> u.gen]}
  BY <1>1, <1>3 DEF Sound, OwnTimers, JoinIsConsistent
<1>8. InJoin(u)
  BY <1>1, <1>3, <1>5, <1>6, <1>7 DEF InJoin
<1>9. Good(u)
  BY <1>1, <1>2, <1>3, <1>5, <1>6, <1>7
     DEF Good, Sound, PartIsRecorded, OwnTimers, TransferIsWaitedFor, HeldIsAlone
<1>10. Moves(o, u)
  BY <1>1, <1>3 DEF Moves
<1>. QED  BY <1>4, <1>8, <1>9, <1>10

LEMMA JoinReconnectFinishedKeeps ==
    ASSUME Inv, NEW r \in redials, NEW ok \in BOOLEAN, NEW route \in BOOLEAN,
           JoinReconnectFinished(r, ok, route)
    PROVE  Inv'
<1>. DEFINE valid == /\ r.gen = o.gen /\ o.part = "Joining"
                     /\ o.join.session = r.session /\ o.join.pending = r.id
                     /\ o.attempt.session = r.session
            idle == [o EXCEPT !.join.pending = 0]
            new == Session(r.session[1], r.id)
            w == [idle EXCEPT !.join.session = new, !.attempt.session = new]
<1>1. /\ Running /\ dials' = dials /\ transfers' = transfers
      /\ ~valid => UNCHANGED <<o, sends, requested>>
      /\ valid /\ ~ok => o' = idle /\ UNCHANGED <<sends, requested>>
      /\ valid /\ ok => Turn(Finish(RetryJoin(w, route)), sends, route)
  BY DEF JoinReconnectFinished
<1>2. Sound(o) /\ o \in Owners /\ o.join \in Joins /\ o.attempt \in Attempts
  BY DEF Inv, Good, Sound, Owners
<1>3. CASE ~valid
  BY <1>1, <1>3 DEF Inv, Linked, DialsAreHeard, TransfersAreStamped, RequestsAreRecorded, SendsAreRequests
<1>4. CASE valid
  <2>1. JoinIsConsistent(o) /\ InJoin(o)
    <3>1. JoinIsConsistent(o)
      BY <1>2, <1>4 DEF Sound, PartIsRecorded
    <3>. QED  BY <1>1, <1>4, <3>1, PendingIsInJoin DEF JoinIsConsistent
  <2>2. new \in {o.current} \X (0..MaxReconnects) /\ o.current \in Operations
    <3>1. r.id \in 0..MaxReconnects /\ r.session = o.attempt.session
      BY <1>2, <1>4 DEF Joins
    <3>2. r.session[1] = o.current
      BY <2>1, <3>1 DEF JoinIsConsistent
    <3>. QED  BY <2>1, <3>1, <3>2 DEF Session, JoinIsConsistent
  <2>3. CASE ~ok
    <3>. DEFINE i == [o.join EXCEPT !.pending = 0]
    <3>1. i \in Joins /\ i.session = o.join.session /\ i.emitted = o.join.emitted
      BY <1>2, BoundsAssumption DEF Joins
    <3>2. idle = [o EXCEPT !.join = i, !.attempt = o.attempt]
      BY <1>2 DEF Owners
    <3>3. o.attempt.session = o.join.session /\ o.attempt.session \in {o.current} \X (0..MaxReconnects)
      BY <2>1 DEF JoinIsConsistent
    <3>. HIDE DEF i
    <3>4. Good(idle) /\ Moves(o, idle)
      BY <1>2, <2>1, <3>1, <3>2, <3>3, JoinGoesOn, ZenonT(40)
    <3>. HIDE DEF idle
    <3>. QED  BY <1>1, <1>4, <2>3, <3>4, StepKeeps
  <2>4. CASE ok
    <3>. DEFINE i == [o.join EXCEPT !.pending = 0]
                j == [i EXCEPT !.session = new]
                a == [o.attempt EXCEPT !.session = new]
    <3>1. new \in Sessions
      BY <2>2 DEF Sessions
    <3>. HIDE DEF new
    <3>2. j \in Joins /\ j.session = new /\ j.emitted = o.join.emitted
      <4>1. i \in Joins /\ i.emitted = o.join.emitted
        BY <1>2, BoundsAssumption DEF Joins
      <4>. HIDE DEF i
      <4>. QED  BY <3>1, <4>1 DEF Joins
    <3>3. a \in Attempts /\ a.session = new /\ a.timer = o.attempt.timer
      BY <1>2, <3>1 DEF Attempts
    <3>4. w = [o EXCEPT !.join = j, !.attempt = a]
      BY <1>2 DEF Owners
    <3>. HIDE DEF j, a
    <3>5. InJoin(w) /\ Moves(o, w)
      BY <1>2, <2>1, <2>2, <3>2, <3>3, <3>4, JoinGoesOn
    <3>6. Turn(Finish(RetryJoin(w, route)), sends, route) /\ UNCHANGED <<dials, transfers>>
      BY <1>1, <1>4, <2>4
    <3>. HIDE DEF w
    <3>. QED  BY <3>5, <3>6, RetryTurn
  <2>. QED  BY <2>3, <2>4
<1>. QED  BY <1>3, <1>4

LEMMA JoinTimerKeeps ==
    ASSUME Inv, NEW t \in o.timers, NEW route \in BOOLEAN, JoinTimer(t, route)
    PROVE  Inv'
<1>. DEFINE w == [o EXCEPT !.timers = o.timers \ {t}]
            due == w.attempt # NoAttempt /\ w.attempt.timer = t.token
<1>1. /\ Running /\ dials' = dials /\ transfers' = transfers
      /\ Turn(Finish(IF due THEN RetryJoin(w, route) ELSE w), sends, due /\ route)
  BY DEF JoinTimer
<1>2. Sound(o) /\ o \in Owners /\ o.gen \in Nat
  BY DEF Inv, Good, Sound, Owners
<1>3. o.part # "Ejected" /\ o.attempt # NoAttempt
  BY <1>1, <1>2 DEF Sound, PartIsRecorded, OwnTimers, Running
<1>4. InJoin(o) /\ o.timers = {[token |-> o.attempt.timer, gen |-> o.gen]}
  BY <1>1, <1>3, PendingIsInJoin
<1>5. t = [token |-> o.attempt.timer, gen |-> o.gen] /\ o.timers \ {t} = {}
  BY <1>4
<1>6. w = [o EXCEPT !.timers = {}]
  BY <1>5
<1>7. /\ w \in Owners /\ w.gen = o.gen /\ w.part = o.part /\ w.token = o.token /\ w.form = o.form
      /\ w.attempt = o.attempt /\ w.timers = {} /\ w.join = o.join /\ w.ops = o.ops
      /\ w.active = o.active /\ w.current = o.current /\ w.pending = o.pending
      /\ w.fatal = o.fatal
  BY <1>2, <1>6 DEF Owners
<1>8. due
  BY <1>3, <1>5, <1>7
<1>9. Turn(Finish(RetryJoin(w, route)), sends, route)
  <2>1. (due /\ route) = route
    BY <1>8
  <2>. QED  BY <1>1, <1>8, <2>1
<1>. HIDE DEF w
<1>10. InJoin(w)
  BY <1>4, <1>7 DEF InJoin, ActiveIsKnown, OwnToken, JoinIsConsistent
<1>11. Moves(o, w)
  BY <1>2, <1>7 DEF Moves
<1>. QED  BY <1>1, <1>9, <1>10, <1>11, RetryTurn

\* An answer that is heard is to a request that was made.
LEMMA SendFinishedKeeps ==
    ASSUME Inv, NEW x \in sends, NEW answer \in {"lost", "refused", "accepted"},
           NEW route \in BOOLEAN, SendFinished(x, answer, route)
    PROVE  Inv'
<1>. DEFINE heard == /\ x.gen = o.gen /\ o.part # "Ejected"
                     /\ o.attempt # NoAttempt /\ x.session = o.attempt.session
<1>1. /\ Running /\ dials' = dials /\ transfers' = transfers
      /\ answer = "lost" \/ ~heard => sends' = sends \ {x} /\ UNCHANGED <<o, requested>>
      /\ answer = "refused" /\ heard => Turn(Finish(RetryJoin(o, route)), sends \ {x}, route)
      /\ answer = "accepted" /\ heard => Turn(Finish(Adopted(o)), sends \ {x}, FALSE)
  BY DEF SendFinished
<1>2. CASE answer = "lost" \/ ~heard
  BY <1>1, <1>2 DEF Inv, Linked, DialsAreHeard, TransfersAreStamped, RequestsAreRecorded, SendsAreRequests
<1>3. heard => InJoin(o) /\ Moves(o, o)
  <2>1. o.gen \in Nat
    BY DEF Inv, Good, Sound, Owners
  <2>2. Moves(o, o)
    BY <2>1 DEF Moves
  <2>. QED  BY <1>1, <2>2, PendingIsInJoin
<1>4. CASE answer = "refused" /\ heard
  BY <1>1, <1>3, <1>4, RetryTurn
<1>5. CASE answer = "accepted" /\ heard
  <2>1. o.ops[o.current] = "Admitting"
    <3>1. x.session[1] = o.current /\ JoinIsConsistent(o)
      BY <1>3, <1>5 DEF InJoin, JoinIsConsistent
    <3>2. o.ops[o.current] \in Asked
      BY <3>1 DEF Inv, SendsAreRequests, Linked, RequestsAreRecorded
    <3>. QED  BY <3>1, <3>2 DEF JoinIsConsistent, Asked
  <2>2. PICK v : v = Finish(Adopted(o))
    OBVIOUS
  <2>3. Good(v) /\ Moves(o, v)
    BY <1>3, <1>5, <2>1, <2>2, AdoptedGood
  <2>4. Turn(v, sends \ {x}, FALSE)
    BY <1>1, <1>5, <2>2
  <2>. QED  BY <1>1, <2>3, <2>4, QuietKeeps
<1>. QED  BY <1>2, <1>4, <1>5

LEMMA PrepareCatchupKeeps ==
    ASSUME Inv, NEW late \in BOOLEAN, PrepareCatchup(late)
    PROVE  Inv'
<1>. DEFINE k == o.tries + 1
            w == [o EXCEPT !.tries = k, !.pending = k, !.failed = FALSE]
            c == [gen |-> o.gen, id |-> k, form |-> o.form]
<1>1. /\ Sound(o) /\ o \in Owners /\ o.part = "CatchingUp" /\ o.gen \in Nat
      /\ o.tries \in Nat /\ o.tries < MaxCatchups
      /\ Linked(o, dials, transfers, requested) /\ SendsAreRequests
      /\ dials' = dials /\ requested' = requested /\ sends' = sends
  BY BoundsAssumption DEF Inv, Good, Sound, Owners, PrepareCatchup
<1>2. k \in 0..MaxCatchups /\ k # 0
  BY <1>1, BoundsAssumption
<1>3. o' = Publish(Overtaken(w, late)) /\ transfers' = transfers \cup {[gen |-> o.gen, id |-> w.pending, form |-> o.form]}
  BY DEF PrepareCatchup
<1>. HIDE DEF k
<1>4. /\ w \in Owners /\ w.gen = o.gen /\ w.part = o.part /\ w.token = o.token /\ w.form = o.form
      /\ w.attempt = o.attempt /\ w.timers = o.timers /\ w.join = o.join /\ w.ops = o.ops
      /\ w.active = o.active /\ w.current = o.current /\ w.fatal = o.fatal /\ w.pending = k
  BY <1>1, <1>2 DEF Owners
<1>. HIDE DEF w
<1>5. Sound(w) /\ Moves(o, w)
  <2>1. ActiveIsKnown(w) /\ OwnToken(w) /\ OwnTimers(w) /\ TransferIsWaitedFor(w) /\ ~w.fatal
    BY <1>1, <1>4 DEF Sound, ActiveIsKnown, OwnToken, OwnTimers, TransferIsWaitedFor
  <2>2. PartIsRecorded(w)
    BY <1>1, <1>4 DEF Sound, PartIsRecorded, AtRest, CurrentIs
  <2>3. Moves(o, w)
    BY <1>1, <1>4 DEF Moves
  <2>. QED  BY <1>4, <2>1, <2>2, <2>3 DEF Sound
<1>6. PICK y : y = Overtaken(w, late)
  OBVIOUS
<1>7. y \in Owners /\ Alike(y, w)
  BY <1>4, <1>6, OvertakenAlike
<1>8. Sound(y) /\ Moves(w, y)
  BY <1>5, <1>7, AlikeIsSound
<1>9. PICK v : v = Publish(y)
  OBVIOUS
<1>10. Good(v) /\ Moves(y, v) /\ Kept(v, y)
  BY <1>8, <1>9, SoundIsReady, PublishGood
<1>11. Moves(o, v)
  BY <1>5, <1>8, <1>10, MovesTwice
<1>12. Linked(v, dials, transfers, requested)
  BY <1>1, <1>11, LinksFollow
<1>13. v.gen = o.gen /\ v.form = o.form
  BY <1>4, <1>7, <1>10 DEF Kept, Alike
<1>14. TransfersAreStamped(v, transfers \cup {c})
  BY <1>1, <1>2, <1>12, <1>13 DEF Linked, TransfersAreStamped
<1>15. o' = v /\ transfers' = transfers \cup {c}
  BY <1>3, <1>4, <1>6, <1>9
<1>. QED  BY <1>1, <1>10, <1>12, <1>14, <1>15 DEF Inv, Linked, SendsAreRequests

\* The attempt is over: it has failed unless the worker has joined.
LEMMA ConcludedGood ==
    ASSUME NEW w, Sound(w),
           w.part = "CatchingUp" \/ (w.part = "Ejected" /\ w.failed),
           NEW v, v = Concluded(w)
    PROVE  Good(v) /\ Moves(w, v)
<1>. DEFINE u == [w EXCEPT !.failed = TRUE]
<1>1. v = Publish(u)
  BY DEF Concluded
<1>2. w \in Owners /\ w.gen \in Nat
  BY DEF Sound, Owners
<1>3. /\ u \in Owners /\ u.gen = w.gen /\ u.part = w.part /\ u.token = w.token /\ u.form = w.form
      /\ u.attempt = w.attempt /\ u.timers = w.timers /\ u.join = w.join /\ u.ops = w.ops
      /\ u.active = w.active /\ u.current = w.current /\ u.fatal = w.fatal
      /\ u.pending = w.pending
  BY <1>2 DEF Owners
<1>. HIDE DEF u
<1>4. Sound(u)
  <2>1. ActiveIsKnown(u) /\ OwnToken(u) /\ OwnTimers(u) /\ TransferIsWaitedFor(u) /\ ~u.fatal
    BY <1>3 DEF Sound, ActiveIsKnown, OwnToken, OwnTimers, TransferIsWaitedFor
  <2>2. PartIsRecorded(u)
    BY <1>3 DEF Sound, PartIsRecorded, AtRest, CurrentIs
  <2>. QED  BY <1>3, <2>1, <2>2 DEF Sound
<1>5. Moves(w, u)
  BY <1>2, <1>3 DEF Moves
<1>6. Good(v) /\ Moves(u, v)
  BY <1>1, <1>4, SoundIsReady, PublishGood
<1>. QED  BY <1>5, <1>6, MovesTwice

\* The baseline is installed under the token of this formation.
LEMMA JoinedGood ==
    ASSUME NEW w, Good(w), w.part = "CatchingUp", w.ops[w.current] = "CatchingUp", w.pending = 0,
           NEW f, f = w.form,
           NEW v, v = Concluded([w EXCEPT !.token = f, !.failed = FALSE, !.clock = "off",
                                          !.part = "Joined"])
    PROVE  Good(v) /\ Moves(w, v)
<1>. DEFINE x == [w EXCEPT !.token = f, !.failed = FALSE, !.clock = "off", !.part = "Joined"]
            u == [x EXCEPT !.failed = FALSE]
<1>1. w \in Owners /\ w.gen \in Nat /\ f \in Formations
  BY DEF Good, Sound, Owners
<1>2. x.part = "Joined"
  BY <1>1 DEF Owners
<1>3. v = Publish(u)
  BY <1>2 DEF Concluded
<1>4. /\ x \in Owners /\ x.gen = w.gen /\ x.token = f /\ x.form = w.form
      /\ x.attempt = w.attempt /\ x.timers = w.timers /\ x.join = w.join /\ x.ops = w.ops
      /\ x.active = w.active /\ x.current = w.current /\ x.fatal = w.fatal
      /\ x.pending = w.pending
  BY <1>1, ZenonT(40) DEF Owners, Participations
<1>. HIDE DEF x
<1>5. /\ u \in Owners /\ u.gen = w.gen /\ u.part = "Joined" /\ u.token = f /\ u.form = w.form
      /\ u.attempt = w.attempt /\ u.timers = w.timers /\ u.join = w.join /\ u.ops = w.ops
      /\ u.active = w.active /\ u.current = w.current /\ u.fatal = w.fatal
      /\ u.pending = w.pending
  BY <1>2, <1>4, ZenonT(40) DEF Owners
<1>. HIDE DEF u
<1>6. AtRest(w) /\ w.active = w.current /\ w.current \in Operations
  BY DEF Good, Sound, PartIsRecorded, CurrentIs
<1>7. Ready(u)
  <2>1. ActiveIsKnown(u) /\ OwnToken(u) /\ OwnTimers(u) /\ TransferIsWaitedFor(u) /\ ~u.fatal
    BY <1>5 DEF Good, Sound, ActiveIsKnown, OwnToken, OwnTimers, TransferIsWaitedFor
  <2>2. AtRest(u)
    BY <1>5, <1>6 DEF AtRest
  <2>3. Recordable(u)
    BY <1>5, <1>6 DEF Recordable, Can, Allowed
  <2>. QED  BY <1>5, <1>6, <2>1, <2>2, <2>3 DEF Ready
<1>8. Moves(w, u)
  BY <1>1, <1>5 DEF Moves, Still
<1>9. Good(v) /\ Moves(u, v)
  BY <1>3, <1>7, PublishGood
<1>. QED  BY <1>8, <1>9, MovesTwice

\* An owner that has ended in the middle of joining.
EndsJoined(v, w) ==
    /\ v.fatal = TRUE /\ v.part = "Joined" /\ v.ops = w.ops /\ v.current = w.current
    /\ v.token = v.form /\ v.attempt = NoAttempt /\ v.timers = {} /\ v.run # "held"

\* The record was written off before the worker joined: it refuses the stage.
LEMMA JoinedRefused ==
    ASSUME NEW w, Good(w), w.part = "CatchingUp", w.ops[w.current] = "CatchUpFailed",
           NEW f, f = w.form,
           NEW v, v = Concluded([w EXCEPT !.token = f, !.failed = FALSE, !.clock = "off",
                                          !.part = "Joined"])
    PROVE  EndsJoined(v, w)
<1>. DEFINE x == [w EXCEPT !.token = f, !.failed = FALSE, !.clock = "off", !.part = "Joined"]
            u == [x EXCEPT !.failed = FALSE]
<1>1. w \in Owners /\ f \in Formations
  BY DEF Good, Sound, Owners
<1>2. x.part = "Joined"
  BY <1>1 DEF Owners
<1>3. v = Publish(u)
  BY <1>2 DEF Concluded
<1>4. /\ x \in Owners /\ x.token = f /\ x.form = w.form /\ x.attempt = w.attempt
      /\ x.timers = w.timers /\ x.ops = w.ops /\ x.current = w.current
  BY <1>1, ZenonT(40) DEF Owners, Participations
<1>. HIDE DEF x
<1>5. /\ u \in Owners /\ u.part = "Joined" /\ u.token = f /\ u.form = w.form
      /\ u.attempt = w.attempt /\ u.timers = w.timers /\ u.ops = w.ops /\ u.current = w.current
  BY <1>2, <1>4, ZenonT(40) DEF Owners
<1>. HIDE DEF u
<1>6. w.attempt = NoAttempt /\ w.timers = {} /\ w.current \in Operations /\ w.current # None
  BY NoneAssumption DEF Good, Sound, PartIsRecorded, CurrentIs, AtRest, OwnTimers
<1>7. PICK y \in Owners : y = Fenced(u)
  BY <1>5, FencedFacts
<1>8. Kept(y, u) /\ y.part = "Joined" /\ y.ops = u.ops /\ y.run # "held"
  BY <1>5, <1>7, FencedFacts DEF Eligible
<1>9. v = Recorded(y)
  <2>1. Timed(y) = y
    BY <1>8 DEF Timed
  <2>. QED  BY <1>3, <1>7, <2>1, OneAfterAnother
<1>10. Stage(y) = "Joined" /\ y.current = w.current
  BY <1>5, <1>8 DEF Stage, Kept
<1>11. y.ops[y.current] = "CatchUpFailed"
  BY <1>5, <1>8, <1>10
<1>12. v = Advance(y, y.current, "Joined")
  BY <1>6, <1>9, <1>10 DEF Recorded
<1>13. <<"CatchUpFailed", "Joined">> \notin Allowed
  BY DEF Allowed
<1>14. v = [y EXCEPT !.fatal = TRUE]
  BY <1>11, <1>12, <1>13 DEF Advance
<1>15. /\ v.fatal = TRUE /\ v.part = y.part /\ v.ops = y.ops /\ v.current = y.current
       /\ v.token = y.token /\ v.form = y.form /\ v.attempt = y.attempt
       /\ v.timers = y.timers /\ v.run = y.run
  BY <1>14 DEF Owners
<1>. QED  BY <1>5, <1>6, <1>8, <1>15 DEF Kept, EndsJoined

LEMMA CatchupFinishedKeeps ==
    ASSUME Inv, NEW c \in transfers, NEW result \in {"failed", "refused", "applied", "removed"},
           NEW late \in BOOLEAN, CatchupFinished(c, result, late)
    PROVE  Inv' \/ (Ended' /\ Overtakes)
<1>. DEFINE w == [o EXCEPT !.pending = 0, !.failed = FALSE]
            valid == o.part = "CatchingUp" /\ o.clock = "running"
            y == Overtaken(w, late)
            done == IF valid /\ result # "failed" THEN Installed(y, c, result) ELSE w
<1>1. /\ Running /\ dials' = dials /\ transfers' = transfers \ {c}
      /\ c.gen = o.gen /\ o.pending = c.id => Turn(Concluded(done), sends, FALSE)
      /\ ~(c.gen = o.gen /\ o.pending = c.id) => UNCHANGED <<o, sends, requested>>
  BY OneAfterAnother DEF CatchupFinished, Quiet
<1>2. Sound(o) /\ o \in Owners /\ Linked(o, dials, transfers, requested) /\ o.gen \in Nat
  BY DEF Inv, Good, Sound, Owners
<1>3. CASE ~(c.gen = o.gen /\ o.pending = c.id)
  <2>1. Moves(o, o)
    BY <1>2 DEF Moves
  <2>2. Linked(o, dials, transfers \ {c}, requested)
    BY <1>2, <2>1, LinksFollow
  <2>. QED  BY <1>1, <1>3, <2>2 DEF Inv, SendsAreRequests
<1>4. CASE c.gen = o.gen /\ o.pending = c.id
  <2>1. o.part = "CatchingUp" /\ c.form = o.form
    <3>1. c.id # 0 /\ c.form = o.form
      BY <1>2, <1>4 DEF Linked, TransfersAreStamped
    <3>. QED  BY <1>1, <1>2, <1>4, <3>1 DEF Running, Sound, TransferIsWaitedFor
  <2>2. /\ w \in Owners /\ w.gen = o.gen /\ w.part = o.part /\ w.token = o.token /\ w.form = o.form
        /\ w.attempt = o.attempt /\ w.timers = o.timers /\ w.join = o.join /\ w.ops = o.ops
        /\ w.active = o.active /\ w.current = o.current /\ w.fatal = o.fatal
        /\ w.pending = 0 /\ ~w.failed /\ w.clock = o.clock
    <3>1. 0 \in 0..MaxCatchups
      BY BoundsAssumption
    <3>. QED  BY <1>2, <3>1 DEF Owners
  <2>3. Sound(w) /\ Moves(o, w)
    <3>1. ActiveIsKnown(w) /\ OwnToken(w) /\ OwnTimers(w) /\ TransferIsWaitedFor(w) /\ ~w.fatal
      BY <1>2, <2>2 DEF Sound, ActiveIsKnown, OwnToken, OwnTimers, TransferIsWaitedFor
    <3>2. PartIsRecorded(w)
      BY <1>2, <2>1, <2>2 DEF Sound, PartIsRecorded, AtRest, CurrentIs
    <3>3. Moves(o, w)
      BY <1>2, <2>2 DEF Moves
    <3>. QED  BY <2>2, <3>1, <3>2, <3>3 DEF Sound
  <2>. HIDE DEF w
  <2>4. PICK v : v = Concluded(done)
    OBVIOUS
  <2>5. Turn(v, sends, FALSE) /\ dials' \subseteq dials /\ transfers' \subseteq transfers
    BY <1>1, <1>4, <2>4
  <2>6. Good(v) /\ Moves(w, v) => Inv'
    <3>. SUFFICES ASSUME Good(v), Moves(w, v) PROVE Inv'
      OBVIOUS
    <3>1. Moves(o, v)
      BY <2>3, MovesTwice
    <3>. QED  BY <2>5, <3>1, QuietKeeps
  <2>7. y \in Owners /\ Alike(y, w)
    BY <2>2, OvertakenAlike
  <2>8. Sound(y) /\ Moves(w, y)
    BY <2>3, <2>7, AlikeIsSound
  <2>9. y.part = "CatchingUp" /\ y.pending = 0 /\ y.form = o.form
    BY <2>1, <2>2, <2>7 DEF Alike
  <2>. HIDE DEF y
  <2>10. PICK x : x = Finish(y)
    OBVIOUS
  <2>11. Good(x) /\ Moves(y, x) /\ Kept(x, y) /\ x.part = "CatchingUp"
    BY <2>8, <2>9, <2>10, SoundReady, FinishGood
  <2>12. Moves(w, x)
    BY <2>8, <2>11, MovesTwice
  <2>13. CASE ~(valid /\ result # "failed")
    BY <2>1, <2>2, <2>3, <2>4, <2>6, <2>13, ConcludedGood
  <2>14. CASE valid /\ result = "removed"
    <3>1. PICK e : e = Finish(Ejected(y))
      OBVIOUS
    <3>2. Good(e) /\ Moves(y, e) /\ e.part = "Ejected" /\ e.failed
      BY <2>8, <2>9, <3>1, EjectedGood
    <3>3. v = Concluded(e)
      BY <2>4, <2>14, <3>1 DEF Installed
    <3>4. Good(v) /\ Moves(e, v)
      BY <3>2, <3>3, ConcludedGood DEF Good
    <3>. QED  BY <2>6, <2>8, <3>2, <3>4, MovesTwice
  <2>15. CASE valid /\ result = "refused"
    <3>1. v = Concluded(x)
      BY <2>4, <2>10, <2>15 DEF Installed
    <3>2. Good(v) /\ Moves(x, v)
      BY <2>11, <3>1, ConcludedGood DEF Good
    <3>. QED  BY <2>6, <2>12, <3>2, MovesTwice
  <2>16. CASE valid /\ result = "applied"
    <3>1. v = Concluded([x EXCEPT !.token = c.form, !.failed = FALSE, !.clock = "off", !.part = "Joined"])
      BY <2>4, <2>10, <2>16 DEF Installed
    <3>2. x.pending = 0 /\ c.form = x.form
      BY <2>1, <2>9, <2>11 DEF Kept
    <3>3. PICK f : f = c.form
      OBVIOUS
    <3>4. v = Concluded([x EXCEPT !.token = f, !.failed = FALSE, !.clock = "off", !.part = "Joined"])
      BY <3>1, <3>3
    <3>5. x.current \in Operations /\ x.ops[x.current] \in {"CatchingUp", "CatchUpFailed"}
      BY <2>11 DEF Good, Sound, PartIsRecorded, CurrentIs
    <3>6. CASE x.ops[x.current] = "CatchingUp"
      <4>1. Good(v) /\ Moves(x, v)
        BY <2>11, <3>2, <3>3, <3>4, <3>6, JoinedGood
      <4>. QED  BY <2>6, <2>12, <4>1, MovesTwice
    <3>7. CASE x.ops[x.current] = "CatchUpFailed"
      <4>1. EndsJoined(v, x)
        BY <2>11, <3>2, <3>3, <3>4, <3>7, JoinedRefused
      <4>2. o' = v /\ requested' = requested
        BY <2>5 DEF Turn
      <4>3. Overtakes
        BY <2>16, <3>7, <4>1, <4>2 DEF Overtakes, EndsJoined
      <4>4. RequestsAreRecorded(x, requested)
        <5>1. Linked(o, dials, transfers, requested) /\ Moves(o, x)
          BY <1>2, <2>3, <2>12, MovesTwice
        <5>. QED  BY <5>1, LinksFollow DEF Linked
      <4>5. CleanFailureIsTrue'
        BY <4>1, <4>2, <4>4 DEF CleanFailureIsTrue, RequestsAreRecorded, Asked, EndsJoined
      <4>6. RunIsAlone' /\ IdentityIsItsOwn'
        BY <4>1, <4>2 DEF RunIsAlone, IdentityIsItsOwn, EndsJoined
      <4>. QED  BY <4>1, <4>2, <4>3, <4>5, <4>6 DEF Ended, EndsJoined
    <3>. QED  BY <3>5, <3>6, <3>7
  <2>. QED  BY <2>13, <2>14, <2>15, <2>16
<1>. QED  BY <1>3, <1>4

LEMMA LeaveKeeps ==
    ASSUME Inv, Leave
    PROVE  Inv'
<1>1. PICK v : v = Finish(Left(o))
  OBVIOUS
<1>2. Good(v) /\ Moves(o, v)
  BY <1>1, LeftGood DEF Inv
<1>3. Turn(v, sends, FALSE) /\ dials' \subseteq dials /\ transfers' \subseteq transfers
  BY <1>1 DEF Leave, Quiet
<1>. QED  BY <1>2, <1>3, QuietKeeps

LEMMA RemovedKeeps ==
    ASSUME Inv, Removed
    PROVE  Inv'
<1>1. PICK v : v = Finish(Ejected(o))
  OBVIOUS
<1>2. Good(v) /\ Moves(o, v)
  BY <1>1, EjectedGood DEF Inv, Good, Removed, Running
<1>3. Turn(v, sends, FALSE) /\ dials' \subseteq dials /\ transfers' \subseteq transfers
  BY <1>1 DEF Removed, Quiet
<1>. QED  BY <1>2, <1>3, QuietKeeps

\* The lock, the company, the tick.
LEMMA NewsKeeps ==
    ASSUME Inv,
           \/ \E l \in BOOLEAN : SetLock(l)
           \/ Admit
           \/ \E alone, locked \in BOOLEAN : PeerNews(alone, locked)
           \/ ProbeTick
    PROVE  Inv'
<1>1. o \in Owners
  BY DEF Inv, Good, Sound
<1>2. CASE \E l \in BOOLEAN : SetLock(l)
  <2>1. PICK l \in BOOLEAN : SetLock(l)
    BY <1>2
  <2>2. PICK w : w = [o EXCEPT !.locked = l]
    OBVIOUS
  <2>3. w \in Owners /\ Alike(w, o)
    BY <1>1, <2>2 DEF Owners, Alike
  <2>4. Quiet(Finish(w)) /\ UNCHANGED <<dials, redials, transfers>>
    BY <2>1, <2>2 DEF SetLock
  <2>. QED  BY <2>3, <2>4, AlikeTurn
<1>3. CASE Admit
  <2>1. PICK w : w = [o EXCEPT !.alone = FALSE]
    OBVIOUS
  <2>2. w \in Owners /\ Alike(w, o)
    BY <1>1, <2>1 DEF Owners, Alike
  <2>3. Quiet(Finish(w)) /\ UNCHANGED <<dials, redials, transfers>>
    BY <1>3, <2>1 DEF Admit
  <2>. QED  BY <2>2, <2>3, AlikeTurn
<1>4. CASE \E alone, locked \in BOOLEAN : PeerNews(alone, locked)
  <2>1. PICK alone \in BOOLEAN, locked \in BOOLEAN : PeerNews(alone, locked)
    BY <1>4
  <2>2. PICK w : w = [o EXCEPT !.alone = alone, !.locked = locked]
    OBVIOUS
  <2>3. w \in Owners /\ Alike(w, o)
    BY <1>1, <2>2 DEF Owners, Alike
  <2>4. Quiet(Finish(w)) /\ UNCHANGED <<dials, redials, transfers>>
    BY <2>1, <2>2 DEF PeerNews
  <2>. QED  BY <2>3, <2>4, AlikeTurn
<1>5. CASE ProbeTick
  <2>1. Alike(o, o)
    BY DEF Alike
  <2>2. Quiet(Finish(o)) /\ UNCHANGED <<dials, redials, transfers>>
    BY <1>5 DEF ProbeTick
  <2>. QED  BY <1>1, <2>1, <2>2, AlikeTurn
<1>. QED  BY <1>2, <1>3, <1>4, <1>5

\* The run and the clock.
LEMMA FieldKeeps ==
    ASSUME Inv, ReserveExecution \/ ReleaseExecution \/ Expire
    PROVE  Inv'
<1>1. o \in Owners /\ Sound(o) /\ HeldIsAlone(o)
  BY DEF Inv, Good, Sound
<1>2. CASE ReserveExecution
  <2>. DEFINE u == [o EXCEPT !.run = "held"]
  <2>1. /\ u \in Owners /\ Alike(u, o) /\ u.alone = o.alone /\ u.locked = o.locked
    BY <1>1 DEF Owners, Alike
  <2>2. /\ o' = u /\ UNCHANGED <<dials, redials, sends, transfers, requested>> /\ Eligible(o)
    BY <1>2 DEF ReserveExecution
  <2>. HIDE DEF u
  <2>3. HeldIsAlone(u)
    BY <2>1, <2>2 DEF HeldIsAlone, Eligible, Alike
  <2>. QED  BY <1>1, <2>1, <2>2, <2>3, AlikeIsSound, StepKeeps DEF Good
<1>3. CASE ReleaseExecution
  <2>. DEFINE u == [o EXCEPT !.run = "none"]
  <2>1. u \in Owners /\ Alike(u, o) /\ HeldIsAlone(u)
    BY <1>1 DEF Owners, Alike, HeldIsAlone
  <2>2. o' = u /\ UNCHANGED <<dials, redials, sends, transfers, requested>>
    BY <1>3 DEF ReleaseExecution
  <2>. HIDE DEF u
  <2>. QED  BY <1>1, <2>1, <2>2, AlikeIsSound, StepKeeps DEF Good
<1>4. CASE Expire
  <2>. DEFINE u == [o EXCEPT !.clock = "expired"]
  <2>1. u \in Owners /\ Alike(u, o) /\ HeldIsAlone(u)
    BY <1>1 DEF Owners, Alike, HeldIsAlone
  <2>2. o' = u /\ UNCHANGED <<dials, redials, sends, transfers, requested>>
    BY <1>4 DEF Expire
  <2>. HIDE DEF u
  <2>. QED  BY <1>1, <2>1, <2>2, AlikeIsSound, StepKeeps DEF Good
<1>. QED  BY <1>2, <1>3, <1>4

LEMMA StopKeeps ==
    ASSUME Inv, Stop
    PROVE  Inv'
<1>. DEFINE r == IF o.run = "none" THEN "none" ELSE "revoked"
            u == [o EXCEPT !.run = r, !.part = "Stopping"]
<1>1. o \in Owners /\ Sound(o) /\ o.gen \in Nat
  BY DEF Inv, Good, Sound, Owners
<1>2. r \in {"none", "held", "revoked"} /\ r # "held"
  OBVIOUS
<1>3. o' = u /\ UNCHANGED <<dials, redials, sends, transfers, requested>>
  BY DEF Stop, Revoked
<1>. HIDE DEF r
<1>4. /\ u \in Owners /\ u.gen = o.gen /\ u.part = "Stopping" /\ u.token = o.token /\ u.form = o.form
      /\ u.ops = o.ops /\ u.active = o.active /\ u.current = o.current
      /\ u.fatal = o.fatal /\ u.run = r
  BY <1>1, <1>2, ZenonT(40) DEF Owners, Participations
<1>. HIDE DEF u
<1>5. Good(u)
  <2>1. ActiveIsKnown(u) /\ OwnToken(u) /\ OwnTimers(u) /\ TransferIsWaitedFor(u) /\ ~u.fatal
    BY <1>1, <1>4 DEF Sound, ActiveIsKnown, OwnToken, OwnTimers, TransferIsWaitedFor
  <2>2. PartIsRecorded(u)
    BY <1>4 DEF PartIsRecorded
  <2>3. HeldIsAlone(u)
    BY <1>2, <1>4 DEF HeldIsAlone
  <2>. QED  BY <1>4, <2>1, <2>2, <2>3 DEF Good, Sound
<1>6. Moves(o, u)
  BY <1>1, <1>4 DEF Moves, Still
<1>. QED  BY <1>3, <1>5, <1>6, StepKeeps

-----------------------------------------------------------------------------
(* The theorems.                                                           *)

LEMMA InitInv == Init => Inv
<1>. SUFFICES ASSUME Init PROVE Inv
  OBVIOUS
<1>. DEFINE ops0 == [op \in Operations |-> "Unknown"]
<1>1. /\ o.gen = 0 /\ o.part = "Standalone" /\ o.token = Own(0) /\ o.form = Own(0)
      /\ o.attempt = NoAttempt /\ o.timers = {} /\ o.join = NoJoin /\ o.ops = ops0
      /\ o.active = None /\ o.current = None /\ o.pending = 0 /\ o.run = "none" /\ ~o.fatal
      /\ dials = {} /\ sends = {} /\ transfers = {} /\ requested = {}
  BY DEF Init
<1>2. /\ Own(0) \in Formations /\ NoAttempt \in Attempts /\ NoJoin \in Joins
      /\ ops0 \in [Operations -> States] /\ 0 \in 0..MaxCatchups
  BY BoundsAssumption DEF Formations, NoAttempt, Attempts, NoJoin, Joins, States
<1>. HIDE DEF ops0
<1>3. o \in Owners
  <2>1. o = [gen |-> 0, part |-> "Standalone", token |-> Own(0),
             form |-> Own(0), alone |-> TRUE, locked |-> FALSE,
             attempt |-> NoAttempt, correlation |-> 0, timers |-> {},
             join |-> NoJoin, ops |-> ops0, active |-> None, current |-> None,
             pending |-> 0, tries |-> 0, failed |-> FALSE, clock |-> "off",
             run |-> "none", fatal |-> FALSE]
    BY DEF Init, ops0
  <2>. QED  BY <1>2, <2>1 DEF Owners, Participations
<1>4. ActiveIsKnown(o)
  BY <1>1 DEF ActiveIsKnown, UnderWay, ops0
<1>5. PartIsRecorded(o)
  BY <1>1 DEF PartIsRecorded, AtRest
<1>6. Good(o)
  BY <1>1, <1>3, <1>4, <1>5
     DEF Good, Sound, OwnToken, OwnTimers, TransferIsWaitedFor, HeldIsAlone
<1>7. Linked(o, dials, transfers, requested) /\ SendsAreRequests
  BY <1>1 DEF Linked, DialsAreHeard, TransfersAreStamped, RequestsAreRecorded, SendsAreRequests
<1>. QED  BY <1>6, <1>7 DEF Inv

LEMMA NextInv == Inv /\ [Next]_vars => Inv' \/ (Ended' /\ Overtakes)
<1>. SUFFICES ASSUME Inv, [Next]_vars PROVE Inv' \/ (Ended' /\ Overtakes)
  OBVIOUS
<1>1. CASE \E op \in Operations : PrepareJoin(op)
  BY <1>1, PrepareJoinKeeps
<1>2. CASE DialEnds
  BY <1>2, JoinNotPreparedKeeps, JoinPreparedKeeps DEF DialEnds
<1>3. CASE PrepareJoinReconnect
  BY <1>3, PrepareJoinReconnectKeeps
<1>4. CASE RedialEnds
  BY <1>4, JoinReconnectFinishedKeeps DEF RedialEnds
<1>5. CASE TimerFires
  BY <1>5, JoinTimerKeeps DEF TimerFires
<1>6. CASE SendEnds
  BY <1>6, SendFinishedKeeps DEF SendEnds
<1>7. CASE \E late \in BOOLEAN : PrepareCatchup(late)
  BY <1>7, PrepareCatchupKeeps
<1>8. CASE TransferEnds
  BY <1>8, CatchupFinishedKeeps DEF TransferEnds
<1>9. CASE Leave
  BY <1>9, LeaveKeeps
<1>10. CASE Removed
  BY <1>10, RemovedKeeps
<1>11. CASE \/ \E l \in BOOLEAN : SetLock(l)
            \/ Admit
            \/ \E alone, locked \in BOOLEAN : PeerNews(alone, locked)
            \/ ProbeTick
  BY <1>11, NewsKeeps
<1>12. CASE ReserveExecution \/ ReleaseExecution \/ Expire
  BY <1>12, FieldKeeps
<1>13. CASE Stop
  BY <1>13, StopKeeps
<1>14. CASE UNCHANGED vars
  BY <1>14 DEF vars, Inv, Linked, DialsAreHeard, TransfersAreStamped, RequestsAreRecorded,
               SendsAreRequests
<1>. QED  BY <1>1, <1>2, <1>3, <1>4, <1>5, <1>6, <1>7, <1>8, <1>9, <1>10, <1>11, <1>12,
             <1>13, <1>14 DEF Next

\* Every action starts from a running owner.
LEMMA EndedStays == Ended /\ [Next]_vars => Ended'
<1>. SUFFICES ASSUME Ended, [Next]_vars PROVE Ended'
  OBVIOUS
<1>1. ~Running
  BY DEF Ended, Running
<1>2. ~Next
  <2>1. /\ ~DialEnds /\ ~RedialEnds /\ ~SendEnds /\ ~TransferEnds /\ ~TimerFires
    BY <1>1 DEF DialEnds, RedialEnds, SendEnds, TransferEnds, TimerFires, JoinNotPrepared,
                JoinPrepared, JoinReconnectFinished, SendFinished, CatchupFinished, JoinTimer
  <2>. QED  BY <1>1, <2>1 DEF Next, PrepareJoin, PrepareJoinReconnect, PrepareCatchup, Expire,
                Leave, SetLock, Admit, Removed, PeerNews, ReserveExecution, ReleaseExecution,
                ProbeTick, Stop
<1>3. UNCHANGED vars
  BY <1>2
<1>. QED  BY <1>3 DEF vars, Ended, CleanFailureIsTrue, RunIsAlone, IdentityIsItsOwn

LEMMA Invariance == Spec => [](Inv \/ Ended)
<1>1. Init => Inv
  BY InitInv
<1>2. (Inv \/ Ended) /\ [Next]_vars => (Inv \/ Ended)'
  BY NextInv, EndedStays
<1>. QED  BY <1>1, <1>2, PTL DEF Spec

\* publish, send_message and bind_recovery return an error, and the worker ends, when a
\* join record refuses its next stage or a request has no transport.  No order of
\* dials, redials, answers, timers, transfers, removals and leaves gets there, and of
\* all expiries only the one between the two readings of the clock in CatchupFinished.
THEOREM OwnerEndsOnlyByTheClock == Spec => OnlyTheClockEndsTheOwner
<1>1. (Inv \/ Ended) /\ [Next]_vars =>
         (~o.fatal /\ o'.fatal =>
            /\ o.part = "CatchingUp" /\ o.clock = "running"
            /\ o'.part = "Joined" /\ o'.ops[o'.current] = "CatchUpFailed")
  <2>. SUFFICES ASSUME Inv \/ Ended, [Next]_vars, ~o.fatal, o'.fatal
                PROVE  Overtakes
    BY DEF Overtakes
  <2>1. Inv
    BY DEF Ended
  <2>2. ~Inv'
    BY DEF Inv, Good, Sound
  <2>. QED  BY <2>1, <2>2, NextInv
<1>. QED  BY <1>1, Invariance, PTL DEF Spec, OnlyTheClockEndsTheOwner

\* What a record calls failed before admission may be repeated with a new operation:
\* no introducer has been asked in its name.
THEOREM CleanFailuresAreClean == Spec => []CleanFailureIsTrue
<1>1. Inv \/ Ended => CleanFailureIsTrue
  BY DEF Inv, Linked, RequestsAreRecorded, Asked, CleanFailureIsTrue, Ended
<1>. QED  BY <1>1, Invariance, PTL

\* execution_eligible is looked at when a run is reserved; publish, reserve and the
\* membership commands keep it true, or fence the run, for as long as it lasts.
THEOREM RunsAreAlone == Spec => []RunIsAlone
<1>1. Inv => RunIsAlone
  <2>. SUFFICES ASSUME Inv, o.run = "held"
                PROVE  /\ o.part = "Standalone" /\ o.alone /\ o.locked /\ o.active = None
                       /\ \A d \in dials : d.gen # o.gen
    BY DEF RunIsAlone
  <2>1. o.part = "Standalone" /\ o.alone /\ o.locked /\ o.active = None
    BY DEF Inv, Good, HeldIsAlone
  <2>2. \A d \in dials : d.gen # o.gen
    BY <2>1, NoneAssumption
       DEF Inv, Good, Sound, Linked, DialsAreHeard, ActiveIsKnown, UnderWay
  <2>. QED  BY <2>1, <2>2
<1>2. Ended => RunIsAlone
  BY DEF Ended
<1>. QED  BY <1>1, <1>2, Invariance, PTL

\* A report of an old identity installs no token and answers no timer of a new one.
THEOREM IdentitiesAreSeparate == Spec => []IdentityIsItsOwn
<1>1. Inv \/ Ended => IdentityIsItsOwn
  BY DEF Inv, Good, Sound, OwnToken, OwnTimers, IdentityIsItsOwn, Ended
<1>. QED  BY <1>1, Invariance, PTL

=============================================================================
