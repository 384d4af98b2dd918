------------------------------- MODULE Probe -------------------------------
(***************************************************************************)
(* The failure detector of one node: the probes, peer selections and       *)
(* timers of update.rs, driven by a shell and a network that may answer    *)
(* late, out of order, more than once or never.  The node's view is a      *)
(* replica of module Merge, so that a verdict is applied to whatever the   *)
(* view has become since the probe went out.                               *)
(*                                                                         *)
(* Probe IDs, selection IDs and timer generations come from one counter,   *)
(* as next_correlation gives them.  A token that was cancelled may still   *)
(* be delivered: it had expired before the cancellation was carried out.   *)
(***************************************************************************)
EXTENDS Merge

CONSTANTS
    Self,           \* the node whose detector this is
    MaxPending,     \* Limits.max_pending_probes
    HelperCount,    \* Limits.indirect_probe_count
    LastStart,      \* bound: the last correlation number a probe is started at
    Probed,         \* bound: peers the shell picks for a probe round
    Relayed,        \* bound: nodes others ask this one to probe
    Subjects,       \* bound: peers the rest of the formation has news about
    Fences          \* bound: what the tombstones that arrive say of their fence

ASSUME SelfAssumption == Self \in Nodes
ASSUME ProbeLimitsAssumption ==
    MaxPending \in Nat \ {0} /\ HelperCount \in Nat \ {0} /\ LastStart \in Nat
ASSUME ProbeBoundsAssumption ==
    /\ Probed \subseteq Nodes \ {Self} /\ Relayed \subseteq Nodes \ {Self}
    /\ Subjects \subseteq Nodes \ {Self}
    /\ Fences \subseteq {"Fenced", "Cleared"}

VARIABLES
    rep,            \* the membership view
    probes,         \* PendingProbe records
    selections,     \* selections the shell has not answered
    deadline,       \* the timer of each suspicion, NoTimer if there is none
    armed,          \* timers the shell holds
    late,           \* cancelled timers that may still be delivered
    corr            \* next_correlation

vars == <<rep, probes, selections, deadline, armed, late, corr>>

Peers == Nodes \ {Self}

NoTimer == -1

\* ProbePhase: "Indirect" carries the intermediaries asked and those that
\* reported failure.
Probes == [id : Nat, target : Peers, inc : Incarnations,
           phase : {"Direct", "Indirect", "Relay"},
           helpers : SUBSET Peers, answered : SUBSET Peers, timer : Nat]

\* SelectionPurpose; probe is the probe an "Indirect" selection is for.
Selections == [id : Nat, why : {"Direct", "Indirect", "Announce"}, probe : Nat]

TypeOK ==
    /\ rep \in Replicas
    /\ probes \subseteq Probes /\ Cardinality(probes) <= MaxPending
    /\ selections \subseteq Selections /\ Cardinality(selections) <= MaxPending
    /\ deadline \in [Nodes -> Nat \cup {NoTimer}]
    /\ armed \subseteq Nat
    /\ late \subseteq Nat
    /\ corr \in Nat

Init ==
    /\ rep = [Bare(0) EXCEPT !.members =
                [t \in Nodes |-> [state |-> "Alive", inc |-> 0, ver |-> Initial(Self)]]]
    /\ probes = {}
    /\ selections = {}
    /\ deadline = [t \in Nodes |-> NoTimer]
    /\ armed = {}
    /\ late = {}
    /\ corr = 0

-----------------------------------------------------------------------------
(* Effects.                                                                *)

\* Mutant: selections are not counted against the limit.
Full_Never(sel) == FALSE

\* request_peers refuses at the limit.
Full(sel) == Cardinality(sel) >= MaxPending

\* request_peers with next_correlation c; selections and corr become these.
Ask(sel, c, why, p) ==
    /\ selections' = IF Full(sel) THEN sel ELSE sel \cup {[id |-> c, why |-> why, probe |-> p]}
    /\ corr' = IF Full(sel) THEN c ELSE c + 1

\* A suspicion that a merge settles loses its timer without a CancelTimer: the
\* shell still holds the token, and it fires as a stale one.
Settled(r) == [t \in Nodes |-> IF r.susp[t] = NoDeadline THEN NoTimer ELSE deadline[t]]

\* A probe ends: its timer is cancelled.
Finish(p) ==
    /\ probes' = probes \ {p}
    /\ armed' = armed \ {p.timer}
    /\ late' = late \cup {p.timer}

\* Mutant: a verdict is passed on whatever the view says now.
Condemns_Always(t, i) == IsMember(rep, t)

\* Whether a verdict on t at incarnation i still stands when it is passed.
Condemns(t, i) == Adopts(Self, rep, Self, "Suspect", t, i)

\* suspect, from a step that has reduced the selections to sel and the armed
\* timers to tokens.
RaiseSuspicion(t, i, sel, tokens) ==
    IF Condemns(t, i)
    THEN /\ rep' = Suspect(Self, rep, t, i)
         /\ deadline' = [deadline EXCEPT ![t] = corr]
         /\ armed' = tokens \cup {corr}
         /\ Ask(sel, corr + 1, "Announce", 0)
    ELSE /\ armed' = tokens
         /\ selections' = sel
         /\ UNCHANGED <<rep, deadline, corr>>

-----------------------------------------------------------------------------
(* Probe rounds.                                                           *)

\* StartProbeRound.
StartProbeRound ==
    /\ corr <= LastStart
    /\ MemberCount(rep) > 1
    /\ ~Full(selections)
    /\ Ask(selections, corr, "Direct", 0)
    /\ UNCHANGED <<rep, probes, deadline, armed, late>>

\* A probe of t with the timer of its first phase.
NewProbe(t, phase) ==
    [id |-> corr, target |-> t, inc |-> rep.members[t].inc, phase |-> phase,
     helpers |-> {}, answered |-> {}, timer |-> corr + 1]

\* Sends the Ping and arms the timer, unless probes are at the limit.
Launch(t, phase) ==
    IF Cardinality(probes) >= MaxPending
    THEN UNCHANGED <<probes, armed, corr>>
    ELSE /\ probes' = probes \cup {NewProbe(t, phase)}
         /\ armed' = armed \cup {corr + 1}
         /\ corr' = corr + 2

\* start_direct_probe on the selected peer, if that is still a member.
ProbeSelected(s, t) ==
    /\ s \in selections /\ s.why = "Direct"
    /\ IsMember(rep, t)
    /\ selections' = selections \ {s}
    /\ Launch(t, "Direct")
    /\ UNCHANGED <<rep, deadline, late>>

\* A selection that found nobody for a probe round, or whose announcement has
\* been sent: nothing but the selection goes.
SelectionSpent(s) ==
    /\ s \in selections
    /\ \/ s.why \in {"Direct", "Announce"}
       \/ s.why = "Indirect" /\ \A p \in probes : p.id # s.probe
    /\ selections' = selections \ {s}
    /\ UNCHANGED <<rep, probes, deadline, armed, late, corr>>

\* The intermediaries for a probe whose direct phase failed; with none of them
\* the verdict is passed at once.
HelpersSelected(s, p, H) ==
    /\ s \in selections /\ s.why = "Indirect"
    /\ p \in probes /\ p.id = s.probe
    /\ Cardinality(H) <= HelperCount
    /\ \A h \in H : h # p.target /\ IsMember(rep, h)
    /\ IF H = {}
       THEN /\ probes' = probes \ {p}
            /\ late' = late \cup {p.timer}
            /\ RaiseSuspicion(p.target, p.inc, selections \ {s}, armed \ {p.timer})
       ELSE /\ probes' = (probes \ {p}) \cup {[p EXCEPT !.phase = "Indirect", !.helpers = H,
                                                        !.answered = {}]}
            /\ selections' = selections \ {s}
            /\ UNCHANGED <<rep, deadline, armed, late, corr>>

\* handle_ping_req for another member; a refused relay changes nothing.
RelayRequested(t) ==
    /\ corr <= LastStart /\ t \in Relayed
    /\ IsMember(rep, t) /\ ~IsTombstoned(rep, t)
    /\ Launch(t, "Relay")
    /\ UNCHANGED <<rep, selections, deadline, late>>

-----------------------------------------------------------------------------
(* Answers.                                                                *)

\* What the view becomes when t is known to be alive at incarnation i.
SeenAlive(t, i) == ApplyAnnouncement(Self, rep, t, "Alive", t, i)

\* handle_ack: the target itself answers, in whatever phase the probe is.
Ack(p, i) ==
    /\ p \in probes
    /\ IsMember(rep, p.target)
    /\ Finish(p)
    /\ rep' = SeenAlive(p.target, i)
    /\ deadline' = Settled(rep')
    /\ UNCHANGED <<selections, corr>>

\* handle_ping_reply: an intermediary reached the target.
HelperReached(p, h, i) ==
    /\ p \in probes /\ p.phase = "Indirect"
    /\ h \in p.helpers /\ IsMember(rep, h)
    /\ Finish(p)
    /\ rep' = SeenAlive(p.target, i)
    /\ deadline' = Settled(rep')
    /\ UNCHANGED <<selections, corr>>

\* Whether h's failure is the last one missing.
Exhausted(p, h) == p.answered \cup {h} = p.helpers

\* handle_ping_reply: an intermediary did not reach the target.  A repeated
\* report counts once.
HelperFailed(p, h) ==
    /\ p \in probes /\ p.phase = "Indirect"
    /\ h \in p.helpers \ p.answered /\ IsMember(rep, h)
    /\ IF Exhausted(p, h)
       THEN /\ probes' = probes \ {p}
            /\ late' = late \cup {p.timer}
            /\ RaiseSuspicion(p.target, p.inc, selections, armed \ {p.timer})
       ELSE /\ probes' = (probes \ {p}) \cup {[p EXCEPT !.answered = @ \cup {h}]}
            /\ UNCHANGED <<rep, selections, deadline, armed, late, corr>>

-----------------------------------------------------------------------------
(* Timers.                                                                 *)

Delivered(g) == g \in armed \cup late

\* Mutant: the escalated probe keeps the timer that has just fired.
Escalated_NotArmed(p, g) ==
    /\ probes' = (probes \ {p}) \cup {[p EXCEPT !.phase = "Indirect", !.timer = corr]}
    /\ armed' = armed \ {g}
    /\ Ask(selections, corr + 1, "Indirect", p.id)

\* The direct phase failed: the new timer is armed before peers are asked for.
Escalated(p, g) ==
    /\ probes' = (probes \ {p}) \cup {[p EXCEPT !.phase = "Indirect", !.timer = corr]}
    /\ armed' = (armed \ {g}) \cup {corr}
    /\ Ask(selections, corr + 1, "Indirect", p.id)

\* handle_probe_timer for the probe that holds this token.
ProbeTimer(g, p) ==
    /\ Delivered(g)
    /\ p \in probes /\ p.timer = g
    /\ late' = late \ {g}
    /\ \/ p.phase = "Direct" /\ Escalated(p, g) /\ UNCHANGED <<rep, deadline>>
       \/ /\ p.phase = "Indirect"
          /\ probes' = probes \ {p}
          /\ RaiseSuspicion(p.target, p.inc, selections, armed \ {g})
       \/ /\ p.phase = "Relay"
          /\ probes' = probes \ {p}
          /\ armed' = armed \ {g}
          /\ UNCHANGED <<rep, selections, deadline, corr>>

\* Whether token g is the timer of t's suspicion.
Owns(t, g) == deadline[t] = g

\* handle_suspicion_timer, then declare_dead.
SuspicionTimer(g, t) ==
    /\ Delivered(g)
    /\ Owns(t, g)
    /\ armed' = armed \ {g}
    /\ late' = late \ {g}
    /\ rep' = ExpireSuspicion(Self, rep, t)
    /\ deadline' = [deadline EXCEPT ![t] = NoTimer]
    /\ IF Adopts(Self, rep, Self, "Dead", t, rep.susp[t])
       THEN Ask(selections, corr, "Announce", 0)
       ELSE UNCHANGED <<selections, corr>>
    /\ UNCHANGED probes

\* A token nobody holds any more changes nothing.
StaleTimer(g) ==
    /\ Delivered(g)
    /\ \A p \in probes : p.timer # g
    /\ \A t \in Nodes : deadline[t] # g
    /\ armed' = armed \ {g}
    /\ late' = late \ {g}
    /\ UNCHANGED <<rep, probes, selections, deadline, corr>>

-----------------------------------------------------------------------------
(* The rest of the formation.                                              *)

\* Gossip or an announcement about another member, as far as it moves liveness.
Gossip(t, m) ==
    /\ rep' = MergeMember(Self, rep, t, m)
    /\ rep' # rep
    /\ deadline' = Settled(rep')
    /\ UNCHANGED <<probes, selections, armed, late, corr>>

\* A suspicion of this node, refuted and announced.
Challenged(i) ==
    /\ rep' = Challenge(Self, rep, "Suspected", i)
    /\ rep' # rep
    /\ Ask(selections, corr, "Announce", 0)
    /\ UNCHANGED <<probes, deadline, armed, late>>

\* A tombstone: the member goes, and its suspicion and every probe of it.  None
\* of their timers is cancelled: the tokens stay with the shell, ownerless.  A
\* record that says the fence is lifted removes too, but gossip may bring the
\* member back, at whatever incarnation the sender still holds.
Removal(t, b) ==
    /\ rep' = MergeTombstone(rep, t, b)
    /\ rep' # rep
    /\ deadline' = Settled(rep')
    /\ probes' = {p \in probes : p.target # t}
    /\ UNCHANGED <<selections, armed, late, corr>>

Rumours == {[state |-> st, inc |-> i, ver |-> Initial(Self)] :
              st \in {"Alive", "Suspected", "Dead"}, i \in Incarnations}

Notices == [state : Fences, ver : {Initial(Self)}]

Next ==
    \/ StartProbeRound
    \/ \E s \in selections :
          \/ \E t \in Probed : ProbeSelected(s, t)
          \/ SelectionSpent(s)
          \/ \E p \in probes : \E H \in SUBSET Peers : HelpersSelected(s, p, H)
    \/ \E t \in Peers : RelayRequested(t)
    \/ \E p \in probes, i \in Incarnations :
          \/ Ack(p, i)
          \/ \E h \in p.helpers : HelperReached(p, h, i)
    \/ \E p \in probes : \E h \in p.helpers : HelperFailed(p, h)
    \/ \E g \in armed \cup late :
          \/ \E p \in probes : ProbeTimer(g, p)
          \/ \E t \in Peers : SuspicionTimer(g, t)
          \/ StaleTimer(g)
    \/ \E t \in Subjects : \E m \in Rumours : Gossip(t, m)
    \/ \E i \in Incarnations : Challenged(i)
    \/ \E t \in Subjects : \E b \in Notices : Removal(t, b)

Spec == Init /\ [][Next]_vars

-----------------------------------------------------------------------------
(* Properties.                                                             *)

\* Nothing waits for a token the shell has forgotten, and no two things wait for
\* the same one: every probe in every phase, and every suspicion, holds an armed
\* timer of its own.
NothingWaitsForever ==
    /\ \A p \in probes : p.timer \in armed
    /\ \A t \in Nodes : deadline[t] # NoTimer => deadline[t] \in armed
    /\ \A p, q \in probes : p.timer = q.timer => p = q
    /\ \A p \in probes, t \in Nodes : p.timer # deadline[t]
    /\ \A t, u \in Nodes : deadline[t] = deadline[u] /\ deadline[t] # NoTimer => t = u

\* A death that a timer pronounces was that member's own deadline: the token of
\* an earlier, refuted suspicion never cuts a later one short
\* (handle_suspicion_timer compares the exact token).
DeathOnlyOnItsOwnDeadline ==
    \A t \in Peers :
       (/\ rep.members[t].state # "Dead" /\ rep'.members[t].state = "Dead"
        /\ armed' \cup late' # armed \cup late)
       => deadline[t] \in armed /\ deadline[t] \notin armed'

\* A verdict is passed only when every intermediary asked has failed, when none
\* could be asked, or when the indirect deadline passed: one intermediary does
\* not push a member into suspicion by itself.
VerdictNeedsAllHelpers ==
    \A p \in probes :
       (/\ rep.members[p.target].state = "Alive"
        /\ rep'.members[p.target].state = "Suspected"
        /\ p \notin probes'
        /\ p.timer \in late')
       => Cardinality(p.helpers \ p.answered) <= 1

\* A verdict falls on the very evidence that was probed: a member whose
\* incarnation has moved past the probe's is not suspected by it, and one that
\* was removed and came back at an older incarnation is not pushed forward by a
\* probe of its earlier life.
VerdictRespectsRefutation ==
    \A t \in Peers :
       (deadline'[t] # deadline[t] /\ deadline'[t] # NoTimer)
       => /\ rep.members[t].state = "Alive"
          /\ rep'.members[t].inc = rep.members[t].inc
          /\ rep'.susp[t] = rep'.members[t].inc

\* The detector's suspicions and deaths rest on all the evidence asked for and on
\* nothing stale, whatever timers, reports and news come late or twice.
VerdictsRestOnEvidence ==
    [][DeathOnlyOnItsOwnDeadline /\ VerdictNeedsAllHelpers /\ VerdictRespectsRefutation]_vars
=============================================================================
