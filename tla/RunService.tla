----------------------------- MODULE RunService -----------------------------
(***************************************************************************)
(* How one worker loads a workload and runs it on behalf of clients that   *)
(* may lose any reply.                                                     *)
(*                                                                         *)
(* Six parties interleave: the detached load job and the detached command  *)
(* job (one of each at most), the executor thread of every admitted run,   *)
(* the formation owner with its FIFO control lane, the disk under two      *)
(* receipt journals, and the outside world, which submits, shuts down,     *)
(* crashes the process and changes the formation under a run.              *)
(*                                                                         *)
(* A reservation of the execution slot is known by its serial.  Its fence  *)
(* is the cancellation flag every party shares; "cancelled" is the set of  *)
(* serials whose flag is up.                                               *)
(***************************************************************************)
EXTENDS Naturals, Sequences, FiniteSets

CONSTANTS
    LoadRequests,   \* complete load requests: [lane, id, form, what]
    RunCommands,    \* complete command requests: [lane, id, form, epoch, kind, at]
    MaxReceipts,    \* receipts a journal holds
    MaxTroubles     \* bound: crashes, shutdowns, revocations and failed writes in a behaviour

Requests == LoadRequests \cup RunCommands
KeyOf(r) == <<r.lane, r.form, r.id>>
Keys == {KeyOf(r) : r \in Requests}
Lanes == {"load", "cmd"}
Serials == 1..Cardinality(LoadRequests)

ASSUME RequestsAssumption ==
    /\ IsFiniteSet(LoadRequests)
    /\ \A r \in LoadRequests : r.lane = "load" /\ r.form \in Nat
    /\ \A r \in RunCommands : r.lane = "cmd" /\ r.kind \in {"step", "finish"}
ASSUME BoundsAssumption ==
    MaxReceipts \in Nat /\ MaxTroubles \in Nat

VARIABLES
    disk,       \* per key, the durable receipt; what a healthy journal also has in memory
    poisoned,   \* lanes whose journal saw a failed write
    done,       \* history: requests whose effect the owner published
    form,       \* the formation the worker is in
    eligible,   \* may the owner run work: standalone, alone, locked, not joining
    slot,       \* the owner's execution slot
    next,       \* [serial, epoch]: last ones issued by this process
    lane,       \* the owner's control lane
    cancelled,  \* serials whose fence is revoked
    closed,     \* the coordinators are shut down
    retained,   \* serial of the run the load coordinator retains, or 0
    load,       \* the load job
    cmd,        \* the command job
    exec,       \* per serial, the reservation's holder
    budget      \* troubles left

journalVars == <<disk, poisoned, done>>
ownerVars == <<form, eligible, slot, next, lane>>
hostVars == <<closed, retained>>
vars == <<disk, poisoned, done, form, eligible, slot, next, lane, cancelled,
          closed, retained, load, cmd, exec, budget>>

C == INSTANCE ReceiptContract WITH log <- disk

None == [at |-> 0, stopped |-> FALSE, here |-> FALSE]
View(n, s) == [at |-> n, stopped |-> s, here |-> TRUE]
EmptySlot == [active |-> 0, confirmed |-> FALSE, epoch |-> 0, run |-> None]
NoRequest == [lane |-> "none"]
IdleJob == [pc |-> "idle", req |-> NoRequest, serial |-> 0, outcome |-> "none"]
Vacant == [pc |-> "off", form |-> 0, epoch |-> 0, view |-> None, next |-> None, req |-> NoRequest]

Init ==
    /\ disk = [k \in Keys |-> C!Absent]
    /\ poisoned = {}
    /\ done = {}
    /\ form = 1
    /\ eligible = FALSE
    /\ slot = EmptySlot
    /\ next = [serial |-> 0, epoch |-> 0]
    /\ lane = <<>>
    /\ cancelled = {}
    /\ closed = FALSE
    /\ retained = 0
    /\ load = IdleJob
    /\ cmd = IdleJob
    /\ exec = [s \in Serials |-> Vacant]
    /\ budget = MaxTroubles

-----------------------------------------------------------------------------
(* The receipt journals.                                                   *)

Trouble == budget > 0 /\ budget' = budget - 1

\* ReceiptJournal::replace and write: stage, sync, rename, sync the directory.
\* A failure poisons the instance, and says nothing of which snapshot survives.
Replaced(to) == disk' = to /\ UNCHANGED <<poisoned, budget>>

ReplaceFails(l, to) ==
    /\ Trouble
    /\ poisoned' = poisoned \cup {l}
    /\ disk' \in {disk, to}

\* lookup: nothing under this key.  A replay or a conflict changes nothing.
Unused(r) == disk[KeyOf(r)] = C!Absent

\* Requests that differ in their ID alone are used in the order of their IDs.
InOrder(r, all) == \A q \in all : q.id < r.id => ~Unused(q)

Full(l) == Cardinality({k \in Keys : k[1] = l /\ disk[k] # C!Absent}) >= MaxReceipts

With(r, s) == [disk EXCEPT ![KeyOf(r)] = C!Receipt(r, s)]

\* A record or snapshot that cannot be encoded within the byte limit is not written;
\* the journal stays healthy, as it was.
NotWritten == Trouble /\ UNCHANGED <<disk, poisoned>>

\* ReceiptJournal::begin.
Begins(r) == ~Full(r.lane) /\ Replaced(With(r, "pending"))
BeginFails(r) ==
    \/ ~Full(r.lane) /\ (ReplaceFails(r.lane, With(r, "pending")) \/ NotWritten)
    \/ Full(r.lane) /\ UNCHANGED <<disk, poisoned, budget>>

\* ReceiptJournal::finish; a receipt that is not written stays pending.
Finishes(r, s) == Replaced(With(r, s)) \/ ReplaceFails(r.lane, With(r, s)) \/ NotWritten

\* ReceiptJournal::open after a crash: intent that never finished is uncertain.
Recovered == [k \in Keys |-> IF disk[k].st = "pending"
                             THEN C!Receipt(disk[k].req, "indeterminate")
                             ELSE disk[k]]

-----------------------------------------------------------------------------
(* Fences.                                                                 *)

\* Owner::check_execution_fence.
FenceHolds(s) ==
    /\ eligible
    /\ s \notin cancelled
    /\ slot.active = s
    /\ exec[s].form = form

\* RunHandle::view: the run is current and the owner shows a boundary of it.
Live(s) ==
    /\ s # 0
    /\ s \notin cancelled
    /\ slot.active = s
    /\ slot.run.here

Send(m) == lane' = Append(lane, m)

Publish(s, r, v) ==
    Send([t |-> "publish", req |-> r, serial |-> s, epoch |-> exec[s].epoch, run |-> v])

-----------------------------------------------------------------------------
(* The load job.                                                           *)

LoadAt(p) == load.pc = p
LoadGoes(p) == load' = [load EXCEPT !.pc = p]
LoadEnds(s) == load' = [load EXCEPT !.pc = "finish", !.outcome = s]

\* A holder on its way out keeps nothing but its guest and its lease.
Left(s, p) == [Vacant EXCEPT !.pc = p, !.form = exec[s].form]

\* A failed admission disposes of its guest, then of its lease, then answers.
LoadDrops(s, outcome) ==
    /\ load' = [load EXCEPT !.pc = "drop", !.outcome = outcome]
    /\ exec' = [exec EXCEPT ![s] = Left(s, IF @.pc = "leased" THEN "disposed" ELSE "dropping")]

\* LoadCoordinator::submit under the lifecycle lock: replay and conflict first,
\* one job at a time, and a run that is no longer usable is let go of.
SubmitLoad(r) ==
    /\ LoadAt("idle") /\ ~closed /\ "load" \notin poisoned
    /\ r.form <= form
    /\ Unused(r) /\ InOrder(r, LoadRequests)
    /\ ~Live(retained)
    /\ load' = [IdleJob EXCEPT !.pc = "begin", !.req = r]
    /\ retained' = 0
    /\ cancelled' = cancelled \cup ({retained} \ {0})
    /\ UNCHANGED <<journalVars, ownerVars, closed, cmd, exec, budget>>

\* Intent is durable before the owner, the body or a guest is touched.
LoadBegin ==
    /\ LoadAt("begin")
    /\ \/ Begins(load.req) /\ LoadGoes("prepare")
       \/ BeginFails(load.req) /\ load' = IdleJob
    /\ UNCHANGED <<done, ownerVars, cancelled, hostVars, cmd, exec>>

\* AdmissionService::prepare: check the operation's control, take the permits,
\* ask for the slot.
LoadPrepare ==
    /\ LoadAt("prepare")
    /\ \/ LoadEnds("refused") /\ UNCHANGED lane
       \/ ~closed /\ LoadGoes("reserving") /\ Send([t |-> "reserve", req |-> load.req])
    /\ UNCHANGED <<journalVars, form, eligible, slot, next, cancelled, hostVars, cmd, exec, budget>>

\* receive and validate_input up to the allocation: delivery, closure, digest,
\* denial and cancellation all refuse.
LoadReceive ==
    /\ LoadAt("receive")
    /\ \/ LoadDrops(load.serial, "refused") /\ UNCHANGED lane
       \/ /\ ~closed /\ load.serial \notin cancelled
          /\ LoadGoes("allocating")
          /\ Send([t |-> "allocate", req |-> load.req, serial |-> load.serial])
          /\ UNCHANGED exec
    /\ UNCHANGED <<journalVars, form, eligible, slot, next, cancelled, hostVars, cmd, budget>>

\* orishu_runtime::admit builds the guest, confirm asks the owner for a last word.
LoadAdmit ==
    /\ LoadAt("admit")
    /\ \/ LoadDrops(load.serial, "refused") /\ UNCHANGED lane
       \/ /\ ~closed /\ load.serial \notin cancelled
          /\ LoadGoes("confirming")
          /\ Send([t |-> "confirm", req |-> load.req, serial |-> load.serial,
                   epoch |-> exec[load.serial].epoch])
          /\ UNCHANGED exec
    /\ UNCHANGED <<journalVars, form, eligible, slot, next, cancelled, hostVars, cmd, budget>>

\* COORDINATION_TIMEOUT: the owner's answer will find nobody waiting.
LoadGivesUp ==
    /\ \/ LoadAt("reserving") /\ LoadEnds("refused") /\ UNCHANGED exec
       \/ load.pc \in {"allocating", "confirming"} /\ LoadDrops(load.serial, "refused")
    /\ UNCHANGED <<journalVars, ownerVars, cancelled, hostVars, cmd, budget>>

\* ValidatedAdmission::start: hand guest and lease to an executor, which
\* publishes boundary zero.  Every error from here on is "indeterminate".
LoadStart ==
    /\ LoadAt("start")
    /\ \/ LoadDrops(load.serial, "indeterminate") /\ UNCHANGED lane
       \/ /\ ~closed /\ load.serial \notin cancelled
          /\ LoadGoes("starting")
          /\ exec' = [exec EXCEPT ![load.serial].pc = "publishing", ![load.serial].req = load.req,
                                  ![load.serial].next = View(0, FALSE)]
          /\ Publish(load.serial, load.req, View(0, FALSE))
    /\ UNCHANGED <<journalVars, form, eligible, slot, next, cancelled, hostVars, cmd, budget>>

\* State::retain.
LoadRetain ==
    /\ LoadAt("retain")
    /\ LoadEnds("applied")
    /\ IF closed
       THEN cancelled' = cancelled \cup {load.serial} /\ UNCHANGED retained
       ELSE retained' = load.serial /\ UNCHANGED cancelled
    /\ UNCHANGED <<journalVars, ownerVars, closed, cmd, exec, budget>>

LoadDropped ==
    /\ LoadAt("drop")
    /\ exec[load.serial].pc = "gone"
    /\ LoadGoes("finish")
    /\ UNCHANGED <<journalVars, ownerVars, cancelled, hostVars, cmd, exec, budget>>

LoadFinish ==
    /\ LoadAt("finish")
    /\ Finishes(load.req, load.outcome)
    /\ load' = IdleJob
    /\ UNCHANGED <<done, ownerVars, cancelled, hostVars, cmd, exec>>

LoadStep == \/ LoadBegin \/ LoadPrepare \/ LoadReceive \/ LoadAdmit \/ LoadGivesUp
            \/ LoadStart \/ LoadRetain \/ LoadDropped \/ LoadFinish

-----------------------------------------------------------------------------
(* The command job.                                                        *)

CmdAt(p) == cmd.pc = p
CmdEnds(s) == cmd' = [cmd EXCEPT !.pc = "finish", !.outcome = s]

\* RunCommandCoordinator::submit.  A client names a run it has heard of.
SubmitCommand(r) ==
    /\ CmdAt("idle") /\ ~closed /\ "cmd" \notin poisoned
    /\ \/ r.form < form
       \/ r.form = form /\ r.epoch <= next.epoch
    /\ Unused(r) /\ InOrder(r, RunCommands)
    /\ cmd' = [IdleJob EXCEPT !.pc = "begin", !.req = r]
    /\ UNCHANGED <<journalVars, ownerVars, cancelled, hostVars, load, exec, budget>>

CmdBegin ==
    /\ CmdAt("begin")
    /\ \/ Begins(cmd.req) /\ cmd' = [cmd EXCEPT !.pc = "apply"]
       \/ BeginFails(cmd.req) /\ cmd' = IdleJob
    /\ UNCHANGED <<done, ownerVars, cancelled, hostVars, load, exec>>

\* LoadCoordinator::run: only the exact retained execution, and only while live.
IsRun(s, r) == Live(s) /\ exec[s].form = r.form /\ exec[s].epoch = r.epoch

\* apply: the control is checked, then the handle is looked up.
CmdApply ==
    /\ CmdAt("apply")
    /\ \/ CmdEnds("refused")
       \/ /\ ~closed /\ IsRun(retained, cmd.req)
          /\ cmd' = [cmd EXCEPT !.pc = "send", !.serial = retained]
    /\ UNCHANGED <<journalVars, ownerVars, cancelled, hostVars, load, exec, budget>>

\* rejected: RunError::Closed and RunError::Publication may follow an effect
\* that happened, everything else precedes it.
Rejected_LostIsRefused(error) == IF error = "closed" THEN "indeterminate" ELSE "refused"
Rejected(error) == IF error \in {"closed", "publication"} THEN "indeterminate" ELSE "refused"

\* step_at and stop_at: a control check, then RunHandle::submit into the
\* executor's one-command channel.  The fence may fall between the two.
CmdSend ==
    /\ CmdAt("send")
    /\ LET s == cmd.serial IN
       \/ CmdEnds(Rejected("interrupted")) /\ UNCHANGED exec
       \/ s \in cancelled /\ CmdEnds(Rejected("closed")) /\ UNCHANGED exec
       \/ /\ s \notin cancelled /\ exec[s].pc = "idle"
          /\ exec' = [exec EXCEPT ![s].pc = "queued", ![s].req = cmd.req]
          /\ cmd' = [cmd EXCEPT !.pc = "wait"]
    /\ UNCHANGED <<journalVars, ownerVars, cancelled, hostVars, load, budget>>

CmdFinish ==
    /\ CmdAt("finish")
    /\ Finishes(cmd.req, cmd.outcome)
    /\ cmd' = IdleJob
    /\ UNCHANGED <<done, ownerVars, cancelled, hostVars, load, exec>>

CmdStep == CmdBegin \/ CmdApply \/ CmdSend \/ CmdFinish

-----------------------------------------------------------------------------
(* The executor of a run: ValidatedAdmission::serve.                       *)

\* The answer reaches the command job: it waits without a deadline.
Answer(outcome) == cmd' = [cmd EXCEPT !.pc = "finish", !.outcome = outcome]

\* Between commands, at a committed state.
Resting(s, v) == [exec[s] EXCEPT !.pc = "idle", !.view = v, !.next = None, !.req = NoRequest]

\* The boundary a command would publish.
Candidate(s, r) ==
    IF r.kind = "step" THEN View(exec[s].view.at + 1, FALSE) ELSE View(exec[s].view.at, TRUE)

\* check_boundary, then step_owned or stop_owned up to the publication.  The
\* first disjunct is no control slot left, an expired or cancelled control, or
\* a guest that fails: nothing was published.
ExecTake_AnyBoundary(s) ==
    LET r == exec[s].req
        at == exec[s].view.at
        stopped == exec[s].view.stopped
    IN
    /\ exec[s].pc = "queued" /\ s \notin cancelled
    /\ \/ /\ Answer(Rejected("scientific"))
          /\ exec' = [exec EXCEPT ![s] = Resting(s, exec[s].view)]
          /\ UNCHANGED <<lane, done>>
       \/ /\ ~stopped
          /\ exec' = [exec EXCEPT ![s].pc = "publishing", ![s].next = Candidate(s, r)]
          /\ Publish(s, r, Candidate(s, r))
          /\ UNCHANGED <<cmd, done>>
       \/ /\ r.at = at /\ stopped /\ r.kind = "finish"
          /\ Answer("applied")
          /\ done' = done \cup {r}
          /\ exec' = [exec EXCEPT ![s] = Resting(s, exec[s].view)]
          /\ UNCHANGED lane
    /\ UNCHANGED <<disk, poisoned, form, eligible, slot, next, cancelled, hostVars, load, budget>>

ExecTake(s) ==
    LET r == exec[s].req
        at == exec[s].view.at
        stopped == exec[s].view.stopped
    IN
    /\ exec[s].pc = "queued" /\ s \notin cancelled
    /\ \/ /\ Answer(Rejected("scientific"))
          /\ exec' = [exec EXCEPT ![s] = Resting(s, exec[s].view)]
          /\ UNCHANGED <<lane, done>>
       \/ /\ r.at = at /\ ~stopped
          /\ exec' = [exec EXCEPT ![s].pc = "publishing", ![s].next = Candidate(s, r)]
          /\ Publish(s, r, Candidate(s, r))
          /\ UNCHANGED <<cmd, done>>
       \/ /\ r.at = at /\ stopped /\ r.kind = "finish"
          /\ Answer("applied")
          /\ done' = done \cup {r}
          /\ exec' = [exec EXCEPT ![s] = Resting(s, exec[s].view)]
          /\ UNCHANGED lane
    /\ UNCHANGED <<disk, poisoned, form, eligible, slot, next, cancelled, hostVars, load, budget>>

\* PUBLICATION_WAIT passes; the message is still in the lane.
ExecTimeout(s) ==
    /\ exec[s].pc = "publishing"
    /\ exec' = [exec EXCEPT ![s].pc = "lost"]
    /\ UNCHANGED <<journalVars, ownerVars, cancelled, hostVars, load, cmd, budget>>

\* The owner accepted: the private state follows the published one, and the
\* executor answers.  The first publication answers the load job's start.
ExecCommit(s) ==
    /\ exec[s].pc = "accepted"
    /\ exec' = [exec EXCEPT ![s] = Resting(s, exec[s].next)]
    /\ IF exec[s].req.lane = "load"
       THEN LoadGoes("retain") /\ UNCHANGED cmd
       ELSE Answer("applied") /\ UNCHANGED load
    /\ UNCHANGED <<journalVars, ownerVars, cancelled, hostVars, budget>>

\* RunError::Publication: the fence falls before anybody is told, so that the
\* owner can no longer accept what is reported as uncertain.
ExecAbort_Continues(s) ==
    /\ exec[s].pc \in {"lost", "rejected"}
    /\ UNCHANGED cancelled
    /\ exec' = [exec EXCEPT ![s] = Resting(s, exec[s].view)]
    /\ IF exec[s].req.lane = "load"
       THEN LoadEnds("indeterminate") /\ UNCHANGED cmd
       ELSE Answer(Rejected("publication")) /\ UNCHANGED load
    /\ UNCHANGED <<journalVars, ownerVars, hostVars, budget>>

ExecAbort(s) ==
    /\ exec[s].pc \in {"lost", "rejected"}
    /\ cancelled' = cancelled \cup {s}
    /\ exec' = [exec EXCEPT ![s] = Left(s, "dropping")]
    /\ IF exec[s].req.lane = "load"
       THEN LoadEnds("indeterminate") /\ UNCHANGED cmd
       ELSE Answer(Rejected("publication")) /\ UNCHANGED load
    /\ UNCHANGED <<journalVars, ownerVars, hostVars, budget>>

\* The serve loop ends once the fence is gone; a queued command is dropped with
\* its channel, and its sender sees the reply disappear.
ExecLeave_KeepsChannel(s) ==
    /\ exec[s].pc \in {"idle", "queued"} /\ s \in cancelled
    /\ exec' = [exec EXCEPT ![s] = Left(s, "dropping")]
    /\ UNCHANGED cmd
    /\ UNCHANGED <<journalVars, ownerVars, cancelled, hostVars, load, budget>>

ExecLeave(s) ==
    /\ exec[s].pc \in {"idle", "queued"} /\ s \in cancelled
    /\ exec' = [exec EXCEPT ![s] = Left(s, "dropping")]
    /\ IF exec[s].pc = "queued" THEN Answer(Rejected("closed")) ELSE UNCHANGED cmd
    /\ UNCHANGED <<journalVars, ownerVars, cancelled, hostVars, load, budget>>

\* Drop order of AdmissionCandidate and ValidatedAdmission: the guest first...
Dispose(s) ==
    /\ exec[s].pc = "dropping"
    /\ exec' = [exec EXCEPT ![s].pc = "disposed"]
    /\ UNCHANGED <<journalVars, ownerVars, cancelled, hostVars, load, cmd, budget>>

\* ... then the lease, whose drop raises the flag and tells the owner.
DropLease_Untold(s) ==
    /\ exec[s].pc = "disposed"
    /\ exec' = [exec EXCEPT ![s].pc = "gone"]
    /\ cancelled' = cancelled \cup {s}
    /\ UNCHANGED lane
    /\ UNCHANGED <<journalVars, form, eligible, slot, next, hostVars, load, cmd, budget>>

DropLease(s) ==
    /\ exec[s].pc = "disposed"
    /\ exec' = [exec EXCEPT ![s].pc = "gone"]
    /\ cancelled' = cancelled \cup {s}
    /\ Send([t |-> "release", serial |-> s])
    /\ UNCHANGED <<journalVars, form, eligible, slot, next, hostVars, load, cmd, budget>>

ExecStep(s) == \/ ExecTake(s) \/ ExecTimeout(s) \/ ExecCommit(s) \/ ExecAbort(s)
               \/ ExecLeave(s) \/ Dispose(s) \/ DropLease(s)

-----------------------------------------------------------------------------
(* The formation owner's control turns, in lane order.                     *)

Waiting(p, m) == LoadAt(p) /\ load.req = m.req

\* reserve_execution.  A lease nobody is waiting for is dropped on the spot.
OwnerReserve(m) ==
    /\ m.t = "reserve"
    /\ IF eligible /\ slot.active = 0 /\ m.req.form = form
       THEN LET s == next.serial + 1 IN
            /\ next' = [next EXCEPT !.serial = s]
            /\ slot' = [EmptySlot EXCEPT !.active = s]
            /\ IF Waiting("reserving", m)
               THEN /\ load' = [load EXCEPT !.pc = "receive", !.serial = s]
                    /\ exec' = [exec EXCEPT ![s] = [Vacant EXCEPT !.pc = "leased", !.form = form]]
                    /\ lane' = Tail(lane)
                    /\ UNCHANGED cancelled
               ELSE /\ exec' = [exec EXCEPT ![s] = [Vacant EXCEPT !.pc = "gone", !.form = form]]
                    /\ cancelled' = cancelled \cup {s}
                    /\ lane' = Append(Tail(lane), [t |-> "release", serial |-> s])
                    /\ UNCHANGED load
       ELSE /\ load' = IF Waiting("reserving", m)
                       THEN [load EXCEPT !.pc = "finish", !.outcome = "refused"] ELSE load
            /\ lane' = Tail(lane)
            /\ UNCHANGED <<next, slot, exec, cancelled>>
    /\ UNCHANGED <<disk, poisoned, done, cmd>>

\* allocate_run: an epoch this process never issued before, pinned to the lease.
OwnerAllocate(m) ==
    /\ m.t = "allocate"
    /\ lane' = Tail(lane)
    /\ \/ /\ FenceHolds(m.serial)
          /\ next' = [next EXCEPT !.epoch = @ + 1]
          /\ slot' = [slot EXCEPT !.epoch = next.epoch + 1]
          /\ IF Waiting("allocating", m)
             THEN /\ load' = [load EXCEPT !.pc = "admit"]
                  /\ exec' = [exec EXCEPT ![m.serial].pc = "built",
                                          ![m.serial].epoch = next.epoch + 1]
             ELSE UNCHANGED <<load, exec>>
       \/ /\ IF Waiting("allocating", m) THEN LoadDrops(m.serial, "refused")
                                         ELSE UNCHANGED <<load, exec>>
          /\ UNCHANGED <<next, slot>>
    /\ UNCHANGED <<disk, poisoned, done, cancelled, cmd>>

\* confirm_admission.
OwnerConfirm(m) ==
    /\ m.t = "confirm"
    /\ lane' = Tail(lane)
    /\ \/ /\ FenceHolds(m.serial) /\ slot.epoch = m.epoch /\ ~slot.confirmed
          /\ slot' = [slot EXCEPT !.confirmed = TRUE]
          /\ IF Waiting("confirming", m) THEN load' = [load EXCEPT !.pc = "start"]
                                         ELSE UNCHANGED load
          /\ UNCHANGED exec
       \/ /\ IF Waiting("confirming", m) THEN LoadDrops(m.serial, "refused")
                                         ELSE UNCHANGED <<load, exec>>
          /\ UNCHANGED slot
    /\ UNCHANGED <<disk, poisoned, done, next, cancelled, cmd>>

\* publish_run_boundary: boundary zero first, then one step at a time or a stop.
Publishable(m) ==
    /\ FenceHolds(m.serial)
    /\ slot.confirmed /\ slot.epoch = m.epoch
    /\ IF slot.run.here
       THEN /\ ~slot.run.stopped
            /\ m.run.at = IF m.run.stopped THEN slot.run.at ELSE slot.run.at + 1
       ELSE m.run = View(0, FALSE)

OwnerPublish(m) ==
    /\ m.t = "publish"
    /\ lane' = Tail(lane)
    /\ \/ /\ Publishable(m)
          /\ slot' = [slot EXCEPT !.run = m.run]
          /\ done' = done \cup {m.req}
          /\ exec' = [exec EXCEPT ![m.serial].pc = IF @ = "publishing" THEN "accepted" ELSE @]
       \/ /\ exec' = [exec EXCEPT ![m.serial].pc = IF @ = "publishing" THEN "rejected" ELSE @]
          /\ UNCHANGED <<slot, done>>
    /\ UNCHANGED <<disk, poisoned, next, cancelled, load, cmd>>

\* Slot::release: only the active reservation is released.
OwnerRelease(m) ==
    /\ m.t = "release"
    /\ lane' = Tail(lane)
    /\ slot' = IF slot.active = m.serial THEN EmptySlot ELSE slot
    /\ UNCHANGED <<disk, poisoned, done, next, cancelled, load, cmd, exec>>

OwnerTurn ==
    /\ lane # <<>>
    /\ LET m == Head(lane) IN
       OwnerReserve(m) \/ OwnerAllocate(m) \/ OwnerConfirm(m) \/ OwnerPublish(m) \/ OwnerRelease(m)
    /\ UNCHANGED <<form, eligible, hostVars, budget>>

-----------------------------------------------------------------------------
(* The world.                                                              *)

\* The formation becomes one a run is allowed in.
Permit ==
    /\ ~eligible
    /\ eligible' = TRUE
    /\ UNCHANGED <<journalVars, form, slot, next, lane, cancelled, hostVars, load, cmd, exec, budget>>

\* reconcile_execution and the identity change of Owner::apply: the fence falls
\* and the view is withdrawn; the slot stays taken until its holder lets go.
Revoke_Frees ==
    /\ Trouble
    /\ eligible
    /\ eligible' = FALSE
    /\ form' \in {form, form + 1}
    /\ cancelled' = cancelled \cup ({slot.active} \ {0})
    /\ slot' = EmptySlot
    /\ UNCHANGED <<journalVars, next, lane, hostVars, load, cmd, exec>>

Revoke ==
    /\ Trouble
    /\ eligible
    /\ eligible' = FALSE
    /\ form' \in {form, form + 1}
    /\ cancelled' = cancelled \cup ({slot.active} \ {0})
    /\ slot' = [slot EXCEPT !.run = None]
    /\ UNCHANGED <<journalVars, next, lane, hostVars, load, cmd, exec>>

\* Both coordinators close; the retained run is unloaded.
Shutdown ==
    /\ Trouble
    /\ ~closed
    /\ closed' = TRUE
    /\ cancelled' = cancelled \cup ({retained} \ {0})
    /\ retained' = 0
    /\ UNCHANGED <<journalVars, ownerVars, load, cmd, exec>>

\* The process dies and starts again, in a formation of its own, with what is on disk.
Crash ==
    /\ Trouble
    /\ form' = form + 1
    /\ disk' = Recovered
    /\ poisoned' = {}
    /\ eligible' = FALSE
    /\ slot' = EmptySlot
    /\ next' = [serial |-> 0, epoch |-> 0]
    /\ lane' = <<>>
    /\ cancelled' = {}
    /\ closed' = FALSE
    /\ retained' = 0
    /\ load' = IdleJob
    /\ cmd' = IdleJob
    /\ exec' = [s \in Serials |-> Vacant]
    /\ UNCHANGED done

RunStep == OwnerTurn \/ \E s \in Serials : ExecStep(s)

Next ==
    \/ \E r \in LoadRequests : SubmitLoad(r)
    \/ \E r \in RunCommands : SubmitCommand(r)
    \/ LoadStep \/ CmdStep \/ RunStep
    \/ Permit \/ Revoke \/ Shutdown \/ Crash

Spec == Init /\ [][Next]_vars

\* Tokio runs spawned jobs, blocking threads and the owner task; guest work,
\* deliveries and waits all have deadlines.  Nothing is
\* assumed of clients, who may stop, or retry for ever.
FairSpec == Spec /\ WF_vars(LoadStep) /\ WF_vars(RunStep)

-----------------------------------------------------------------------------
(* Properties.                                                             *)

TypeOK ==
    /\ disk \in [Keys -> {C!Absent} \cup {C!Receipt(r, s) : r \in Requests,
                                           s \in C!Outcomes \cup {"pending"}}]
    /\ poisoned \subseteq Lanes
    /\ done \subseteq Requests
    /\ form \in 1..(1 + MaxTroubles)
    /\ slot.active \in Serials \cup {0}
    /\ next.serial \in 0..Cardinality(LoadRequests)
    /\ cancelled \subseteq Serials
    /\ retained \in Serials \cup {0}

\* No worker ever holds two guests at once: a revoked run keeps the slot until
\* its guest is gone, so the next admission is refused rather than overlapped.
OneRuntime ==
    Cardinality({s \in Serials : exec[s].pc \in {"built", "publishing", "lost", "accepted",
                                  "rejected", "idle", "queued", "dropping"}}) <= 1

\* Whenever the executor is between commands and its fence stands, what the
\* owner shows to readers is exactly the executor's private committed state.
PublishedIsCommitted ==
    \A s \in Serials : exec[s].pc \in {"idle", "queued"} /\ Live(s)
                       => slot.run = exec[s].view

\* Two identified steps never both advance a run from the same boundary.
OneStepPerBoundary ==
    \A r, q \in done : (r # q /\ r.lane = "cmd" /\ q.lane = "cmd"
                        /\ r.kind = "step" /\ q.kind = "step"
                        /\ r.form = q.form /\ r.epoch = q.epoch) => r.at # q.at

\* The journals keep the promise of ReceiptContract, whatever crashes, fails,
\* is revoked or times out.
ReceiptsAreHonest == C!ContractSpec

\* A command job always comes to an end, although it waits for its executor
\* without a deadline.
CommandsEnd == CmdAt("wait") ~> ~CmdAt("wait")

\* A slot whose run was revoked is always given back.
RevokedSlotIsReleased == slot.active \in cancelled ~> slot.active \notin cancelled

=============================================================================
