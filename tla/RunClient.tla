------------------------------ MODULE RunClient ------------------------------
(***************************************************************************)
(* Kagami's run controller: it records every submission and every command  *)
(* before sending it, so that after a lost reply or a restart the same     *)
(* operation is asked about again instead of a new one being tried.        *)
(*                                                                         *)
(* The window thread starts one job at a time.  The job writes the intent  *)
(* journal, talks to the worker and writes the journal again; the window   *)
(* adopts the result when it polls.  The worker is the contract that       *)
(* RunService implements.  A request once sent may reach it at any later   *)
(* time, any number of times, or never: replies are lost, the user sends   *)
(* the original again, and old connections linger.                         *)
(***************************************************************************)
EXTENDS Naturals, FiniteSets

CONSTANTS
    LoadOps,        \* submissions this client may issue: [lane, id, work]
    CommandOps,     \* commands this client may issue: [lane, id]
    Works,          \* workloads, named by their digest
    MaxTroubles     \* bound: failed writes and crashes of either side

Requests == LoadOps \cup CommandOps
KeyOf(r) == <<r.lane, r.id>>
Keys == {KeyOf(r) : r \in Requests}

ASSUME OpsAssumption ==
    /\ \A r \in LoadOps : r.lane = "load" /\ r.work \in Works
    /\ \A r \in CommandOps : r.lane = "cmd"
    /\ MaxTroubles \in Nat

VARIABLES
    log, done,  \* the worker: ReceiptContract
    sent,       \* requests that were ever handed to the network
    ledger,     \* the journal's ledger in memory: an intent per lane
    saved,      \* the ledger on disk
    bundles,    \* workloads whose bytes are on disk
    poisoned,   \* a ledger write failed after its result could be visible
    job,        \* the one job thread
    window,     \* what the window shows: the ledger it adopted, and its view
    budget      \* troubles left

workerVars == <<log, done>>
journalVars == <<ledger, saved, bundles, poisoned>>
vars == <<log, done, sent, ledger, saved, bundles, poisoned, job, window, budget>>

C == INSTANCE ReceiptContract

NoIntent == [req |-> [lane |-> "none"], receipt |-> "none"]
Empty == [load |-> NoIntent, cmd |-> NoIntent]
NoJob == [pc |-> "none"]
Authoring == [selected |-> FALSE, objects |-> FALSE, attached |-> FALSE]

\* "none" is no reply yet, or a worker that has no record of the operation.
Receipts == {"none", "pending"} \cup C!Outcomes

Final(s) == s \in {"applied", "refused"}

Init ==
    /\ C!ContractInit
    /\ sent = {}
    /\ ledger = Empty
    /\ saved = Empty
    /\ bundles = {}
    /\ poisoned = FALSE
    /\ job = NoJob
    /\ window = [load |-> NoIntent, cmd |-> NoIntent, blocked |-> FALSE, view |-> Authoring,
                 wants |-> "document"]
    /\ budget = MaxTroubles

Trouble == budget > 0 /\ budget' = budget - 1

-----------------------------------------------------------------------------
(* The intent journal.                                                     *)

\* needed_bundle: only an unresolved upload keeps its bytes.
Needed(l) == IF l.load # NoIntent /\ ~Final(l.load.receipt) THEN {l.load.req.work} ELSE {}

\* Ledger::begin_load and begin_command.
Begun(r) == [ledger EXCEPT ![r.lane] = [req |-> r, receipt |-> "none"]]

Recorded_ForgetsAbsent(r, s) ==
    IF r.lane = "cmd" /\ (Final(s) \/ s = "none") THEN [ledger EXCEPT !.cmd = NoIntent]
                                                 ELSE [ledger EXCEPT ![r.lane].receipt = s]

\* Ledger::record_load keeps a final submission, record_command forgets a final command.
Recorded(r, s) ==
    IF r.lane = "cmd" /\ Final(s) THEN [ledger EXCEPT !.cmd = NoIntent]
                                  ELSE [ledger EXCEPT ![r.lane].receipt = s]

\* record_load refuses to change a final receipt.
Acceptable(r, s) ==
    /\ ledger[r.lane].req = r
    /\ Final(ledger[r.lane].receipt) => s = ledger[r.lane].receipt

\* Journal::commit: adopt the next ledger once it is durable.
Commits(next) == ledger' = next /\ saved' = next /\ UNCHANGED <<poisoned, budget>>

\* A failure before the rename changes nothing; a later one leaves the disk unknown.
CommitFails(next) ==
    /\ Trouble
    /\ \/ UNCHANGED <<saved, poisoned>>
       \/ saved' \in {saved, next} /\ poisoned' = TRUE
    /\ UNCHANGED ledger

-----------------------------------------------------------------------------
(* The window starts jobs.                                                 *)

Ready == job = NoJob
Recording == ~window.blocked
\* Operation IDs are random, so a fresh one was never used.
Unissued(r) == r \notin sent /\ ledger[r.lane].req # r /\ saved[r.lane].req # r

Op(r, pc, lookup) == [pc |-> pc, req |-> r, lookup |-> lookup, stale |-> FALSE, reply |-> "lost"]
Read(what) == [pc |-> "read", what |-> what, stale |-> FALSE]

\* Controller::submit: a fresh operation ID, after check_submit.
Submit(r) ==
    /\ Ready /\ Recording
    /\ ~window.view.attached
    /\ window.cmd = NoIntent /\ window.load = NoIntent
    /\ Unissued(r)
    /\ job' = Op(r, "begin", FALSE)
    /\ window' = [window EXCEPT !.load = [req |-> r, receipt |-> "none"], !.view = Authoring]
    /\ UNCHANGED <<workerVars, sent, journalVars, budget>>

\* Action::Step and Action::Finish: a fresh operation ID on the observed run.
Command(r) ==
    /\ Ready /\ Recording
    /\ window.view.attached /\ window.view.objects
    /\ window.cmd = NoIntent
    /\ Unissued(r)
    /\ job' = Op(r, "begin", FALSE)
    /\ UNCHANGED <<workerVars, sent, journalVars, window, budget>>

\* Reconcile, ResubmitOriginal, ReconcileLoad, ResubmitLoad: the same request again.
Again(l, lookup) ==
    /\ Ready /\ Recording
    /\ window[l] # NoIntent /\ ~Final(window[l].receipt)
    /\ job' = Op(window[l].req, "send", lookup)
    /\ UNCHANGED <<workerVars, sent, journalVars, window, budget>>

ClearLoad ==
    /\ Ready /\ Recording
    /\ ~window.view.attached
    /\ window.load # NoIntent /\ Final(window.load.receipt)
    /\ job' = [pc |-> "clear", stale |-> FALSE]
    /\ UNCHANGED <<workerVars, sent, journalVars, window, budget>>

\* Discover, InspectLoaded and Observe; only Observe asks to leave the document.
Inspect(what) ==
    /\ Ready
    /\ ~window.view.attached
    /\ window.cmd = NoIntent
    /\ window.load = NoIntent \/ Final(window.load.receipt)
    /\ what = "observe" => window.view.selected
    /\ job' = Read(what)
    /\ window' = [window EXCEPT !.wants = IF what = "observe" THEN "run" ELSE @]
    /\ UNCHANGED <<workerVars, sent, journalVars, budget>>

Refresh ==
    /\ Ready /\ window.view.attached
    /\ job' = Read("observe")
    /\ UNCHANGED <<workerVars, sent, journalVars, window, budget>>

\* Controller::detach, and Close while a read could still attach.
Detach ==
    /\ window' = [window EXCEPT !.view.attached = FALSE, !.view.objects = FALSE,
                                !.wants = "document"]
    /\ job' = IF Ready THEN job ELSE [job EXCEPT !.stale = TRUE]
    /\ UNCHANGED <<workerVars, sent, journalVars, budget>>

-----------------------------------------------------------------------------
(* The job thread: run_job and perform.                                    *)

Finishes(s) == job' = [job EXCEPT !.pc = "ended", !.reply = s]

\* begin_load writes the bytes, then the ledger; nothing is sent unless both last.
\* A poisoned journal or an occupied lane refuses, and the window, which mirrors
\* the journal, starts no job then (WindowIsCurrent).
JobBegin ==
    /\ job.pc = "begin"
    /\ ~poisoned /\ ledger[job.req.lane] = NoIntent
    /\ bundles' = bundles \cup Needed(Begun(job.req))
    /\ \/ Commits(Begun(job.req)) /\ job' = [job EXCEPT !.pc = "send"]
       \/ CommitFails(Begun(job.req)) /\ Finishes("lost")
    /\ UNCHANGED <<workerVars, sent, window>>

\* A request leaves, unless it is a lookup or there is no connection.
JobSend ==
    /\ job.pc = "send"
    /\ \/ Finishes("lost") /\ UNCHANGED sent
       \/ job' = [job EXCEPT !.pc = "await"] /\ sent' = IF job.lookup THEN sent ELSE sent \cup {job.req}
    /\ UNCHANGED <<workerVars, journalVars, window, budget>>

\* What the worker says of a request.  Its readers see a history that trails the
\* disk by one write.
Says(r) ==
    LET now == log[KeyOf(r)].st IN
    IF now = "absent" THEN {"none"}
    ELSE IF now = "pending" THEN {"none", "pending"}
    ELSE {"pending", now}

\* The answer arrives, or it does not.
JobReply ==
    /\ job.pc = "await"
    /\ \/ Finishes("lost")
       \/ \E s \in Says(job.req) : /\ s = "none" => job.lookup
                                   /\ job' = [job EXCEPT !.pc = "record", !.reply = s]
    /\ UNCHANGED <<workerVars, sent, journalVars, window, budget>>

JobRecord_ReleaseFirst ==
    /\ job.pc = "record"
    /\ job' = [job EXCEPT !.pc = "ended"]
    /\ LET next == Recorded(job.req, job.reply) IN
       /\ ~poisoned /\ Acceptable(job.req, job.reply)
       /\ bundles' = IF job.req.lane = "load" THEN bundles \cap Needed(next) ELSE bundles
       /\ Commits(next) \/ CommitFails(next)
    /\ UNCHANGED <<workerVars, sent, window>>

\* record_load and record_command; a final submission releases its bytes.
JobRecord ==
    /\ job.pc = "record"
    /\ job' = [job EXCEPT !.pc = "ended"]
    /\ LET next == Recorded(job.req, job.reply) IN
       /\ ~poisoned /\ Acceptable(job.req, job.reply)
       /\ \/ Commits(next) /\ bundles' = IF job.req.lane = "load" THEN bundles \cap Needed(next)
                                                                  ELSE bundles
          \/ CommitFails(next) /\ UNCHANGED bundles
    /\ UNCHANGED <<workerVars, sent, window>>

JobClear ==
    /\ job.pc = "clear"
    /\ job' = [job EXCEPT !.pc = "cleared"]
    /\ LET next == [ledger EXCEPT !.load = NoIntent] IN
       /\ ~poisoned /\ Final(ledger.load.receipt)
       /\ \/ Commits(next) /\ bundles' = bundles \cap Needed(next)
          \/ CommitFails(next) /\ UNCHANGED bundles
    /\ UNCHANGED <<workerVars, sent, window>>

\* poll adopts the durable ledger even after a detach: it is not a view.
Adopted == [window EXCEPT !.load = ledger.load, !.cmd = ledger.cmd, !.blocked = poisoned]

PollRecorded ==
    /\ job.pc \in {"ended", "cleared"}
    /\ window' = IF job.pc = "ended" /\ job.reply # "lost" /\ job.req.lane = "cmd"
                 THEN [Adopted EXCEPT !.view.objects = FALSE,
                                      !.view.selected = @ \/ job.reply = "applied"]
                 ELSE Adopted
    /\ job' = NoJob
    /\ UNCHANGED <<workerVars, sent, journalVars, budget>>

PollRead_AnyGeneration ==
    /\ job.pc = "read"
    /\ job' = NoJob
    /\ \/ UNCHANGED window
       \/ /\ job.what = "observe"
          /\ window' = [window EXCEPT !.view = [selected |-> TRUE, objects |-> TRUE,
                                                attached |-> TRUE]]
       \/ /\ job.what = "discover"
          /\ \E found \in BOOLEAN : window' = [window EXCEPT !.view.selected = found]
    /\ UNCHANGED <<workerVars, sent, journalVars, budget>>

\* A read is adopted only by the generation that asked for it.
PollRead ==
    /\ job.pc = "read"
    /\ job' = NoJob
    /\ \/ UNCHANGED window
       \/ /\ ~job.stale
          /\ IF job.what = "observe"
             THEN window' = [window EXCEPT !.view = [selected |-> TRUE, objects |-> TRUE,
                                                     attached |-> TRUE]]
             ELSE \E found \in BOOLEAN : window' = [window EXCEPT !.view.selected = found]
    /\ UNCHANGED <<workerVars, sent, journalVars, budget>>

-----------------------------------------------------------------------------
(* The other side, and the end of the process.                             *)

\* The worker acts on what reached it, by its contract.
WorkerStep ==
    /\ \E r \in sent : C!Reserve(r) \/ C!Perform(r) \/ \E s \in C!Outcomes : C!Settle(r, s)
    /\ UNCHANGED <<sent, journalVars, job, window, budget>>

WorkerRestart ==
    /\ Trouble
    /\ C!Recover
    /\ UNCHANGED <<sent, journalVars, job, window>>

\* Kagami dies; Journal::open reads the disk and removes bytes nobody needs.
\* Controller::new restores the intents and sends nothing.
Restart ==
    /\ Trouble
    /\ ledger' = saved
    /\ bundles' = bundles \cap Needed(saved)
    /\ poisoned' = FALSE
    /\ job' = NoJob
    /\ window' = [load |-> saved.load, cmd |-> saved.cmd, blocked |-> FALSE, view |-> Authoring,
                  wants |-> "document"]
    /\ UNCHANGED <<workerVars, sent, saved>>

Next ==
    \/ \E r \in LoadOps : Submit(r)
    \/ \E r \in CommandOps : Command(r)
    \/ \E l \in {"load", "cmd"}, lookup \in BOOLEAN : Again(l, lookup)
    \/ ClearLoad \/ Refresh \/ Detach
    \/ \E what \in {"discover", "observe"} : Inspect(what)
    \/ JobBegin \/ JobSend \/ JobReply \/ JobRecord \/ JobClear \/ PollRecorded \/ PollRead
    \/ WorkerStep \/ WorkerRestart \/ Restart

Spec == Init /\ [][Next]_vars

-----------------------------------------------------------------------------
(* Properties.                                                             *)

Intents(l) == {NoIntent} \cup [req : {r \in Requests : r.lane = l}, receipt : Receipts]

TypeOK ==
    /\ sent \subseteq Requests
    /\ ledger \in [load : Intents("load"), cmd : Intents("cmd")]
    /\ saved \in [load : Intents("load"), cmd : Intents("cmd")]
    /\ bundles \subseteq Works
    /\ poisoned \in BOOLEAN

\* An operation that left this machine and is no longer in the ledger on disk is
\* settled for good: nothing Kagami has forgotten can still happen, and so at most
\* one command and one submission of this client are ever open, restarts included.
\* A final receipt the ledger shows is the worker's own.
LedgerCanBeTrusted ==
    /\ \A r \in sent : saved[r.lane].req = r \/ Final(log[KeyOf(r)].st)
    /\ \A l \in {"load", "cmd"} :
          Final(ledger[l].receipt) => log[KeyOf(ledger[l].req)].st = ledger[l].receipt

\* An upload that may have to be sent again still has its bytes, also after a
\* restart from whatever the disk holds.
UnresolvedLoadHasBytes == Needed(saved) \subseteq bundles /\ Needed(ledger) \subseteq bundles

\* Whenever no job runs, the window shows exactly what the journal holds, also
\* when the submission it showed early could not be recorded; and a read that was
\* started before the user went back to the document never takes it to a run.
WindowIsCurrent ==
    /\ Ready => /\ window.load = ledger.load /\ window.cmd = ledger.cmd
                /\ window.blocked = poisoned
    /\ window.view.attached => window.wants = "run"

=============================================================================
