-------------------------- MODULE RunClientProofs --------------------------
(***************************************************************************)
(* For every set of operations and every number of troubles: Kagami's      *)
(* ledger can be trusted, an upload that may have to be repeated keeps its *)
(* bytes, and the window shows what the journal holds.                     *)
(***************************************************************************)
EXTENDS RunClient, TLAPS

-----------------------------------------------------------------------------
(* The inductive invariant.                                                *)

LogType ==
    log \in [Keys -> {C!Absent} \cup
                     {C!Receipt(r, s) : r \in Requests, s \in C!Outcomes \cup {"pending"}}]

\* The job thread at work on an operation, on a read or on clearing the load.
OpJobs == [pc : {"begin", "send", "await", "record", "ended"}, req : Requests,
           lookup : BOOLEAN, stale : BOOLEAN, reply : Receipts \cup {"lost"}]
ReadJobs == [pc : {"read"}, what : {"discover", "observe"}, stale : BOOLEAN]
ClearJobs == [pc : {"clear", "cleared"}, stale : BOOLEAN]

Windows == [load : Intents("load"), cmd : Intents("cmd"), blocked : BOOLEAN,
            view : [selected : BOOLEAN, objects : BOOLEAN, attached : BOOLEAN],
            wants : {"document", "run"}]

Types ==
    /\ TypeOK
    /\ LogType
    /\ job \in {NoJob} \cup OpJobs \cup ReadJobs \cup ClearJobs
    /\ window \in Windows

\* Every final receipt, in memory or on disk, is the worker's own.
FinalIsTrue(l) ==
    \A x \in {"load", "cmd"} : Final(l[x].receipt) => log[KeyOf(l[x].req)].st = l[x].receipt

\* While the journal is healthy the disk holds what memory holds.
DiskIsMemory == ~poisoned => ledger = saved

\* A job at work on an operation finds it in a healthy journal, and carries the
\* worker's own final answer.
JobIsRecorded ==
    /\ job.pc \in {"begin", "send", "await", "record", "clear"} => ~poisoned
    /\ job.pc \in {"send", "await", "record"} => ledger[job.req.lane].req = job.req
    /\ job.pc = "record" => job.reply \in Receipts
    /\ job.pc = "record" /\ Final(job.reply) => log[KeyOf(job.req)].st = job.reply

\* The window mirrors the journal whenever no job can change it.
WindowMirrors ==
    /\ job.pc \in {"none", "read"} => /\ window.load = ledger.load /\ window.cmd = ledger.cmd
                                      /\ window.blocked = poisoned
    /\ window.view.attached => window.wants = "run"
    /\ job.pc = "read" /\ job.what = "observe" /\ ~job.stale => window.wants = "run"

Remembered == \A r \in sent : saved[r.lane].req = r \/ Final(log[KeyOf(r)].st)

IndInv ==
    /\ Types
    /\ Remembered
    /\ FinalIsTrue(ledger) /\ FinalIsTrue(saved)
    /\ DiskIsMemory
    /\ JobIsRecorded
    /\ UnresolvedLoadHasBytes
    /\ WindowMirrors

-----------------------------------------------------------------------------
(* Operators.                                                              *)

Ledgers == [load : Intents("load"), cmd : Intents("cmd")]

\* A request belongs to the lane it names.
LEMMA LaneOfRequest ==
    ASSUME NEW r \in Requests
    PROVE  \/ r \in LoadOps /\ r.lane = "load" /\ r.work \in Works
           \/ r.lane = "cmd"
BY OpsAssumption DEF Requests

\* NoIntent is nobody's intent.
LEMMA NoIntentIsNobody ==
    /\ \A r \in Requests : NoIntent.req # r
    /\ NoIntent.receipt = "none" /\ ~Final(NoIntent.receipt)
    /\ \A x \in {"load", "cmd"} : NoIntent \in Intents(x)
<1>1. \A r \in Requests : r.lane # "none"
  BY LaneOfRequest
<1>. QED  BY <1>1 DEF NoIntent, Final, Intents

\* What the ledger knows of an intent.
LEMMA IntentFields ==
    ASSUME NEW x \in {"load", "cmd"}, NEW i \in Intents(x), i # NoIntent
    PROVE  i.req \in Requests /\ i.req.lane = x /\ i.receipt \in Receipts
BY DEF Intents

\* A ledger with a new intent in one lane.
LEMMA BegunLedger ==
    ASSUME ledger \in Ledgers, NEW r \in Requests
    PROVE  /\ Begun(r) \in Ledgers
           /\ r.lane \in {"load", "cmd"}
           /\ Begun(r)[r.lane].req = r /\ Begun(r)[r.lane].receipt = "none"
           /\ \A x \in {"load", "cmd"} \ {r.lane} : Begun(r)[x] = ledger[x]
<1>1. [req |-> r, receipt |-> "none"] \in Intents(r.lane)
  BY DEF Intents, Receipts
<1>. QED  BY <1>1, LaneOfRequest DEF Begun, Ledgers

\* Recording an answer touches its own lane, and there keeps the request or, for
\* a final command, forgets it.
LEMMA RecordedLedger ==
    ASSUME ledger \in Ledgers, NEW r \in Requests, NEW s \in Receipts, ledger[r.lane].req = r
    PROVE  /\ Recorded(r, s) \in Ledgers
           /\ r.lane \in {"load", "cmd"}
           /\ \A x \in {"load", "cmd"} \ {r.lane} : Recorded(r, s)[x] = ledger[x]
           /\ \/ /\ Recorded(r, s)[r.lane].req = r
                 /\ Recorded(r, s)[r.lane].receipt = s
              \/ /\ r.lane = "cmd" /\ Final(s)
                 /\ Recorded(r, s)[r.lane] = NoIntent
<1>1. CASE r.lane = "cmd" /\ Final(s)
  BY <1>1, NoIntentIsNobody DEF Recorded, Ledgers
<1>2. CASE ~(r.lane = "cmd" /\ Final(s))
  <2>1. ledger[r.lane] # NoIntent
    BY NoIntentIsNobody
  <2>2. r.lane \in {"load", "cmd"}
    BY LaneOfRequest
  <2>3. ledger[r.lane] \in [req : {q \in Requests : q.lane = r.lane}, receipt : Receipts]
    BY <2>1, <2>2 DEF Ledgers, Intents
  <2>4. [ledger[r.lane] EXCEPT !.receipt = s] \in Intents(r.lane)
    BY <2>3 DEF Intents
  <2>5. Recorded(r, s) = [ledger EXCEPT ![r.lane] = [ledger[r.lane] EXCEPT !.receipt = s]]
    BY <1>2 DEF Recorded
  <2>. QED  BY <2>2, <2>3, <2>4, <2>5 DEF Ledgers
<1>. QED  BY <1>1, <1>2

\* The worker never takes back a final receipt.
LEMMA FinalStays ==
    ASSUME Types, WorkerStep \/ WorkerRestart
    PROVE  LogType' /\ \A k \in Keys : Final(log[k].st) => log'[k] = log[k]
<1>1. \A r \in Requests : KeyOf(r) \in Keys
  BY DEF Keys
<1>2. CASE WorkerRestart
  <2>1. ASSUME NEW k \in Keys, log[k].st = "pending"
        PROVE  C!Receipt(log[k].req, "indeterminate") \in
                  {C!Receipt(r, s) : r \in Requests, s \in C!Outcomes \cup {"pending"}}
    BY <2>1 DEF Types, LogType, C!Receipt, C!Absent, C!Outcomes
  <2>2. LogType'
    BY <1>2, <2>1 DEF WorkerRestart, C!Recover, Types, LogType
  <2>. QED  BY <1>2, <2>2 DEF WorkerRestart, C!Recover, Final
<1>3. CASE WorkerStep
  <2>1. PICK r \in sent : C!Reserve(r) \/ C!Perform(r) \/ \E s \in C!Outcomes : C!Settle(r, s)
    BY <1>3 DEF WorkerStep
  <2>2. r \in Requests
    BY DEF Types, TypeOK
  <2>3. CASE C!Reserve(r)
    BY <1>1, <2>2, <2>3 DEF C!Reserve, Types, LogType, C!Absent, Final
  <2>4. CASE C!Perform(r)
    BY <2>4 DEF C!Perform, Types, LogType
  <2>5. ASSUME NEW s \in C!Outcomes, C!Settle(r, s)
        PROVE  LogType' /\ \A k \in Keys : Final(log[k].st) => log'[k] = log[k]
    BY <1>1, <2>2, <2>5 DEF C!Settle, Types, LogType, C!Receipt, Final
  <2>. QED  BY <2>1, <2>3, <2>4, <2>5
<1>. QED  BY <1>2, <1>3

-----------------------------------------------------------------------------
LEMMA InvImplies == IndInv => LedgerCanBeTrusted /\ UnresolvedLoadHasBytes /\ WindowIsCurrent
BY DEF IndInv, LedgerCanBeTrusted, UnresolvedLoadHasBytes, WindowIsCurrent, Remembered, FinalIsTrue,
       WindowMirrors, Ready, NoJob

LEMMA InitInv == Init => IndInv
<1> SUFFICES ASSUME Init PROVE IndInv
  OBVIOUS
<1>1. Types
  <2>1. Empty \in Ledgers
    BY NoIntentIsNobody DEF Empty, Ledgers
  <2>2. TypeOK
    BY <2>1 DEF Init, TypeOK, Ledgers
  <2>3. LogType
    BY DEF Init, C!ContractInit, LogType
  <2>4. window \in Windows
    BY NoIntentIsNobody DEF Init, Windows, Authoring
  <2>. QED  BY <2>2, <2>3, <2>4 DEF Init, Types
<1>2. Remembered
  BY DEF Init, Remembered
<1>3. FinalIsTrue(ledger) /\ FinalIsTrue(saved)
  BY DEF Init, FinalIsTrue, Empty, NoIntent, Final
<1>4. DiskIsMemory /\ JobIsRecorded
  BY DEF Init, DiskIsMemory, JobIsRecorded, NoJob
<1>5. UnresolvedLoadHasBytes
  BY DEF Init, UnresolvedLoadHasBytes, Needed, Empty
<1>6. WindowMirrors
  BY DEF Init, WindowMirrors, Empty, NoJob, Authoring
<1>. QED  BY <1>1, <1>2, <1>3, <1>4, <1>5, <1>6 DEF IndInv

-----------------------------------------------------------------------------
(* Steps that leave the worker, the network and the journal alone.         *)

Jobs == {NoJob} \cup OpJobs \cup ReadJobs \cup ClearJobs

LEMMA QuietStep ==
    ASSUME IndInv, UNCHANGED <<workerVars, sent, journalVars>>,
           job' \in Jobs, window' \in Windows, JobIsRecorded', WindowMirrors'
    PROVE  IndInv'
<1>1. Types'
  BY DEF IndInv, Types, TypeOK, LogType, Jobs, workerVars, journalVars
<1>2. Remembered' /\ FinalIsTrue(ledger)' /\ FinalIsTrue(saved)' /\ DiskIsMemory'
      /\ UnresolvedLoadHasBytes'
  BY DEF IndInv, Remembered, FinalIsTrue, DiskIsMemory, UnresolvedLoadHasBytes, workerVars,
         journalVars, Needed
<1>. QED  BY <1>1, <1>2 DEF IndInv

\* What a job looks like at each of its points.
LEMMA JobFields ==
    ASSUME job \in Jobs
    PROVE  /\ job = NoJob <=> job.pc = "none"
           /\ job.pc \in {"begin", "send", "await", "record", "ended"} => job \in OpJobs
           /\ job.pc = "read" => job \in ReadJobs
           /\ job.pc \in {"clear", "cleared"} => job \in ClearJobs
BY DEF Jobs, NoJob, OpJobs, ReadJobs, ClearJobs

LEMMA SubmitInv ==
    ASSUME IndInv, NEW r \in LoadOps, Submit(r)
    PROVE  IndInv'
<1>1. r \in Requests /\ r.lane = "load"
  BY OpsAssumption DEF Requests
<1>2. job' \in OpJobs /\ job'.pc = "begin"
  BY <1>1 DEF Submit, Op, OpJobs
<1>3. window' \in Windows
  <2>1. [req |-> r, receipt |-> "none"] \in Intents("load")
    BY <1>1 DEF Intents, Receipts
  <2>. QED  BY <2>1 DEF Submit, IndInv, Types, Windows, Authoring
<1>4. JobIsRecorded'
  BY <1>2 DEF JobIsRecorded, Submit, Ready, Recording, IndInv, WindowMirrors, journalVars, NoJob
<1>5. WindowMirrors'
  BY <1>2 DEF WindowMirrors, Submit, Authoring, IndInv, Types, Windows
<1>. QED  BY <1>2, <1>3, <1>4, <1>5, QuietStep DEF Submit, Jobs

LEMMA CommandInv ==
    ASSUME IndInv, NEW r \in CommandOps, Command(r)
    PROVE  IndInv'
<1>1. r \in Requests
  BY DEF Requests
<1>2. job' \in OpJobs /\ job'.pc = "begin"
  BY <1>1 DEF Command, Op, OpJobs
<1>3. window' \in Windows
  BY DEF Command, IndInv, Types
<1>4. JobIsRecorded'
  BY <1>2 DEF JobIsRecorded, Command, Ready, Recording, IndInv, WindowMirrors, journalVars, NoJob
<1>5. WindowMirrors'
  BY <1>2 DEF WindowMirrors, Command, IndInv
<1>. QED  BY <1>2, <1>3, <1>4, <1>5, QuietStep DEF Command, Jobs

LEMMA AgainInv ==
    ASSUME IndInv, NEW l \in {"load", "cmd"}, NEW lookup \in BOOLEAN, Again(l, lookup)
    PROVE  IndInv'
<1>1. window[l] = ledger[l] /\ ~poisoned
  BY DEF Again, Ready, Recording, IndInv, WindowMirrors, NoJob
<1>2. window[l].req \in Requests /\ window[l].req.lane = l
  <2>1. window[l] \in Intents(l)
    BY DEF IndInv, Types, Windows
  <2>. QED  BY <2>1, IntentFields DEF Again
<1>3. job' \in OpJobs /\ job'.pc = "send" /\ job'.req = window[l].req
  BY <1>2 DEF Again, Op, OpJobs
<1>4. window' \in Windows
  BY DEF Again, IndInv, Types
<1>5. JobIsRecorded'
  BY <1>1, <1>2, <1>3 DEF JobIsRecorded, Again, journalVars
<1>6. WindowMirrors'
  BY <1>3 DEF WindowMirrors, Again, IndInv
<1>. QED  BY <1>3, <1>4, <1>5, <1>6, QuietStep DEF Again, Jobs

LEMMA ClearLoadInv ==
    ASSUME IndInv, ClearLoad
    PROVE  IndInv'
<1>1. job' \in ClearJobs /\ job'.pc = "clear"
  BY DEF ClearLoad, ClearJobs
<1>2. window' \in Windows
  BY DEF ClearLoad, IndInv, Types
<1>3. JobIsRecorded'
  BY <1>1 DEF JobIsRecorded, ClearLoad, Ready, Recording, IndInv, WindowMirrors, journalVars, NoJob
<1>4. WindowMirrors'
  BY <1>1 DEF WindowMirrors, ClearLoad, IndInv
<1>. QED  BY <1>1, <1>2, <1>3, <1>4, QuietStep DEF ClearLoad, Jobs

LEMMA ReadingInv ==
    ASSUME IndInv, Refresh \/ \E what \in {"discover", "observe"} : Inspect(what)
    PROVE  IndInv'
<1>1. job' \in ReadJobs /\ job'.pc = "read"
  <2>1. \A what \in {"discover", "observe"} : Read(what) \in ReadJobs /\ Read(what).pc = "read"
    BY DEF Read, ReadJobs
  <2>2. \E what \in {"discover", "observe"} : job' = Read(what)
    BY DEF Refresh, Inspect
  <2>. QED  BY <2>1, <2>2
<1>2. window' \in Windows
  BY DEF Refresh, Inspect, IndInv, Types, Windows
<1>3. JobIsRecorded'
  BY <1>1 DEF JobIsRecorded
<1>4. WindowMirrors'
  <2>1. window.load = ledger.load /\ window.cmd = ledger.cmd /\ window.blocked = poisoned
    BY DEF Refresh, Inspect, Ready, IndInv, WindowMirrors, NoJob
  <2>2. window'.load = window.load /\ window'.cmd = window.cmd
        /\ window'.blocked = window.blocked /\ window'.view = window.view
    BY DEF Refresh, Inspect, IndInv, Types, Windows
  <2>3. CASE Refresh
    BY <1>1, <2>1, <2>2, <2>3 DEF Refresh, IndInv, WindowMirrors, journalVars
  <2>4. ASSUME NEW what \in {"discover", "observe"}, Inspect(what)
        PROVE  WindowMirrors'
    BY <1>1, <2>1, <2>2, <2>4 DEF Inspect, Read, IndInv, Types, Windows, WindowMirrors, journalVars
  <2>. QED  BY <2>3, <2>4
<1>. QED  BY <1>1, <1>2, <1>3, <1>4, QuietStep DEF Refresh, Inspect, Jobs

LEMMA DetachInv ==
    ASSUME IndInv, Detach
    PROVE  IndInv'
<1>1. job \in Jobs /\ window \in Windows
  BY DEF IndInv, Types, Jobs
<1>2. window' \in Windows /\ window'.view.attached = FALSE
      /\ window'.load = window.load /\ window'.cmd = window.cmd
      /\ window'.blocked = window.blocked
  BY <1>1 DEF Detach, Windows
<1>3. job' \in Jobs /\ job'.pc = job.pc
      /\ (job.pc \in {"begin", "send", "await", "record", "ended"} =>
             job'.req = job.req /\ job'.reply = job.reply)
      /\ (job.pc = "read" => job'.stale = TRUE)
  <2>1. CASE Ready
    BY <1>1, <2>1 DEF Detach, Ready, NoJob
  <2>2. CASE job \in OpJobs
    BY <2>2 DEF Detach, Ready, OpJobs, Jobs, NoJob
  <2>3. CASE job \in ReadJobs
    <3>1. job.pc = "read" /\ job # NoJob
      BY <2>3 DEF ReadJobs, NoJob
    <3>2. job' = [job EXCEPT !.stale = TRUE]
      BY <3>1 DEF Detach, Ready
    <3>3. job' \in ReadJobs /\ job'.pc = "read" /\ job'.stale = TRUE
      BY <2>3, <3>2 DEF ReadJobs
    <3>. QED  BY <3>1, <3>3 DEF Jobs
  <2>4. CASE job \in ClearJobs
    BY <2>4 DEF Detach, Ready, ClearJobs, Jobs, NoJob
  <2>. QED  BY <1>1, <2>1, <2>2, <2>3, <2>4 DEF Jobs, Ready
<1>4. JobIsRecorded'
  BY <1>3 DEF Detach, IndInv, JobIsRecorded, journalVars, workerVars
<1>5. WindowMirrors'
  BY <1>2, <1>3 DEF Detach, IndInv, WindowMirrors, journalVars
<1>. QED  BY <1>2, <1>3, <1>4, <1>5, QuietStep DEF Detach

LEMMA PollRecordedInv ==
    ASSUME IndInv, PollRecorded
    PROVE  IndInv'
<1>1. job' = NoJob /\ job'.pc = "none"
  BY DEF PollRecorded, NoJob
<1>2. window \in Windows /\ ledger.load \in Intents("load") /\ ledger.cmd \in Intents("cmd")
      /\ poisoned \in BOOLEAN
  BY DEF IndInv, Types, TypeOK
<1>3. Adopted \in Windows /\ Adopted.load = ledger.load /\ Adopted.cmd = ledger.cmd
      /\ Adopted.blocked = poisoned /\ Adopted.view = window.view /\ Adopted.wants = window.wants
  BY <1>2 DEF Adopted, Windows
<1>4. window' \in Windows /\ window'.load = ledger.load /\ window'.cmd = ledger.cmd
      /\ window'.blocked = poisoned /\ window'.view.attached = window.view.attached
      /\ window'.wants = window.wants
  <2> HIDE DEF Adopted
  <2>. QED  BY <1>3 DEF PollRecorded, Windows
<1>5. WindowMirrors'
  BY <1>1, <1>4 DEF PollRecorded, IndInv, WindowMirrors, journalVars
<1>. QED  BY <1>1, <1>4, <1>5, QuietStep DEF PollRecorded, Jobs, JobIsRecorded

LEMMA PollReadInv ==
    ASSUME IndInv, PollRead
    PROVE  IndInv'
<1>1. job' = NoJob /\ job'.pc = "none"
  BY DEF PollRead, NoJob
<1>2. window' \in Windows /\ window'.load = window.load /\ window'.cmd = window.cmd
      /\ window'.blocked = window.blocked /\ window'.wants = window.wants
  <2>1. window \in Windows
    BY DEF IndInv, Types
  <2>2. CASE UNCHANGED window
    BY <2>1, <2>2
  <2>3. CASE window' = [window EXCEPT !.view = [selected |-> TRUE, objects |-> TRUE,
                                                attached |-> TRUE]]
    BY <2>1, <2>3 DEF Windows
  <2>4. ASSUME NEW found \in BOOLEAN, window' = [window EXCEPT !.view.selected = found]
        PROVE  window' \in Windows /\ window'.load = window.load /\ window'.cmd = window.cmd
               /\ window'.blocked = window.blocked /\ window'.wants = window.wants
    BY <2>1, <2>4 DEF Windows
  <2>. QED  BY <2>2, <2>3, <2>4 DEF PollRead
<1>3. window'.view.attached => window'.wants = "run"
  BY <1>2 DEF PollRead, IndInv, Types, Windows, WindowMirrors
<1>4. WindowMirrors'
  BY <1>1, <1>2, <1>3 DEF PollRead, IndInv, WindowMirrors, journalVars
<1>. QED  BY <1>1, <1>2, <1>4, QuietStep DEF PollRead, Jobs, JobIsRecorded

-----------------------------------------------------------------------------
(* The job thread.                                                         *)

LEMMA JobSendInv ==
    ASSUME IndInv, JobSend
    PROVE  IndInv'
<1>1. job \in OpJobs
  BY JobFields DEF JobSend, IndInv, Types, Jobs
<1>2. job' \in OpJobs /\ job'.req = job.req /\ job'.pc \in {"await", "ended"}
  BY <1>1 DEF JobSend, Finishes, OpJobs
<1>3. saved[job.req.lane].req = job.req /\ ~poisoned /\ ledger[job.req.lane].req = job.req
  BY DEF JobSend, IndInv, JobIsRecorded, DiskIsMemory
<1>4. sent' \in {sent, sent \cup {job.req}}
  BY DEF JobSend
<1>5. Types'
  BY <1>1, <1>2, <1>4 DEF JobSend, IndInv, Types, TypeOK, LogType, OpJobs, workerVars, journalVars
<1>6. Remembered'
  BY <1>3, <1>4 DEF JobSend, IndInv, Remembered, workerVars, journalVars
<1>7. FinalIsTrue(ledger)' /\ FinalIsTrue(saved)' /\ DiskIsMemory' /\ UnresolvedLoadHasBytes'
  BY DEF JobSend, IndInv, FinalIsTrue, DiskIsMemory, UnresolvedLoadHasBytes, Needed, workerVars,
         journalVars
<1>8. JobIsRecorded'
  BY <1>2, <1>3 DEF JobSend, JobIsRecorded, journalVars
<1>9. WindowMirrors'
  BY <1>2 DEF JobSend, IndInv, WindowMirrors
<1>. QED  BY <1>5, <1>6, <1>7, <1>8, <1>9 DEF IndInv

LEMMA JobReplyInv ==
    ASSUME IndInv, JobReply
    PROVE  IndInv'
<1>1. job \in OpJobs /\ KeyOf(job.req) \in Keys
  BY JobFields DEF JobReply, IndInv, Types, Jobs, OpJobs, Keys
<1>2. \A s \in Says(job.req) : s \in Receipts /\ (Final(s) => log[KeyOf(job.req)].st = s)
  <2>1. log[KeyOf(job.req)].st \in Receipts \cup {"absent"}
    BY <1>1 DEF IndInv, Types, LogType, C!Absent, C!Receipt, Receipts
  <2>. QED  BY <2>1 DEF Says, Final, Receipts
<1>3. /\ job' \in OpJobs /\ job'.req = job.req /\ job'.pc \in {"record", "ended"}
      /\ job'.pc = "record" => job'.reply \in Receipts
      /\ job'.pc = "record" /\ Final(job'.reply) => log[KeyOf(job.req)].st = job'.reply
  BY <1>1, <1>2 DEF JobReply, Finishes, OpJobs
<1>4. window' \in Windows
  BY DEF JobReply, IndInv, Types
<1>5. JobIsRecorded'
  BY <1>3 DEF JobReply, IndInv, JobIsRecorded, journalVars, workerVars
<1>6. WindowMirrors'
  BY <1>3 DEF JobReply, IndInv, WindowMirrors
<1>. QED  BY <1>3, <1>4, <1>5, <1>6, QuietStep DEF JobReply, Jobs

\* What the next ledger forgets is settled.
Forgets(next) == \E r \in sent : ledger[r.lane].req = r /\ next[r.lane].req # r
                                 /\ ~Final(log[KeyOf(r)].st)

\* A commit, successful or not, of a ledger that forgets nothing open, claims
\* nothing false and has its bytes on disk.
LEMMA CommitKeeps ==
    ASSUME IndInv, ~poisoned, UNCHANGED <<workerVars, sent>>,
           NEW next \in Ledgers, FinalIsTrue(next), ~Forgets(next),
           \/ Commits(next) /\ Needed(next) \subseteq bundles'
           \/ CommitFails(next) /\ Needed(next) \cup Needed(ledger) \subseteq bundles',
           bundles' \subseteq Works
    PROVE  /\ TypeOK' /\ LogType' /\ Remembered' /\ FinalIsTrue(ledger)' /\ FinalIsTrue(saved)'
           /\ DiskIsMemory' /\ UnresolvedLoadHasBytes'
<1>1. ledger = saved /\ ledger \in Ledgers
  BY DEF IndInv, DiskIsMemory, Types, TypeOK, Ledgers
<1>2. /\ ledger' \in {ledger, next} /\ saved' \in {ledger, next}
      /\ poisoned' \in BOOLEAN /\ (~poisoned' => ledger' = saved')
  BY <1>1 DEF Commits, CommitFails, IndInv, Types, TypeOK
<1>3. TypeOK' /\ LogType' /\ DiskIsMemory'
  BY <1>1, <1>2 DEF IndInv, Types, TypeOK, LogType, DiskIsMemory, Ledgers, workerVars
<1>4. Remembered'
  BY <1>1, <1>2 DEF IndInv, Remembered, Forgets, workerVars
<1>5. FinalIsTrue(ledger)' /\ FinalIsTrue(saved)'
  <2>1. FinalIsTrue(next)' /\ FinalIsTrue(ledger)
    BY DEF FinalIsTrue, IndInv, workerVars
  <2>. QED  BY <1>1, <1>2, <2>1 DEF FinalIsTrue, workerVars
<1>6. UnresolvedLoadHasBytes'
  <2>1. Needed(ledger') \subseteq bundles' /\ Needed(saved') \subseteq bundles'
    BY <1>1 DEF Commits, CommitFails
  <2>. QED  BY <2>1 DEF UnresolvedLoadHasBytes, Needed
<1>. QED  BY <1>3, <1>4, <1>5, <1>6

\* Bytes are those of known workloads.
LEMMA NeededWorks ==
    ASSUME NEW l \in Ledgers
    PROVE  Needed(l) \subseteq Works
<1>1. l.load # NoIntent => l.load.req \in Requests /\ l.load.req.lane = "load"
  BY IntentFields DEF Ledgers
<1>2. l.load # NoIntent => l.load.req.work \in Works
  BY <1>1, LaneOfRequest
<1>. QED  BY <1>2 DEF Needed

LEMMA JobBeginInv ==
    ASSUME IndInv, JobBegin
    PROVE  IndInv'
<1> DEFINE r == job.req
           next == Begun(r)
<1>1. job \in OpJobs /\ r \in Requests /\ ledger \in Ledgers /\ bundles \subseteq Works
  BY JobFields DEF JobBegin, IndInv, Types, TypeOK, Jobs, OpJobs, Ledgers
<1>2. /\ next \in Ledgers /\ r.lane \in {"load", "cmd"}
      /\ next[r.lane].req = r /\ next[r.lane].receipt = "none"
      /\ \A x \in {"load", "cmd"} \ {r.lane} : next[x] = ledger[x]
  BY <1>1, BegunLedger
<1>3. ~poisoned /\ ledger[r.lane] = NoIntent
  BY DEF JobBegin
<1>4. FinalIsTrue(next)
  BY <1>2 DEF FinalIsTrue, IndInv, Final
<1>5. ~Forgets(next)
  <2>1. \A q \in sent : q \in Requests /\ q.lane \in {"load", "cmd"}
    BY LaneOfRequest DEF IndInv, Types, TypeOK
  <2>. QED  BY <1>2, <1>3, <2>1, NoIntentIsNobody DEF Forgets
<1>6. bundles' = bundles \cup Needed(next)
  BY DEF JobBegin
<1>7. Needed(next) \cup Needed(ledger) \subseteq bundles' /\ bundles' \subseteq Works
  BY <1>1, <1>2, <1>6, NeededWorks DEF IndInv, UnresolvedLoadHasBytes
<1>8. /\ \/ Commits(next) /\ job' = [job EXCEPT !.pc = "send"]
         \/ CommitFails(next) /\ Finishes("lost")
      /\ UNCHANGED <<workerVars, sent, window>>
  BY DEF JobBegin
<1>9. /\ TypeOK' /\ LogType' /\ Remembered' /\ FinalIsTrue(ledger)' /\ FinalIsTrue(saved)'
      /\ DiskIsMemory' /\ UnresolvedLoadHasBytes'
  <2> HIDE DEF next
  <2>. QED  BY <1>2, <1>3, <1>4, <1>5, <1>7, <1>8, CommitKeeps
<1>10. /\ job' \in OpJobs /\ job'.req = r
       /\ \/ job'.pc = "send" /\ ledger' = next /\ ~poisoned'
          \/ job'.pc = "ended"
  <2>1. \/ job' = [job EXCEPT !.pc = "send"]
        \/ job' = [job EXCEPT !.pc = "ended", !.reply = "lost"]
    BY <1>8 DEF Finishes
  <2>2. job' \in OpJobs /\ job'.req = r
    BY <1>1, <2>1 DEF OpJobs
  <2>3. CASE Commits(next) /\ job' = [job EXCEPT !.pc = "send"]
    BY <1>1, <1>3, <2>2, <2>3 DEF Commits, OpJobs
  <2>4. CASE Finishes("lost")
    BY <1>1, <2>2, <2>4 DEF Finishes, OpJobs
  <2>. QED  BY <1>8, <2>3, <2>4
<1>11. Types'
  BY <1>8, <1>9, <1>10 DEF IndInv, Types
<1>12. JobIsRecorded'
  BY <1>2, <1>10 DEF JobIsRecorded
<1>13. WindowMirrors'
  BY <1>8, <1>10 DEF IndInv, WindowMirrors
<1>. QED  BY <1>9, <1>11, <1>12, <1>13 DEF IndInv

LEMMA JobRecordInv ==
    ASSUME IndInv, JobRecord
    PROVE  IndInv'
<1> DEFINE r == job.req
           next == Recorded(r, job.reply)
<1>1. job \in OpJobs /\ r \in Requests /\ ledger \in Ledgers /\ bundles \subseteq Works
  BY JobFields DEF JobRecord, IndInv, Types, TypeOK, Jobs, OpJobs, Ledgers
<1>2. /\ ~poisoned /\ ledger[r.lane].req = r
      /\ Final(ledger[r.lane].receipt) => job.reply = ledger[r.lane].receipt
      /\ Final(job.reply) => log[KeyOf(r)].st = job.reply
  BY DEF JobRecord, Acceptable, IndInv, JobIsRecorded
<1>3. job.reply \in Receipts
  BY DEF JobRecord, IndInv, JobIsRecorded
<1>4. /\ next \in Ledgers /\ r.lane \in {"load", "cmd"}
      /\ \A x \in {"load", "cmd"} \ {r.lane} : next[x] = ledger[x]
      /\ \/ next[r.lane].req = r /\ next[r.lane].receipt = job.reply
         \/ r.lane = "cmd" /\ Final(job.reply) /\ next[r.lane] = NoIntent
  BY <1>1, <1>2, <1>3, RecordedLedger
<1>5. FinalIsTrue(next)
  BY <1>2, <1>4, NoIntentIsNobody DEF FinalIsTrue, IndInv
<1>6. ~Forgets(next)
  <2>1. \A q \in sent : q \in Requests /\ q.lane \in {"load", "cmd"}
    BY LaneOfRequest DEF IndInv, Types, TypeOK
  <2>2. Final(job.reply) => Final(log[KeyOf(r)].st)
    BY <1>2
  <2>. QED  BY <1>2, <1>4, <2>1, <2>2 DEF Forgets
<1>7. Needed(next) \subseteq Needed(ledger)
  <2>1. CASE r.lane = "load"
    <3>1. ledger.load # NoIntent
      BY <1>1, <1>2, <2>1, NoIntentIsNobody
    <3>. QED  BY <1>2, <1>4, <2>1, <3>1 DEF Needed
  <2>2. CASE r.lane = "cmd"
    BY <1>4, <2>2 DEF Needed
  <2>. QED  BY <1>4, <2>1, <2>2
<1>8. /\ \/ Commits(next) /\ bundles' \in {bundles \cap Needed(next), bundles}
         \/ CommitFails(next) /\ UNCHANGED bundles
      /\ job' = [job EXCEPT !.pc = "ended"]
      /\ UNCHANGED <<workerVars, sent, window>>
  BY DEF JobRecord
<1>9. /\ \/ Commits(next) /\ Needed(next) \subseteq bundles'
         \/ CommitFails(next) /\ Needed(next) \cup Needed(ledger) \subseteq bundles'
      /\ bundles' \subseteq Works
  <2> HIDE DEF next
  <2>. QED  BY <1>1, <1>7, <1>8 DEF IndInv, UnresolvedLoadHasBytes
<1>10. /\ TypeOK' /\ LogType' /\ Remembered' /\ FinalIsTrue(ledger)' /\ FinalIsTrue(saved)'
       /\ DiskIsMemory' /\ UnresolvedLoadHasBytes'
  <2> HIDE DEF next
  <2>. QED  BY <1>2, <1>4, <1>5, <1>6, <1>8, <1>9, CommitKeeps
<1>11. job' \in OpJobs /\ job'.pc = "ended"
  BY <1>1, <1>8 DEF OpJobs
<1>12. Types'
  BY <1>8, <1>10, <1>11 DEF IndInv, Types
<1>13. JobIsRecorded'
  BY <1>11 DEF JobIsRecorded
<1>14. WindowMirrors'
  BY <1>8, <1>11 DEF IndInv, WindowMirrors
<1>. QED  BY <1>10, <1>12, <1>13, <1>14 DEF IndInv

LEMMA JobClearInv ==
    ASSUME IndInv, JobClear
    PROVE  IndInv'
<1> DEFINE next == [ledger EXCEPT !.load = NoIntent]
<1>1. job \in ClearJobs /\ ledger \in Ledgers /\ bundles \subseteq Works
  BY JobFields DEF JobClear, IndInv, Types, TypeOK, Jobs, Ledgers
<1>2. ~poisoned /\ Final(ledger.load.receipt)
  BY DEF JobClear
<1>3. next \in Ledgers /\ next.load = NoIntent /\ next.cmd = ledger.cmd
  BY <1>1, NoIntentIsNobody DEF Ledgers
<1>4. FinalIsTrue(next)
  BY <1>3, NoIntentIsNobody DEF FinalIsTrue, IndInv
<1>5. ~Forgets(next)
  <2>1. \A q \in sent : q \in Requests /\ q.lane \in {"load", "cmd"}
    BY LaneOfRequest DEF IndInv, Types, TypeOK
  <2>2. Final(log[KeyOf(ledger.load.req)].st)
    BY <1>2 DEF IndInv, FinalIsTrue
  <2>. QED  BY <1>3, <2>1, <2>2 DEF Forgets
<1>6. Needed(next) = {}
  BY <1>3 DEF Needed
<1>7. /\ \/ Commits(next) /\ bundles' = bundles \cap Needed(next)
         \/ CommitFails(next) /\ UNCHANGED bundles
      /\ job' = [job EXCEPT !.pc = "cleared"]
      /\ UNCHANGED <<workerVars, sent, window>>
  BY DEF JobClear
<1>8. /\ \/ Commits(next) /\ Needed(next) \subseteq bundles'
         \/ CommitFails(next) /\ Needed(next) \cup Needed(ledger) \subseteq bundles'
      /\ bundles' \subseteq Works
  <2> HIDE DEF next
  <2>. QED  BY <1>1, <1>6, <1>7 DEF IndInv, UnresolvedLoadHasBytes
<1>9. /\ TypeOK' /\ LogType' /\ Remembered' /\ FinalIsTrue(ledger)' /\ FinalIsTrue(saved)'
      /\ DiskIsMemory' /\ UnresolvedLoadHasBytes'
  <2> HIDE DEF next
  <2>. QED  BY <1>2, <1>3, <1>4, <1>5, <1>7, <1>8, CommitKeeps
<1>10. job' \in ClearJobs /\ job'.pc = "cleared"
  BY <1>1, <1>7 DEF ClearJobs
<1>11. Types'
  BY <1>7, <1>9, <1>10 DEF IndInv, Types
<1>12. JobIsRecorded'
  BY <1>10 DEF JobIsRecorded
<1>13. WindowMirrors'
  BY <1>7, <1>10 DEF IndInv, WindowMirrors
<1>. QED  BY <1>9, <1>11, <1>12, <1>13 DEF IndInv

-----------------------------------------------------------------------------
(* The worker, and restarts.                                               *)

LEMMA WorkerInv ==
    ASSUME IndInv, WorkerStep \/ WorkerRestart
    PROVE  IndInv'
<1>1. LogType' /\ \A k \in Keys : Final(log[k].st) => log'[k] = log[k]
  BY FinalStays DEF IndInv
<1>2. UNCHANGED <<sent, ledger, saved, bundles, poisoned, job, window>>
  BY DEF WorkerStep, WorkerRestart, journalVars
<1>3. Types'
  BY <1>1, <1>2 DEF IndInv, Types, TypeOK
<1>4. \A r \in Requests : KeyOf(r) \in Keys
  BY DEF Keys
<1>5. Remembered'
  BY <1>1, <1>2, <1>4 DEF IndInv, Remembered, Types, TypeOK
<1>6. ASSUME NEW l \in Ledgers, FinalIsTrue(l)
      PROVE  FinalIsTrue(l)'
  <2> SUFFICES ASSUME NEW x \in {"load", "cmd"}, Final(l[x].receipt)
               PROVE  log'[KeyOf(l[x].req)].st = l[x].receipt
    BY DEF FinalIsTrue
  <2>1. l[x] \in Intents(x) /\ l[x] # NoIntent
    BY NoIntentIsNobody DEF Ledgers
  <2>2. KeyOf(l[x].req) \in Keys
    BY <1>4, <2>1, IntentFields
  <2>. QED  BY <1>1, <1>6, <2>2 DEF FinalIsTrue
<1>7. ledger \in Ledgers /\ saved \in Ledgers
  BY DEF IndInv, Types, TypeOK, Ledgers
<1>8. FinalIsTrue(ledger)' /\ FinalIsTrue(saved)'
  BY <1>2, <1>6, <1>7 DEF IndInv, FinalIsTrue
<1>9. JobIsRecorded'
  <2>1. job.pc = "record" => KeyOf(job.req) \in Keys
    BY <1>4, JobFields DEF IndInv, Types, Jobs, OpJobs
  <2>. QED  BY <1>1, <1>2, <2>1 DEF IndInv, JobIsRecorded
<1>10. DiskIsMemory' /\ UnresolvedLoadHasBytes' /\ WindowMirrors'
  BY <1>2 DEF IndInv, DiskIsMemory, UnresolvedLoadHasBytes, Needed, WindowMirrors
<1>. QED  BY <1>3, <1>5, <1>8, <1>9, <1>10 DEF IndInv

LEMMA RestartInv ==
    ASSUME IndInv, Restart
    PROVE  IndInv'
<1>1. /\ ledger' = saved /\ saved' = saved /\ bundles' = bundles \cap Needed(saved)
      /\ poisoned' = FALSE /\ job' = NoJob /\ job'.pc = "none"
      /\ log' = log /\ sent' = sent
      /\ window' = [load |-> saved.load, cmd |-> saved.cmd, blocked |-> FALSE, view |-> Authoring,
                    wants |-> "document"]
  BY DEF Restart, workerVars, NoJob
<1>2. TypeOK'
  <2>1. /\ sent \subseteq Requests /\ bundles \subseteq Works
        /\ saved \in [load : Intents("load"), cmd : Intents("cmd")]
    BY DEF IndInv, Types, TypeOK
  <2>. QED  BY <1>1, <2>1 DEF TypeOK
<1>7. LogType'
  BY <1>1 DEF IndInv, Types, LogType
<1>3. window' \in Windows
  BY <1>1 DEF IndInv, Types, TypeOK, Windows, Authoring
<1>4. Remembered' /\ FinalIsTrue(ledger)' /\ FinalIsTrue(saved)' /\ DiskIsMemory'
  BY <1>1 DEF IndInv, Remembered, FinalIsTrue, DiskIsMemory
<1>5. UnresolvedLoadHasBytes'
  <2>1. Needed(saved) \subseteq bundles
    BY DEF IndInv, UnresolvedLoadHasBytes
  <2>2. Needed(saved') = Needed(saved) /\ Needed(ledger') = Needed(saved)
    BY <1>1
  <2>. QED  BY <1>1, <2>1, <2>2 DEF UnresolvedLoadHasBytes, Needed
<1>6. JobIsRecorded' /\ WindowMirrors'
  BY <1>1 DEF JobIsRecorded, WindowMirrors, Authoring
<1>. QED  BY <1>1, <1>2, <1>7, <1>3, <1>4, <1>5, <1>6 DEF IndInv, Types

-----------------------------------------------------------------------------
\* The invariant is inductive.
LEMMA NextInv == IndInv /\ [Next]_vars => IndInv'
<1> SUFFICES ASSUME IndInv, [Next]_vars PROVE IndInv'
  OBVIOUS
<1>1. CASE UNCHANGED vars
  <2>1. JobIsRecorded' /\ WindowMirrors'
    BY <1>1 DEF vars, IndInv, JobIsRecorded, WindowMirrors
  <2>. QED  BY <1>1, <2>1, QuietStep DEF vars, workerVars, journalVars, IndInv, Types, Jobs
<1>2. CASE Next
  BY <1>2, SubmitInv, CommandInv, AgainInv, ClearLoadInv, ReadingInv, DetachInv, JobBeginInv,
     JobSendInv, JobReplyInv, JobRecordInv, JobClearInv, PollRecordedInv, PollReadInv, WorkerInv,
     RestartInv DEF Next
<1>. QED  BY <1>1, <1>2

\* Whatever Kagami's ledger on disk no longer mentions is settled for good, and a
\* final receipt it shows is the worker's own: after any crashes, failed writes,
\* lost replies and requests that arrive late or twice.
THEOREM LedgerIsTrustworthy == Spec => []LedgerCanBeTrusted
BY InitInv, NextInv, InvImplies, PTL DEF Spec

\* An upload that may have to be repeated has its bytes on disk, whichever ledger
\* a restart will find.
THEOREM UploadsStayRepeatable == Spec => []UnresolvedLoadHasBytes
BY InitInv, NextInv, InvImplies, PTL DEF Spec

\* With no job at work the window shows what the journal holds, and it is attached
\* to a run only if the user asked for that last.
THEOREM WindowShowsTheJournal == Spec => []WindowIsCurrent
BY InitInv, NextInv, InvImplies, PTL DEF Spec

=============================================================================
