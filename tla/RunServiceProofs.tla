-------------------------- MODULE RunServiceProofs --------------------------
(***************************************************************************)
(* For every set of requests, every journal size and every number of       *)
(* troubles: the worker's run service implements ReceiptContract, holds    *)
(* one guest at a time, shows readers nothing but committed states, and    *)
(* never advances a run twice from one boundary.                           *)
(***************************************************************************)
EXTENDS RunService, FiniteSetTheorems, TLAPS

-----------------------------------------------------------------------------
(* Types.                                                                  *)

Receipts == {C!Receipt(r, s) : r \in Requests, s \in C!Outcomes \cup {"pending"}}

Views == [at : Nat, stopped : BOOLEAN, here : BOOLEAN]

Slots == [active : Serials \cup {0}, confirmed : BOOLEAN, epoch : Nat, run : Views]

LoadPcs == {"idle", "begin", "prepare", "reserving", "receive", "allocating", "admit",
            "confirming", "start", "starting", "retain", "drop", "finish"}
CmdPcs == {"idle", "begin", "apply", "send", "wait", "finish"}
ExecPcs == {"off", "leased", "built", "publishing", "lost", "accepted", "rejected", "idle",
            "queued", "dropping", "disposed", "gone"}

LoadJobs == [pc : LoadPcs, req : LoadRequests \cup {NoRequest}, serial : Serials \cup {0},
             outcome : C!Outcomes \cup {"none"}]
CmdJobs == [pc : CmdPcs, req : RunCommands \cup {NoRequest}, serial : Serials \cup {0},
            outcome : C!Outcomes \cup {"none"}]

Execs == [pc : ExecPcs, form : Nat, epoch : Nat, view : Views, next : Views,
          req : Requests \cup {NoRequest}]

Messages ==
    [t : {"reserve"}, req : LoadRequests]
    \cup [t : {"allocate"}, req : LoadRequests, serial : Serials]
    \cup [t : {"confirm"}, req : LoadRequests, serial : Serials, epoch : Nat]
    \cup [t : {"publish"}, req : Requests, serial : Serials, epoch : Nat, run : Views]
    \cup [t : {"release"}, serial : Serials]

Types ==
    /\ disk \in [Keys -> {C!Absent} \cup Receipts]
    /\ poisoned \subseteq Lanes
    /\ done \subseteq Requests
    /\ form \in Nat /\ eligible \in BOOLEAN /\ closed \in BOOLEAN
    /\ slot \in Slots
    /\ next \in [serial : Nat, epoch : Nat]
    /\ lane \in Seq(Messages)
    /\ cancelled \subseteq Serials
    /\ retained \in Serials \cup {0}
    /\ load \in LoadJobs /\ cmd \in CmdJobs
    /\ exec \in [Serials -> Execs]

-----------------------------------------------------------------------------
(* Who holds the execution slot.                                           *)

Places == 1..Len(lane)

\* A reservation that was issued holds the slot until its lease is dropped, and
\* only then is the owner told.
Holders ==
    /\ slot.active <= next.serial
    /\ \A s \in Serials : /\ exec[s].pc = "off" <=> s > next.serial
                          /\ exec[s].pc \notin {"off", "gone"} => slot.active = s
    /\ \A i \in Places : lane[i].t = "release" => exec[lane[i].serial].pc = "gone"

\* Reservations never outnumber the load requests that were recorded.
Recorded == {r \in LoadRequests : disk[KeyOf(r)] # C!Absent}
Asking == {r \in LoadRequests : \E i \in Places : lane[i].t = "reserve" /\ lane[i].req = r}

Counted ==
    /\ \A i, j \in Places : lane[i].t = "reserve" /\ lane[j].t = "reserve"
                            /\ lane[i].req = lane[j].req => i = j
    /\ load.pc = "prepare" => load.req \notin Asking
    /\ next.serial + Cardinality(Asking) + (IF load.pc = "prepare" THEN 1 ELSE 0)
          <= Cardinality(Recorded)

-----------------------------------------------------------------------------
(* The jobs and what they wait for.                                        *)

Running == {"publishing", "lost", "accepted", "rejected"}
Started(s) == exec[s].pc \in Running \cup {"idle", "queued", "dropping", "disposed", "gone"}

\* What the load job knows of its reservation.
LoadLink ==
    /\ load.pc # "idle" => load.req \in LoadRequests
    /\ load.pc \in {"receive", "allocating", "admit", "confirming", "start", "starting", "retain",
                    "drop"} => load.serial \in Serials
    /\ load.pc \in {"receive", "allocating"} => exec[load.serial].pc = "leased"
    /\ load.pc \in {"admit", "confirming", "start"} => exec[load.serial].pc = "built"
    /\ load.pc = "retain" => Started(load.serial)
    /\ load.pc = "drop" => exec[load.serial].pc \in {"dropping", "disposed", "gone"}

\* What the command job knows of the run it talks to.
CmdLink ==
    /\ retained # 0 => Started(retained)
    /\ cmd.pc # "idle" => cmd.req \in RunCommands
    /\ cmd.pc \in {"send", "wait"} => cmd.serial \in Serials /\ Started(cmd.serial)
    /\ cmd.pc = "send" /\ exec[cmd.serial].pc \notin {"dropping", "disposed", "gone"} =>
          exec[cmd.serial].form = cmd.req.form /\ exec[cmd.serial].epoch = cmd.req.epoch

\* The boundary after view v, if command r goes through.
NextView(v, r) == IF r.kind = "step" THEN View(v.at + 1, FALSE) ELSE View(v.at, TRUE)

\* An executor at work on a request has its client waiting.
Linked(s, e, l, c) ==
    /\ e.pc = "queued" => e.req \in RunCommands
    /\ e.pc \in Running => e.req \in Requests
    /\ e.pc \in Running /\ e.req \in LoadRequests =>
          /\ l.pc = "starting" /\ l.serial = s /\ l.req = e.req
          /\ e.view = None /\ e.next = View(0, FALSE)
    /\ e.pc \in Running \cup {"queued"} /\ e.req \in RunCommands =>
          /\ c.pc = "wait" /\ c.serial = s /\ c.req = e.req
          /\ e.form = e.req.form /\ e.epoch = e.req.epoch
    /\ e.pc \in Running /\ e.req \in RunCommands =>
          e.req.at = e.view.at /\ e.next = NextView(e.view, e.req)
    /\ e.pc \in {"leased", "built"} => e.view = None

ExecLink == \A s \in Serials : Linked(s, exec[s], load, cmd)

\* A message of the load job is about its own reservation; old ones are about
\* requests long recorded.
LoadMessages ==
    \A i \in Places :
       /\ lane[i].t # "release" => disk[KeyOf(lane[i].req)] # C!Absent
       /\ lane[i].t \in {"allocate", "confirm"} /\ load.pc # "idle" /\ lane[i].req = load.req =>
             /\ load.pc \notin {"begin", "prepare", "reserving"}
             /\ lane[i].serial = load.serial

\* A publication the owner could still accept is the one its executor waits for
\* or has just given up on, and it is alone.
LivePublication(i) == lane[i].t = "publish" /\ lane[i].serial \notin cancelled

Publications ==
    /\ \A i \in Places : LivePublication(i) =>
          LET e == exec[lane[i].serial] IN
          /\ e.pc \in {"publishing", "lost"}
          /\ e.req = lane[i].req /\ e.next = lane[i].run
    /\ \A i, j \in Places : LivePublication(i) /\ LivePublication(j) => i = j

-----------------------------------------------------------------------------
(* Receipts and effects.                                                   *)

Pending(r) == disk[KeyOf(r)] = C!Receipt(r, "pending")

Journalled ==
    /\ load.pc = "begin" => disk[KeyOf(load.req)] = C!Absent
    /\ load.pc \notin {"idle", "begin"} => Pending(load.req)
    /\ cmd.pc = "begin" => disk[KeyOf(cmd.req)] = C!Absent
    /\ cmd.pc \notin {"idle", "begin"} => Pending(cmd.req)

OutcomeIsTrue(j) ==
    /\ j.outcome \in C!Outcomes
    /\ j.outcome = "applied" => j.req \in done
    /\ j.outcome = "refused" => j.req \notin done

DoneIsRecorded == \A r \in done : disk[KeyOf(r)] # C!Absent /\ disk[KeyOf(r)].req = r

LoadEffects ==
    /\ load.pc \in {"begin", "prepare", "reserving", "receive", "allocating", "admit",
                    "confirming", "start"} => load.req \notin done
    /\ load.pc = "retain" => load.req \in done
    /\ load.pc = "drop" => OutcomeIsTrue(load) /\ load.outcome # "applied"
    /\ load.pc = "finish" => OutcomeIsTrue(load)

CmdEffects ==
    /\ cmd.pc \in {"begin", "apply", "send"} => cmd.req \notin done
    /\ cmd.pc = "finish" => OutcomeIsTrue(cmd)

ExecEffects ==
    \A s \in Serials : /\ exec[s].pc \in {"queued", "publishing"} => exec[s].req \notin done
                       /\ exec[s].pc = "accepted" => exec[s].req \in done

LaneEffects == \A i \in Places : LivePublication(i) => lane[i].req \notin done

-----------------------------------------------------------------------------
(* Boundaries.                                                             *)

IsStep(r) == r \in RunCommands /\ r.kind = "step"

\* Every step of run [form, epoch] left a boundary below n.
StepsBelow(f, e, n) ==
    \A r \in done : IsStep(r) /\ r.form = f /\ r.epoch = e => r.at < n

\* Formations and epochs are never issued twice.
Epochs ==
    /\ \A r \in done : r \in RunCommands =>
          /\ r.form \in Nat /\ r.epoch \in Nat /\ r.at \in Nat
          /\ r.form <= form
          /\ r.form = form => r.epoch <= next.epoch
    /\ \A s \in Serials : exec[s].form <= form /\ exec[s].epoch <= next.epoch

\* A run is past every boundary a step has left.
RunProgress ==
    \A s \in Serials :
       /\ exec[s].pc \in {"built", "publishing", "idle", "queued"} =>
             StepsBelow(exec[s].form, exec[s].epoch, exec[s].view.at)
       /\ exec[s].pc = "accepted" => StepsBelow(exec[s].form, exec[s].epoch, exec[s].next.at)

LaneProgress ==
    \A i \in Places : LivePublication(i) =>
       LET e == exec[lane[i].serial] IN StepsBelow(e.form, e.epoch, e.view.at)

\* An accepted publication is what readers see.
Shown ==
    \A s \in Serials : exec[s].pc = "accepted" /\ Live(s) => slot.run = exec[s].next

-----------------------------------------------------------------------------

\* What the jobs rely on, and what the runs rely on.
JobInv ==
    /\ Counted /\ LoadLink /\ CmdLink /\ ExecLink /\ LoadMessages
    /\ Journalled /\ LoadEffects /\ CmdEffects

RunInv ==
    /\ Holders /\ Publications /\ DoneIsRecorded /\ ExecEffects /\ LaneEffects
    /\ Epochs /\ RunProgress /\ LaneProgress /\ OneStepPerBoundary
    /\ Shown /\ PublishedIsCommitted

IndInv == Types /\ JobInv /\ RunInv

-----------------------------------------------------------------------------
(* Constants, messages and the lane.                                       *)

LEMMA RequestFacts ==
    /\ \A r \in LoadRequests : r.lane = "load" /\ r \in Requests /\ r \notin RunCommands
    /\ \A r \in RunCommands : r.lane = "cmd" /\ r \in Requests /\ r \notin LoadRequests
                              /\ r.kind \in {"step", "finish"}
    /\ \A r \in Requests : KeyOf(r) \in Keys /\ r # NoRequest
    /\ \A r \in LoadRequests, q \in RunCommands : KeyOf(r) # KeyOf(q) /\ r # q
<1>1. /\ \A r \in LoadRequests : r.lane = "load" /\ r \in Requests
      /\ \A r \in RunCommands : r.lane = "cmd" /\ r \in Requests /\ r.kind \in {"step", "finish"}
  BY RequestsAssumption DEF Requests
<1>2. NoRequest.lane = "none"
  BY DEF NoRequest
<1>3. \A r \in LoadRequests, q \in RunCommands : KeyOf(r) # KeyOf(q) /\ r # q
  BY <1>1 DEF KeyOf
<1>. QED  BY <1>1, <1>2, <1>3 DEF Requests, Keys

LEMMA SerialsAreNumbers == Cardinality(LoadRequests) \in Nat /\ Serials \subseteq Nat \ {0}
<1>1. Cardinality(LoadRequests) \in Nat
  BY FS_CardinalityType, RequestsAssumption
<1>. QED  BY <1>1 DEF Serials

LEMMA ConstantTypes ==
    /\ None \in Views /\ \A n \in Nat : View(n, TRUE) \in Views /\ View(n, FALSE) \in Views
    /\ EmptySlot \in Slots
    /\ IdleJob \in LoadJobs /\ IdleJob \in CmdJobs
    /\ Vacant \in Execs
<1>1. None \in Views /\ \A n \in Nat : View(n, TRUE) \in Views /\ View(n, FALSE) \in Views
  BY DEF None, View, Views
<1>2. EmptySlot \in Slots
  BY <1>1 DEF EmptySlot, Slots
<1>3. IdleJob \in LoadJobs /\ IdleJob \in CmdJobs
  BY DEF IdleJob, LoadJobs, CmdJobs, LoadPcs, CmdPcs
<1>4. Vacant \in Execs
  BY <1>1 DEF Vacant, Execs, ExecPcs
<1>. QED  BY <1>1, <1>2, <1>3, <1>4

LEMMA ViewFields ==
    \A n \in Nat, b \in BOOLEAN : /\ View(n, b).at = n /\ View(n, b).stopped = b
                                  /\ View(n, b).here = TRUE
BY DEF View

\* A message at the end of the lane.
LEMMA LaneGrows ==
    ASSUME lane \in Seq(Messages), NEW m \in Messages, lane' = Append(lane, m)
    PROVE  /\ lane' \in Seq(Messages)
           /\ Len(lane) \in Nat /\ Places' = 1..(Len(lane) + 1)
           /\ \A i \in Places : i \in Places' /\ lane'[i] = lane[i]
           /\ Len(lane) + 1 \in Places' /\ lane'[Len(lane) + 1] = m
           /\ \A i \in Places' : i \in Places \/ i = Len(lane) + 1
BY DEF Places

\* The owner takes the first message.
LEMMA LaneShrinks ==
    ASSUME lane \in Seq(Messages), lane # <<>>, lane' = Tail(lane)
    PROVE  /\ lane' \in Seq(Messages)
           /\ 1 \in Places /\ Head(lane) = lane[1] /\ Head(lane) \in Messages
           /\ \A i \in Places' : i + 1 \in Places /\ lane'[i] = lane[i + 1] /\ i + 1 # 1
           /\ \A i \in Places : i # 1 => i - 1 \in Places' /\ lane'[i - 1] = lane[i]
BY DEF Places

LEMMA MessageFields ==
    ASSUME NEW m \in Messages
    PROVE  /\ m.t \in {"reserve", "allocate", "confirm", "publish", "release"}
           /\ m.t \in {"reserve", "allocate", "confirm"} => m.req \in LoadRequests
           /\ m.t # "release" => m.req \in Requests
           /\ m.t # "reserve" => m.serial \in Serials
           /\ m.t = "publish" => m.run \in Views
BY RequestFacts DEF Messages

-----------------------------------------------------------------------------
(* Frames: each part of the invariant speaks of a few variables.  A fence  *)
(* that falls, a message that leaves the lane and a receipt that is        *)
(* settled disturb none of them.                                           *)

\* The lane loses its first message at most, and gains only messages of the kinds in ts.
LaneMoves(ts) ==
    \E d \in {0, 1} : \A i \in Places' :
       (i + d \in Places /\ lane'[i] = lane[i + d]) \/ lane'[i].t \in ts

\* No receipt disappears, or changes its request.
DiskMoves ==
    \A k \in Keys : disk[k] # C!Absent => disk'[k] # C!Absent /\ disk'[k].req = disk[k].req

LEMMA LaneStays == ASSUME Len(lane) \in Nat, UNCHANGED lane PROVE LaneMoves({})
<1>1. \A i \in Places' : i + 0 \in Places /\ lane'[i] = lane[i + 0]
  BY DEF Places
<1>. QED  BY <1>1 DEF LaneMoves

LEMMA LaneGains ==
    ASSUME lane \in Seq(Messages), NEW m \in Messages, lane' = Append(lane, m)
    PROVE  LaneMoves({m.t})
<1>1. \A i \in Places' : (i + 0 \in Places /\ lane'[i] = lane[i + 0]) \/ lane'[i].t \in {m.t}
  BY LaneGrows DEF Places
<1>. QED  BY <1>1 DEF LaneMoves

LEMMA LaneLoses ==
    ASSUME lane \in Seq(Messages), lane # <<>>, lane' = Tail(lane)
    PROVE  LaneMoves({})
<1>1. \A i \in Places' : i + 1 \in Places /\ lane'[i] = lane[i + 1]
  BY LaneShrinks DEF Places
<1>. QED  BY <1>1 DEF LaneMoves

\* What leaves the lane is not replaced.
LEMMA OldMessages ==
    ASSUME NEW ts, LaneMoves(ts)
    PROVE  \E d \in {0, 1} : \A i \in Places' :
              lane'[i].t \notin ts => i + d \in Places /\ lane'[i] = lane[i + d]
BY DEF LaneMoves

LEMMA HoldersFrame ==
    ASSUME Holders, UNCHANGED <<slot, next, exec>>,
           NEW ts, LaneMoves(ts), "release" \notin ts
    PROVE  Holders'
BY OldMessages DEF Holders

LEMMA CountedFrame ==
    ASSUME Types, Counted, next'.serial = next.serial, DiskMoves,
           NEW ts, LaneMoves(ts), "reserve" \notin ts,
           load'.pc = "prepare" => UNCHANGED load
    PROVE  Counted'
<1>1. PICK d \in {0, 1} : \A i \in Places' :
         lane'[i].t \notin ts => i + d \in Places /\ lane'[i] = lane[i + d]
  BY OldMessages
<1>2. Asking' \subseteq Asking
  BY <1>1 DEF Asking
<1>3. Recorded \subseteq Recorded'
  BY RequestFacts DEF Recorded, DiskMoves
<1>4. /\ Cardinality(Asking) \in Nat /\ Cardinality(Asking') \in Nat
      /\ Cardinality(Recorded) \in Nat /\ Cardinality(Recorded') \in Nat
      /\ Cardinality(Asking') <= Cardinality(Asking)
      /\ Cardinality(Recorded) <= Cardinality(Recorded')
  <2>1. Asking \subseteq LoadRequests /\ Recorded' \subseteq LoadRequests
    BY DEF Asking, Recorded
  <2>2. IsFiniteSet(Asking) /\ IsFiniteSet(Recorded')
    BY <2>1, RequestsAssumption, FS_Subset
  <2>3. IsFiniteSet(Asking') /\ Cardinality(Asking') <= Cardinality(Asking)
    BY <1>2, <2>2, FS_Subset
  <2>4. IsFiniteSet(Recorded) /\ Cardinality(Recorded) <= Cardinality(Recorded')
    BY <1>3, <2>2, FS_Subset
  <2>. QED  BY <2>2, <2>3, <2>4, FS_CardinalityType
<1>5. \A i, j \in Places' : lane'[i].t = "reserve" /\ lane'[j].t = "reserve"
                            /\ lane'[i].req = lane'[j].req => i = j
  BY <1>1 DEF Counted, Places
<1>6. load'.pc = "prepare" => load'.req \notin Asking'
  BY <1>2 DEF Counted
<1>7. next'.serial + Cardinality(Asking') + (IF load'.pc = "prepare" THEN 1 ELSE 0)
         <= Cardinality(Recorded')
  BY <1>4 DEF Counted, Types
<1>. QED  BY <1>5, <1>6, <1>7 DEF Counted

LEMMA LoadMessagesFrame ==
    ASSUME Types, LoadMessages, DiskMoves, NEW ts, LaneMoves(ts), ts \subseteq {"release"},
           load'.pc # "idle" =>
              /\ load.pc # "idle" /\ load'.req = load.req
              /\ load.pc \notin {"begin", "prepare", "reserving"} =>
                    load'.pc \notin {"begin", "prepare", "reserving"} /\ load'.serial = load.serial
    PROVE  LoadMessages'
<1>1. PICK d \in {0, 1} : \A i \in Places' :
         lane'[i].t \notin ts => i + d \in Places /\ lane'[i] = lane[i + d]
  BY OldMessages
<1>2. ASSUME NEW i \in Places, lane[i].t # "release" PROVE KeyOf(lane[i].req) \in Keys
  BY <1>2, MessageFields, RequestFacts DEF Types, Places
<1>. QED  BY <1>1, <1>2, ZenonT(40) DEF LoadMessages, DiskMoves

LEMMA PublicationsFrame ==
    ASSUME Publications, UNCHANGED exec, cancelled \subseteq cancelled',
           NEW ts, LaneMoves(ts), "publish" \notin ts
    PROVE  Publications'
<1>1. PICK d \in {0, 1} : \A i \in Places' :
         lane'[i].t \notin ts => i + d \in Places /\ lane'[i] = lane[i + d]
  BY OldMessages
<1>. QED  BY <1>1, SMTT(30) DEF Publications, LivePublication, Places

LEMMA LaneEffectsFrame ==
    ASSUME LaneEffects, UNCHANGED done, cancelled \subseteq cancelled',
           NEW ts, LaneMoves(ts), "publish" \notin ts
    PROVE  LaneEffects'
BY OldMessages DEF LaneEffects, LivePublication

LEMMA LaneProgressFrame ==
    ASSUME LaneProgress, UNCHANGED <<done, exec>>, cancelled \subseteq cancelled',
           NEW ts, LaneMoves(ts), "publish" \notin ts
    PROVE  LaneProgress'
BY OldMessages DEF LaneProgress, LivePublication, StepsBelow

LEMMA DoneFrame ==
    ASSUME Types, UNCHANGED done
    PROVE  /\ DoneIsRecorded /\ DiskMoves => DoneIsRecorded'
           /\ LoadEffects /\ UNCHANGED load => LoadEffects'
           /\ CmdEffects /\ UNCHANGED cmd => CmdEffects'
           /\ ExecEffects /\ UNCHANGED exec => ExecEffects'
           /\ Epochs /\ UNCHANGED <<form, next, exec>> => Epochs'
           /\ RunProgress /\ UNCHANGED exec => RunProgress'
           /\ OneStepPerBoundary => OneStepPerBoundary'
<1>1. DoneIsRecorded /\ DiskMoves => DoneIsRecorded'
  BY RequestFacts DEF Types, DoneIsRecorded, DiskMoves
<1>2. /\ LoadEffects /\ UNCHANGED load => LoadEffects'
      /\ CmdEffects /\ UNCHANGED cmd => CmdEffects'
  BY DEF LoadEffects, CmdEffects, OutcomeIsTrue
<1>3. ExecEffects /\ UNCHANGED exec => ExecEffects'
  BY DEF ExecEffects
<1>4. Epochs /\ UNCHANGED <<form, next, exec>> => Epochs'
  BY DEF Epochs
<1>5. RunProgress /\ UNCHANGED exec => RunProgress'
  BY DEF RunProgress, StepsBelow
<1>6. OneStepPerBoundary => OneStepPerBoundary'
  BY DEF OneStepPerBoundary
<1>. QED  BY <1>1, <1>2, <1>3, <1>4, <1>5, <1>6

LEMMA ViewFrame ==
    ASSUME UNCHANGED <<slot, exec>>, cancelled \subseteq cancelled'
    PROVE  (Shown => Shown') /\ (PublishedIsCommitted => PublishedIsCommitted')
BY DEF Shown, PublishedIsCommitted, Live

\* An executor is linked to a job only while that job waits for it.
LEMMA LinkFrame ==
    ASSUME Types, ExecLink, UNCHANGED exec,
           UNCHANGED load \/ load.pc # "starting",
           UNCHANGED cmd \/ cmd.pc # "wait"
    PROVE  ExecLink'
<1>1. SUFFICES ASSUME NEW s \in Serials PROVE Linked(s, exec[s], load', cmd')
  BY DEF ExecLink
<1>2. Linked(s, exec[s], load, cmd)
  BY DEF ExecLink
<1>. QED  BY <1>2 DEF Linked

LEMMA JobFrame ==
    /\ LoadLink /\ UNCHANGED <<load, exec>> => LoadLink'
    /\ CmdLink /\ UNCHANGED <<cmd, exec>> /\ retained' \in {0, retained} => CmdLink'
    /\ Journalled /\ UNCHANGED <<load, cmd, disk>> => Journalled'
<1>1. LoadLink /\ UNCHANGED <<load, exec>> => LoadLink'
  BY DEF LoadLink, Started
<1>2. CmdLink /\ UNCHANGED <<cmd, exec>> /\ retained' \in {0, retained} => CmdLink'
  BY DEF CmdLink, Started
<1>3. Journalled /\ UNCHANGED <<load, cmd, disk>> => Journalled'
  BY DEF Journalled, Pending
<1>. QED  BY <1>1, <1>2, <1>3

\* A step of a job that touches no executor and publishes nothing.
LEMMA RunFrame ==
    ASSUME IndInv, UNCHANGED <<slot, next, form, exec, done>>, cancelled \subseteq cancelled',
           DiskMoves, NEW ts, LaneMoves(ts), "release" \notin ts, "publish" \notin ts
    PROVE  RunInv'
<1>. USE DEF IndInv, RunInv
<1>1. Holders' /\ Publications' /\ LaneEffects' /\ LaneProgress'
  BY HoldersFrame, PublicationsFrame, LaneEffectsFrame, LaneProgressFrame
<1>2. DoneIsRecorded' /\ ExecEffects' /\ Epochs' /\ RunProgress' /\ OneStepPerBoundary'
  BY DoneFrame
<1>3. Shown' /\ PublishedIsCommitted'
  BY ViewFrame
<1>. QED  BY <1>1, <1>2, <1>3

-----------------------------------------------------------------------------
(* The journals.                                                           *)

LEMMA ReceiptFields ==
    \A r \in Requests, s \in C!Outcomes \cup {"pending"} :
       /\ C!Receipt(r, s) \in Receipts /\ C!Receipt(r, s).req = r /\ C!Receipt(r, s).st = s
       /\ C!Receipt(r, s) # C!Absent
<1>1. C!Absent.st = "absent"
  BY DEF C!Absent
<1>2. \A r \in Requests, s \in C!Outcomes \cup {"pending"} :
         C!Receipt(r, s).req = r /\ C!Receipt(r, s).st = s
  BY DEF C!Receipt
<1>3. \A s \in C!Outcomes \cup {"pending"} : s # "absent"
  BY DEF C!Outcomes
<1>4. \A r \in Requests, s \in C!Outcomes \cup {"pending"} : C!Receipt(r, s) \in Receipts
  BY DEF Receipts
<1>. QED  BY <1>1, <1>2, <1>3, <1>4

\* A write, whether it survives or not.
LEMMA Written ==
    ASSUME Types, NEW r \in Requests, NEW st \in C!Outcomes \cup {"pending"},
           disk[KeyOf(r)] = C!Absent \/ Pending(r),
           disk' = disk \/ disk' = With(r, st)
    PROVE  /\ disk' \in [Keys -> {C!Absent} \cup Receipts]
           /\ DiskMoves
           /\ \A k \in Keys : k # KeyOf(r) => disk'[k] = disk[k]
           /\ disk' = With(r, st) => disk'[KeyOf(r)] = C!Receipt(r, st)
<1>1. KeyOf(r) \in Keys
  BY RequestFacts
<1>2. /\ C!Receipt(r, st) \in Receipts /\ C!Receipt(r, st).req = r /\ C!Receipt(r, st) # C!Absent
      /\ C!Receipt(r, "pending").req = r
  BY ReceiptFields
<1>3. disk[KeyOf(r)] # C!Absent => disk[KeyOf(r)].req = r
  BY <1>2 DEF Pending
<1>4. CASE disk' = disk
  <2>1. disk' = With(r, st) => disk'[KeyOf(r)] = C!Receipt(r, st)
    BY <1>1 DEF Types, With
  <2>. QED  BY <1>4, <2>1 DEF Types, DiskMoves
<1>5. CASE disk' = With(r, st)
  <2>1. /\ disk' \in [Keys -> {C!Absent} \cup Receipts]
        /\ \A k \in Keys : k # KeyOf(r) => disk'[k] = disk[k]
        /\ disk'[KeyOf(r)] = C!Receipt(r, st)
    BY <1>1, <1>2, <1>5 DEF Types, With
  <2>2. DiskMoves
    <3>. SUFFICES ASSUME NEW k \in Keys, disk[k] # C!Absent
                  PROVE  disk'[k] # C!Absent /\ disk'[k].req = disk[k].req
      BY DEF DiskMoves
    <3>1. CASE k = KeyOf(r)
      BY <3>1, <2>1, <1>2, <1>3
    <3>2. CASE k # KeyOf(r)
      BY <3>2, <2>1
    <3>. QED  BY <3>1, <3>2
  <2>. QED  BY <2>1, <2>2
<1>. QED  BY <1>4, <1>5

\* The ways a write ends.
LEMMA Writes ==
    ASSUME Types, NEW r \in Requests
    PROVE  /\ Begins(r) => disk' = With(r, "pending") /\ UNCHANGED poisoned
           /\ BeginFails(r) => /\ disk' = disk \/ disk' = With(r, "pending")
                               /\ poisoned' \subseteq Lanes
           /\ \A st : Finishes(r, st) => /\ disk' = disk \/ disk' = With(r, st)
                                         /\ poisoned' \subseteq Lanes
<1>1. r.lane \in Lanes
  BY RequestFacts DEF Requests, Lanes
<1>. QED  BY <1>1 DEF Types, Begins, BeginFails, Finishes, Replaced, ReplaceFails, NotWritten

LEMMA DiskStays == ASSUME UNCHANGED disk PROVE DiskMoves
BY DEF DiskMoves

\* What the job of one lane writes does not concern the job of the other.
LEMMA OtherLane ==
    ASSUME Types, LoadLink, CmdLink
    PROVE  load.pc # "idle" => \A r \in RunCommands : KeyOf(load.req) # KeyOf(r) /\ load.req # r
BY RequestFacts DEF LoadLink

-----------------------------------------------------------------------------
(* Steps of the load job that touch no executor.                           *)

LEMMA SubmitLoadInv ==
    ASSUME IndInv, NEW r \in LoadRequests, SubmitLoad(r)
    PROVE  IndInv'
<1>. USE DEF IndInv, JobInv
<1>1. /\ load.pc = "idle" /\ disk[KeyOf(r)] = C!Absent
      /\ retained' = 0 /\ cancelled \subseteq cancelled'
      /\ UNCHANGED <<disk, poisoned, done, form, eligible, slot, next, lane, closed, cmd, exec>>
  BY DEF SubmitLoad, LoadAt, Unused, journalVars, ownerVars
<1>2. /\ load'.pc = "begin" /\ load'.req = r /\ load'.serial = 0 /\ load' \in LoadJobs
  BY ConstantTypes DEF SubmitLoad, IdleJob, LoadJobs, LoadPcs
<1>3. Types'
  BY <1>1, <1>2 DEF SubmitLoad, Types
<1>4. DiskMoves /\ LaneMoves({})
  BY <1>1, DiskStays, LaneStays DEF Types
<1>5. RunInv'
  BY <1>1, <1>4, RunFrame
<1>6. Counted'
  BY <1>1, <1>2, <1>4, CountedFrame
<1>7. LoadLink'
  BY <1>2 DEF LoadLink
<1>8. CmdLink' /\ ExecLink'
  BY <1>1, JobFrame, LinkFrame
<1>9. LoadMessages'
  BY <1>1, <1>2 DEF LoadMessages, Places
<1>10. Journalled'
  BY <1>1, <1>2 DEF Journalled, Pending
<1>11. CmdEffects' /\ LoadEffects'
  BY <1>1, <1>2, DoneFrame DEF LoadEffects, RunInv, DoneIsRecorded
<1>. QED  BY <1>3, <1>5, <1>6, <1>7, <1>8, <1>9, <1>10, <1>11

LEMMA LoadFinishInv == ASSUME IndInv, LoadFinish PROVE IndInv'
<1>. USE DEF IndInv, JobInv
<1>1. /\ load.pc = "finish" /\ load.req \in LoadRequests /\ load.req \in Requests
      /\ Finishes(load.req, load.outcome) /\ load' = IdleJob
      /\ UNCHANGED <<done, form, eligible, slot, next, lane, cancelled, closed, retained, cmd, exec>>
  BY RequestFacts DEF LoadFinish, LoadAt, ownerVars, hostVars, LoadLink
<1>2. load.outcome \in C!Outcomes /\ Pending(load.req)
  BY <1>1 DEF LoadEffects, OutcomeIsTrue, Journalled
<1>3. /\ disk' \in [Keys -> {C!Absent} \cup Receipts] /\ DiskMoves
      /\ \A k \in Keys : k # KeyOf(load.req) => disk'[k] = disk[k]
      /\ poisoned' \subseteq Lanes
  BY <1>1, <1>2, Writes, Written
<1>4. load'.pc = "idle" /\ load' \in LoadJobs
  BY <1>1, ConstantTypes DEF IdleJob
<1>5. Types'
  BY <1>1, <1>3, <1>4 DEF Types
<1>6. LaneMoves({})
  BY <1>1, LaneStays DEF Types
<1>7. RunInv'
  BY <1>1, <1>3, <1>6, RunFrame
<1>8. Counted' /\ LoadMessages'
  BY <1>1, <1>3, <1>4, <1>6, CountedFrame, LoadMessagesFrame
<1>9. LoadLink' /\ CmdLink' /\ ExecLink'
  BY <1>1, <1>4, JobFrame, LinkFrame DEF LoadLink
<1>10. Journalled'
  BY <1>1, <1>3, <1>4, OtherLane, RequestFacts DEF Journalled, Pending, CmdLink
<1>11. CmdEffects' /\ LoadEffects'
  BY <1>1, <1>4, DoneFrame DEF LoadEffects
<1>. QED  BY <1>5, <1>7, <1>8, <1>9, <1>10, <1>11

LEMMA LoadBeginInv == ASSUME IndInv, LoadBegin PROVE IndInv'
<1>. USE DEF IndInv, JobInv
<1>1. /\ load.pc = "begin" /\ load.req \in LoadRequests /\ load.req \in Requests
      /\ disk[KeyOf(load.req)] = C!Absent
      /\ UNCHANGED <<done, form, eligible, slot, next, lane, cancelled, closed, retained, cmd, exec>>
  BY RequestFacts DEF LoadBegin, LoadAt, ownerVars, hostVars, LoadLink, Journalled
<1>2. \/ load' = [load EXCEPT !.pc = "prepare"] /\ disk' = With(load.req, "pending") /\ UNCHANGED poisoned
      \/ /\ load' = IdleJob /\ poisoned' \subseteq Lanes
         /\ disk' = disk \/ disk' = With(load.req, "pending")
  BY <1>1, Writes DEF LoadBegin, LoadGoes
<1>3. /\ disk' \in [Keys -> {C!Absent} \cup Receipts] /\ DiskMoves
      /\ \A k \in Keys : k # KeyOf(load.req) => disk'[k] = disk[k]
      /\ disk' = With(load.req, "pending") => disk'[KeyOf(load.req)] = C!Receipt(load.req, "pending")
      /\ poisoned' \subseteq Lanes
  BY <1>1, <1>2, Written DEF Types
<1>4. \/ load'.pc = "prepare" /\ load'.req = load.req /\ load'.serial = load.serial /\ load' \in LoadJobs
         /\ disk' = With(load.req, "pending")
      \/ load'.pc = "idle" /\ load' \in LoadJobs
  BY <1>2, ConstantTypes DEF IdleJob, LoadPcs, LoadJobs, Types
<1>5. Types'
  BY <1>1, <1>3, <1>4 DEF Types
<1>6. LaneMoves({})
  BY <1>1, LaneStays DEF Types
<1>7. RunInv'
  BY <1>1, <1>3, <1>6, RunFrame
<1>8. LoadMessages'
  BY <1>1, <1>3, <1>4, <1>6, LoadMessagesFrame
<1>9. LoadLink' /\ CmdLink' /\ ExecLink'
  BY <1>1, <1>4, JobFrame, LinkFrame DEF LoadLink
<1>10. Journalled'
  <2>1. cmd.pc # "idle" => KeyOf(cmd.req) # KeyOf(load.req) /\ KeyOf(cmd.req) \in Keys
    BY <1>1, RequestFacts DEF CmdLink
  <2>. QED  BY <1>1, <1>3, <1>4, <2>1 DEF Journalled, Pending
<1>11. CmdEffects' /\ LoadEffects'
  BY <1>1, <1>4, DoneFrame DEF LoadEffects
<1>12. Counted'
  <2>1. CASE load'.pc = "idle"
    BY <2>1, <1>1, <1>3, <1>6, CountedFrame
  <2>2. CASE load'.pc = "prepare"
    <3>1. Asking' = Asking /\ Places' = Places
      BY <1>1 DEF Asking, Places
    <3>2. load.req \notin Asking
      BY <1>1 DEF Asking, LoadMessages
    <3>3. load.req \notin Recorded /\ Recorded \cup {load.req} \subseteq Recorded'
      BY <1>1, <1>3, <1>4, <2>2, ReceiptFields, RequestFacts DEF Recorded, DiskMoves
    <3>4. IsFiniteSet(Recorded) /\ IsFiniteSet(Recorded')
      BY RequestsAssumption, FS_Subset DEF Recorded
    <3>5. Cardinality(Recorded) \in Nat /\ Cardinality(Recorded) + 1 <= Cardinality(Recorded')
      BY <3>3, <3>4, FS_AddElement, FS_Subset, FS_CardinalityType
    <3>6. Cardinality(Asking) \in Nat
      BY RequestsAssumption, FS_Subset, FS_CardinalityType DEF Asking
    <3>7. Cardinality(Recorded') \in Nat
      BY <3>4, FS_CardinalityType
    <3>8. next.serial + Cardinality(Asking) <= Cardinality(Recorded)
      BY <1>1, <3>6, <3>5 DEF Counted, Types
    <3>9. next'.serial + Cardinality(Asking') + 1 <= Cardinality(Recorded')
      BY <1>1, <3>1, <3>5, <3>6, <3>7, <3>8 DEF Types
    <3>. QED  BY <1>1, <1>4, <2>2, <3>1, <3>2, <3>9 DEF Counted
  <2>. QED  BY <1>4, <2>1, <2>2
<1>. QED  BY <1>5, <1>7, <1>8, <1>9, <1>10, <1>11, <1>12

\* The job moves on by itself, or ends without an effect.
LEMMA LoadMovesInv ==
    ASSUME IndInv, load.pc \in {"prepare", "reserving", "retain", "drop"}, load' \in LoadJobs,
           load'.pc = "finish", load'.req = load.req, load'.serial = load.serial,
           OutcomeIsTrue(load'),
           cancelled \subseteq cancelled', cancelled' \subseteq Serials,
           retained' \in {0, retained} \/ (load.pc = "retain" /\ retained' = load.serial),
           lane' \in Seq(Messages), LaneMoves({}),
           UNCHANGED <<disk, poisoned, done, form, eligible, slot, next, closed, cmd, exec>>
    PROVE  IndInv'
<1>. USE DEF IndInv, JobInv
<1>1. DiskMoves
  BY DiskStays
<1>2. retained' \in Serials \cup {0}
  BY DEF Types, LoadLink
<1>3. Types'
  BY <1>2 DEF Types
<1>4. RunInv'
  BY <1>1, RunFrame
<1>5. Counted' /\ LoadMessages'
  BY <1>1, CountedFrame, LoadMessagesFrame
<1>6. LoadLink' /\ ExecLink'
  BY LinkFrame DEF LoadLink
<1>7. CmdLink'
  BY DEF CmdLink, Started, LoadLink
<1>8. Journalled'
  BY DEF Journalled, Pending
<1>9. CmdEffects' /\ LoadEffects'
  BY DoneFrame DEF LoadEffects, OutcomeIsTrue
<1>. QED  BY <1>3, <1>4, <1>5, <1>6, <1>7, <1>8, <1>9

LEMMA LoadRetainInv == ASSUME IndInv, LoadRetain PROVE IndInv'
<1>. USE DEF IndInv, JobInv
<1>1. /\ load.pc = "retain" /\ load' = [load EXCEPT !.pc = "finish", !.outcome = "applied"]
      /\ UNCHANGED <<disk, poisoned, done, form, eligible, slot, next, lane, closed, cmd, exec>>
  BY DEF LoadRetain, LoadAt, LoadEnds, journalVars, ownerVars
<1>2. /\ load' \in LoadJobs /\ load'.pc = "finish" /\ load'.req = load.req
      /\ load'.serial = load.serial /\ load'.outcome = "applied"
  BY <1>1 DEF Types, LoadJobs, LoadPcs, C!Outcomes
<1>3. OutcomeIsTrue(load')
  BY <1>1, <1>2 DEF LoadEffects, OutcomeIsTrue, C!Outcomes
<1>4. /\ cancelled \subseteq cancelled' /\ cancelled' \subseteq Serials
      /\ retained' \in {retained, load.serial}
  BY <1>1 DEF LoadRetain, Types, LoadLink
<1>. QED  BY <1>1, <1>2, <1>3, <1>4, LaneStays, LoadMovesInv DEF Types

LEMMA LoadDroppedInv == ASSUME IndInv, LoadDropped PROVE IndInv'
<1>. USE DEF IndInv, JobInv
<1>1. /\ load.pc = "drop" /\ load' = [load EXCEPT !.pc = "finish"]
      /\ UNCHANGED <<disk, poisoned, done, form, eligible, slot, next, lane, closed, cmd, exec,
                     cancelled, retained>>
  BY DEF LoadDropped, LoadAt, LoadGoes, journalVars, ownerVars, hostVars
<1>2. /\ load' \in LoadJobs /\ load'.pc = "finish" /\ load'.req = load.req
      /\ load'.serial = load.serial /\ load'.outcome = load.outcome
  BY <1>1 DEF Types, LoadJobs, LoadPcs
<1>3. OutcomeIsTrue(load')
  BY <1>1, <1>2 DEF LoadEffects, OutcomeIsTrue
<1>. QED  BY <1>1, <1>2, <1>3, LaneStays, LoadMovesInv DEF Types

\* A refusal before any reservation.
LEMMA LoadRefusedInv ==
    ASSUME IndInv, load.pc \in {"prepare", "reserving"}, LoadEnds("refused"),
           lane' \in Seq(Messages), LaneMoves({}),
           UNCHANGED <<disk, poisoned, done, form, eligible, slot, next, closed, cmd, exec,
                       cancelled, retained>>
    PROVE  IndInv'
<1>. USE DEF IndInv, JobInv
<1>1. /\ load' \in LoadJobs /\ load'.pc = "finish" /\ load'.req = load.req
      /\ load'.serial = load.serial /\ load'.outcome = "refused"
  BY DEF Types, LoadJobs, LoadPcs, LoadEnds, C!Outcomes
<1>2. OutcomeIsTrue(load')
  BY <1>1 DEF LoadEffects, OutcomeIsTrue, C!Outcomes
<1>. QED  BY <1>1, <1>2, LoadMovesInv DEF Types

LEMMA LoadPrepareInv == ASSUME IndInv, LoadPrepare PROVE IndInv'
<1>. USE DEF IndInv, JobInv
<1>. DEFINE m == [t |-> "reserve", req |-> load.req]
<1>1. /\ load.pc = "prepare" /\ load.req \in LoadRequests /\ load.req \notin Asking
      /\ UNCHANGED <<disk, poisoned, done, form, eligible, slot, next, cancelled, closed, retained,
                     cmd, exec>>
  BY DEF LoadPrepare, LoadAt, journalVars, hostVars, LoadLink, Counted
<1>2. CASE LoadEnds("refused") /\ UNCHANGED lane
  BY <1>1, <1>2, LaneStays, LoadRefusedInv DEF IndInv, Types
<1>3. CASE LoadGoes("reserving") /\ Send(m)
  <2>1. /\ load' \in LoadJobs /\ load'.pc = "reserving" /\ load'.req = load.req
        /\ load'.serial = load.serial
    BY <1>3 DEF LoadGoes, Types, LoadJobs, LoadPcs
  <2>2. m \in Messages /\ m.t = "reserve" /\ m.req = load.req /\ lane' = Append(lane, m)
    BY <1>1, <1>3 DEF Messages, Send
  <2>. HIDE DEF m
  <2>3. LaneMoves({"reserve"}) /\ DiskMoves
    BY <1>1, <2>2, LaneGains, DiskStays DEF Types
  <2>4. Types'
    BY <1>1, <2>1, <2>2, LaneGrows DEF Types
  <2>5. RunInv'
    BY <1>1, <2>3, RunFrame
  <2>6. LoadLink' /\ CmdLink' /\ ExecLink'
    BY <1>1, <2>1, JobFrame, LinkFrame DEF LoadLink
  <2>7. LoadMessages'
    BY <1>1, <2>1, <2>2, LaneGrows, ReceiptFields, RequestFacts
    DEF LoadMessages, Types, Journalled, Pending
  <2>8. Journalled' /\ CmdEffects' /\ LoadEffects'
    BY <1>1, <2>1, DoneFrame DEF Journalled, Pending, LoadEffects
  <2>9. Counted'
    <3>1. Asking' = Asking \cup {load.req}
      <4>1. ASSUME NEW r \in Asking' PROVE r \in Asking \cup {load.req}
        BY <4>1, <2>2, LaneGrows DEF Asking, Types
      <4>2. ASSUME NEW r \in Asking PROVE r \in Asking'
        BY <4>2, <2>2, LaneGrows DEF Asking, Types
      <4>3. load.req \in Asking'
        BY <1>1, <2>2, LaneGrows DEF Asking, Types
      <4>. QED  BY <4>1, <4>2, <4>3
    <3>2. IsFiniteSet(Asking) /\ Cardinality(Asking) \in Nat /\ Cardinality(Recorded) \in Nat
      BY RequestsAssumption, FS_Subset, FS_CardinalityType DEF Asking, Recorded
    <3>3. Cardinality(Asking') = Cardinality(Asking) + 1
      BY <1>1, <3>1, <3>2, FS_AddElement
    <3>4. Recorded' = Recorded
      BY <1>1 DEF Recorded
    <3>5. \A i, j \in Places' : lane'[i].t = "reserve" /\ lane'[j].t = "reserve"
                                /\ lane'[i].req = lane'[j].req => i = j
      BY <1>1, <2>2, LaneGrows DEF Counted, Types, Asking
    <3>6. next'.serial + Cardinality(Asking') <= Cardinality(Recorded')
      BY <1>1, <3>2, <3>3, <3>4 DEF Counted, Types
    <3>7. next'.serial + Cardinality(Asking') + 0 <= Cardinality(Recorded')
      BY <1>1, <3>2, <3>3, <3>6 DEF Types
    <3>. QED  BY <2>1, <3>5, <3>7 DEF Counted
  <2>. QED  BY <2>4, <2>5, <2>6, <2>7, <2>8, <2>9
<1>. QED  BY <1>2, <1>3 DEF LoadPrepare

\* The job asks the owner about its own reservation.
LEMMA LoadAsksInv ==
    ASSUME IndInv, load' \in LoadJobs, load'.req = load.req, load'.serial = load.serial,
           \/ load.pc = "receive" /\ load'.pc = "allocating"
           \/ load.pc = "admit" /\ load'.pc = "confirming",
           NEW m \in Messages, m.t \in {"allocate", "confirm"}, m.req = load.req,
           m.serial = load.serial, Send(m),
           UNCHANGED <<disk, poisoned, done, form, eligible, slot, next, cancelled, closed,
                       retained, cmd, exec>>
    PROVE  IndInv'
<1>. USE DEF IndInv, JobInv
<1>1. lane' = Append(lane, m) /\ LaneMoves({m.t}) /\ DiskMoves
  BY LaneGains, DiskStays DEF Types, Send
<1>2. Types'
  BY <1>1, LaneGrows DEF Types
<1>3. RunInv'
  BY <1>1, RunFrame
<1>4. Counted'
  BY <1>1, CountedFrame
<1>5. LoadLink' /\ CmdLink' /\ ExecLink'
  BY JobFrame, LinkFrame DEF LoadLink
<1>6. load.req \in Requests
  BY RequestFacts DEF LoadLink
<1>7. LoadMessages'
  BY <1>1, <1>6, LaneGrows, ReceiptFields DEF LoadMessages, Types, Journalled, Pending
<1>8. Journalled' /\ CmdEffects' /\ LoadEffects'
  BY DoneFrame DEF Journalled, Pending, LoadEffects
<1>. QED  BY <1>2, <1>3, <1>4, <1>5, <1>7, <1>8

-----------------------------------------------------------------------------
(* A holder leaves: everything about its reservation becomes vacuous.      *)

\* At most one reservation is held.
LEMMA OneHolder ==
    ASSUME Holders, NEW s \in Serials, exec[s].pc \notin {"off", "gone"}
    PROVE  slot.active = s /\ \A q \in Serials : q # s => exec[q].pc \in {"off", "gone"}
BY DEF Holders

LEMMA HolderLeaves ==
    ASSUME IndInv, NEW s \in Serials, NEW e \in Execs,
           exec[s].pc \notin {"off", "gone"}, e.pc \in {"dropping", "disposed", "gone"},
           e.form <= exec[s].form, e.epoch <= exec[s].epoch,
           exec' = [exec EXCEPT ![s] = e],
           s \in cancelled' \/ exec[s].pc \notin {"publishing", "lost"},
           cancelled \subseteq cancelled',
           retained' \in {0, retained},
           UNCHANGED cmd \/ (cmd'.pc = "finish" /\ cmd'.req \in RunCommands),
           UNCHANGED <<disk, done, slot, next, form>>,
           NEW ts, LaneMoves(ts), "publish" \notin ts,
           \A i \in Places' : lane'[i].t = "release" => exec'[lane'[i].serial].pc = "gone"
    PROVE  RunInv' /\ CmdLink' /\ ExecLink'
<1>. USE DEF IndInv, JobInv, RunInv
<1>1. exec'[s] = e /\ \A q \in Serials : q # s => exec'[q] = exec[q]
  BY DEF Types
<1>2. \A q \in Serials : exec'[q].pc \in {"off", "gone", "dropping", "disposed"}
  BY <1>1, OneHolder
<1>3. Holders'
  <2>1. \A q \in Serials : /\ exec'[q].pc = "off" <=> q > next'.serial
                           /\ exec'[q].pc \notin {"off", "gone"} => slot'.active = q
    BY <1>1, OneHolder DEF Holders
  <2>. QED  BY <2>1 DEF Holders
<1>4. \A i \in Places' : ~LivePublication(i)'
  <2>1. ASSUME NEW i \in Places', LivePublication(i)' PROVE FALSE
    <3>1. PICK j \in Places : lane'[i] = lane[j]
      BY <2>1, OldMessages DEF LivePublication
    <3>2. LivePublication(j)
      BY <2>1, <3>1 DEF LivePublication
    <3>3. exec[lane[j].serial].pc \in {"publishing", "lost"}
      BY <3>2 DEF Publications
    <3>4. lane[j].serial \in Serials
      BY <3>2, MessageFields DEF Types, LivePublication, Places
    <3>5. lane[j].serial = s
      BY <3>3, <3>4, OneHolder
    <3>. QED  BY <2>1, <3>1, <3>3, <3>5 DEF LivePublication
  <2>. QED  BY <2>1
<1>5. Publications' /\ LaneEffects' /\ LaneProgress'
  BY <1>4 DEF Publications, LaneEffects, LaneProgress
<1>6. ExecEffects' /\ RunProgress' /\ Shown' /\ PublishedIsCommitted'
  BY <1>2 DEF ExecEffects, RunProgress, Shown, PublishedIsCommitted
<1>7. DoneIsRecorded' /\ OneStepPerBoundary'
  BY DoneFrame, DiskStays
<1>8. Epochs'
  <2>1. \A q \in Serials : exec'[q].form <= form /\ exec'[q].epoch <= next.epoch
    <3>1. /\ e.form \in Nat /\ e.epoch \in Nat /\ exec[s].form \in Nat /\ exec[s].epoch \in Nat
          /\ form \in Nat /\ next.epoch \in Nat
      BY DEF Types, Execs
    <3>. QED  BY <1>1, <3>1 DEF Epochs
  <2>. QED  BY <2>1 DEF Epochs
<1>9. ExecLink'
  BY <1>2, ZenonT(40) DEF ExecLink, Linked, Running
<1>10. CmdLink'
  <2>1. \A q \in Serials : Started(q) => Started(q)'
    BY <1>1 DEF Started
  <2>2. retained' # 0 => Started(retained)'
    BY <2>1 DEF CmdLink, Types
  <2>3. UNCHANGED cmd => CmdLink'
    BY <1>1, <2>1, <2>2 DEF CmdLink
  <2>. QED  BY <2>2, <2>3 DEF CmdLink
<1>. QED  BY <1>3, <1>5, <1>6, <1>7, <1>8, <1>9, <1>10

LEMMA LeftType ==
    ASSUME Types, NEW s \in Serials, NEW p \in ExecPcs
    PROVE  /\ Left(s, p) \in Execs /\ Left(s, p).pc = p
           /\ Left(s, p).form = exec[s].form /\ Left(s, p).epoch = 0
<1>1. exec[s].form \in Nat
  BY DEF Types, Execs
<1>. QED  BY <1>1, ConstantTypes DEF Left, Execs, Vacant

\* A failed admission.
LEMMA LoadDropsInv ==
    ASSUME IndInv, load.pc \in {"receive", "allocating", "admit", "confirming", "start"},
           NEW o \in {"refused", "indeterminate"}, LoadDrops(load.serial, o),
           lane' \in Seq(Messages), LaneMoves({}),
           UNCHANGED <<disk, poisoned, done, form, eligible, slot, next, cancelled, closed,
                       retained, cmd>>
    PROVE  IndInv'
<1>. USE DEF IndInv, JobInv
<1>. DEFINE s == load.serial
            e == Left(s, IF exec[s].pc = "leased" THEN "disposed" ELSE "dropping")
<1>1. s \in Serials /\ exec[s].pc \in {"leased", "built"}
  BY DEF LoadLink
<1>2. /\ load' \in LoadJobs /\ load'.pc = "drop" /\ load'.req = load.req
      /\ load'.serial = load.serial /\ load'.outcome = o
  BY DEF LoadDrops, Types, LoadJobs, LoadPcs, C!Outcomes
<1>3. exec' = [exec EXCEPT ![s] = e]
  BY <1>1 DEF LoadDrops, Types
<1>4. e \in Execs /\ e.pc \in {"disposed", "dropping"} /\ e.form = exec[s].form /\ e.epoch = 0
  BY <1>1, LeftType DEF ExecPcs
<1>5. e.form <= exec[s].form /\ e.epoch <= exec[s].epoch
  <2>1. exec[s].form \in Nat /\ exec[s].epoch \in Nat
    BY <1>1 DEF Types, Execs
  <2>. QED  BY <1>4, <2>1
<1>. HIDE DEF s, e
<1>6. exec'[s] = e /\ \A q \in Serials : q # s => exec'[q] = exec[q]
  BY <1>1, <1>3 DEF Types
<1>7. \A i \in Places' : lane'[i].t = "release" => exec'[lane'[i].serial].pc = "gone"
  <2>1. \A i \in Places' : lane'[i].t = "release" => exec[lane'[i].serial].pc = "gone"
    BY OldMessages DEF RunInv, Holders
  <2>2. \A i \in Places' : lane'[i].t = "release" => lane'[i].serial \in Serials
    BY MessageFields DEF Places
  <2>. QED  BY <1>1, <1>6, <2>1, <2>2
<1>8. RunInv' /\ CmdLink' /\ ExecLink'
  BY <1>1, <1>3, <1>4, <1>5, <1>7, HolderLeaves
<1>9. Types'
  BY <1>2, <1>3, <1>4 DEF Types
<1>10. Counted' /\ LoadMessages'
  BY <1>2, DiskStays, CountedFrame, LoadMessagesFrame
<1>11. LoadLink'
  BY <1>1, <1>2, <1>4, <1>6 DEF LoadLink, s
<1>12. Journalled' /\ CmdEffects' /\ LoadEffects'
  BY <1>2, DoneFrame DEF Journalled, Pending, LoadEffects, OutcomeIsTrue, C!Outcomes
<1>. QED  BY <1>8, <1>9, <1>10, <1>11, <1>12

LEMMA LoadReceiveInv == ASSUME IndInv, LoadReceive PROVE IndInv'
<1>. DEFINE m == [t |-> "allocate", req |-> load.req, serial |-> load.serial]
<1>1. /\ load.pc = "receive" /\ load.req \in LoadRequests /\ load.serial \in Serials
      /\ UNCHANGED <<disk, poisoned, done, form, eligible, slot, next, cancelled, closed, retained, cmd>>
  BY DEF LoadReceive, LoadAt, journalVars, hostVars, IndInv, JobInv, LoadLink
<1>2. CASE LoadDrops(load.serial, "refused") /\ UNCHANGED lane
  BY <1>1, <1>2, LaneStays, LoadDropsInv DEF IndInv, Types
<1>3. CASE LoadGoes("allocating") /\ Send(m) /\ UNCHANGED exec
  <2>1. /\ load' \in LoadJobs /\ load'.pc = "allocating" /\ load'.req = load.req
        /\ load'.serial = load.serial
    BY <1>3 DEF LoadGoes, IndInv, Types, LoadJobs, LoadPcs
  <2>2. m \in Messages /\ m.t = "allocate" /\ m.req = load.req /\ m.serial = load.serial
    BY <1>1 DEF Messages
  <2>. QED  BY <1>1, <1>3, <2>1, <2>2, LoadAsksInv
<1>. QED  BY <1>2, <1>3 DEF LoadReceive

LEMMA LoadAdmitInv == ASSUME IndInv, LoadAdmit PROVE IndInv'
<1>. DEFINE m == [t |-> "confirm", req |-> load.req, serial |-> load.serial,
                  epoch |-> exec[load.serial].epoch]
<1>1. /\ load.pc = "admit" /\ load.req \in LoadRequests /\ load.serial \in Serials
      /\ UNCHANGED <<disk, poisoned, done, form, eligible, slot, next, cancelled, closed, retained, cmd>>
  BY DEF LoadAdmit, LoadAt, journalVars, hostVars, IndInv, JobInv, LoadLink
<1>2. CASE LoadDrops(load.serial, "refused") /\ UNCHANGED lane
  BY <1>1, <1>2, LaneStays, LoadDropsInv DEF IndInv, Types
<1>3. CASE LoadGoes("confirming") /\ Send(m) /\ UNCHANGED exec
  <2>1. /\ load' \in LoadJobs /\ load'.pc = "confirming" /\ load'.req = load.req
        /\ load'.serial = load.serial
    BY <1>3 DEF LoadGoes, IndInv, Types, LoadJobs, LoadPcs
  <2>2. exec[load.serial].epoch \in Nat
    BY <1>1 DEF IndInv, Types, Execs
  <2>3. m \in Messages /\ m.t = "confirm" /\ m.req = load.req /\ m.serial = load.serial
    BY <1>1, <2>2 DEF Messages
  <2>. QED  BY <1>1, <1>3, <2>1, <2>3, LoadAsksInv
<1>. QED  BY <1>2, <1>3 DEF LoadAdmit

LEMMA LoadGivesUpInv == ASSUME IndInv, LoadGivesUp PROVE IndInv'
<1>1. UNCHANGED <<disk, poisoned, done, form, eligible, slot, next, lane, cancelled, closed,
                  retained, cmd>>
  BY DEF LoadGivesUp, journalVars, ownerVars, hostVars
<1>2. CASE load.pc = "reserving" /\ LoadEnds("refused") /\ UNCHANGED exec
  BY <1>1, <1>2, LaneStays, LoadRefusedInv DEF IndInv, Types
<1>3. CASE load.pc \in {"allocating", "confirming"} /\ LoadDrops(load.serial, "refused")
  BY <1>1, <1>3, LaneStays, LoadDropsInv DEF IndInv, Types
<1>. QED  BY <1>2, <1>3 DEF LoadGivesUp, LoadAt

-----------------------------------------------------------------------------
(* An executor publishes, and rests.                                       *)

LEMMA HolderPublishes ==
    ASSUME IndInv, NEW s \in Serials, NEW e \in Execs, NEW m \in Messages,
           exec[s].pc \in {"built", "queued"}, exec' = [exec EXCEPT ![s] = e],
           e.pc = "publishing", e.req \in Requests, e.req \notin done,
           e.form = exec[s].form, e.epoch = exec[s].epoch, e.view = exec[s].view,
           m.t = "publish", m.serial = s, m.req = e.req, m.run = e.next, Send(m),
           UNCHANGED <<disk, done, slot, next, form, cancelled>>
    PROVE  RunInv'
<1>. USE DEF IndInv, RunInv
<1>1. exec'[s] = e /\ \A q \in Serials : q # s => exec'[q] = exec[q]
  BY DEF Types
<1>2. slot.active = s /\ \A q \in Serials : q # s => exec'[q].pc \in {"off", "gone"}
  BY <1>1, OneHolder
<1>3. /\ \A i \in Places : i \in Places' /\ lane'[i] = lane[i]
      /\ Len(lane) + 1 \in Places' /\ lane'[Len(lane) + 1] = m
      /\ \A i \in Places' : i \in Places \/ i = Len(lane) + 1
  BY LaneGrows DEF Types, Send
<1>4. \A i \in Places : ~LivePublication(i)
  <2>1. \A i \in Places : LivePublication(i) => lane[i].serial \in Serials
    BY MessageFields DEF Types, LivePublication, Places
  <2>. QED  BY <1>1, <1>2, <2>1 DEF Publications
<1>5. \A i \in Places' : LivePublication(i)' => i = Len(lane) + 1
  BY <1>3, <1>4 DEF LivePublication
<1>6. Publications' /\ LaneEffects'
  BY <1>1, <1>3, <1>5 DEF Publications, LaneEffects
<1>7. StepsBelow(e.form, e.epoch, e.view.at)'
  BY DEF RunProgress, StepsBelow
<1>8. LaneProgress'
  BY <1>1, <1>3, <1>5, <1>7 DEF LaneProgress
<1>9. RunProgress'
  BY <1>1, <1>2, <1>7 DEF RunProgress
<1>10. Holders'
  <2>1. \A q \in Serials : /\ exec'[q].pc = "off" <=> q > next'.serial
                           /\ exec'[q].pc \notin {"off", "gone"} => slot'.active = q
    BY <1>1, <1>2 DEF Holders
  <2>2. \A i \in Places : lane[i].t = "release" => lane[i].serial \in Serials
    BY MessageFields DEF Types, Places
  <2>3. \A i \in Places' : lane'[i].t = "release" => exec'[lane'[i].serial].pc = "gone"
    BY <1>1, <1>3, <2>2 DEF Holders
  <2>. QED  BY <2>1, <2>3 DEF Holders
<1>11. ExecEffects' /\ Shown' /\ PublishedIsCommitted'
  BY <1>1, <1>2 DEF ExecEffects, Shown, PublishedIsCommitted
<1>12. DoneIsRecorded' /\ OneStepPerBoundary'
  BY DoneFrame, DiskStays
<1>13. Epochs'
  BY <1>1 DEF Epochs
<1>. QED  BY <1>6, <1>8, <1>9, <1>10, <1>11, <1>12, <1>13

LEMMA HolderRests ==
    ASSUME IndInv, NEW s \in Serials, NEW e \in Execs,
           exec[s].pc \in {"queued", "accepted"}, exec' = [exec EXCEPT ![s] = e],
           e.pc = "idle", e.form = exec[s].form, e.epoch = exec[s].epoch,
           UNCHANGED <<slot, next, form, lane, cancelled, retained>>,
           \A r \in done' : IsStep(r) /\ r.form = e.form /\ r.epoch = e.epoch => r.at < e.view.at,
           Live(s) => slot.run = e.view,
           DoneIsRecorded', OneStepPerBoundary',
           \A r \in done' : r \in RunCommands =>
              /\ r.form \in Nat /\ r.epoch \in Nat /\ r.at \in Nat
              /\ r.form <= form
              /\ r.form = form => r.epoch <= next.epoch,
           UNCHANGED cmd \/ (cmd'.pc = "finish" /\ cmd'.req \in RunCommands)
    PROVE  RunInv' /\ CmdLink' /\ ExecLink'
<1>. USE DEF IndInv, JobInv, RunInv
<1>1. exec'[s] = e /\ \A q \in Serials : q # s => exec'[q] = exec[q]
  BY DEF Types
<1>2. slot.active = s /\ \A q \in Serials : q # s => exec'[q].pc \in {"off", "gone"}
  BY <1>1, OneHolder
<1>3. \A i \in Places' : ~LivePublication(i)'
  <2>1. \A i \in Places : LivePublication(i) => lane[i].serial \in Serials
    BY MessageFields DEF Types, LivePublication, Places
  <2>2. \A i \in Places : ~LivePublication(i)
    BY <1>1, <1>2, <2>1 DEF Publications
  <2>. QED  BY <2>2 DEF LivePublication, Places
<1>4. Publications' /\ LaneEffects' /\ LaneProgress'
  BY <1>3 DEF Publications, LaneEffects, LaneProgress
<1>5. RunProgress' /\ ExecEffects' /\ Shown'
  BY <1>1, <1>2 DEF RunProgress, StepsBelow, ExecEffects, Shown
<1>6. PublishedIsCommitted'
  BY <1>1, <1>2 DEF PublishedIsCommitted, Live
<1>7. Holders'
  <2>1. \A q \in Serials : /\ exec'[q].pc = "off" <=> q > next'.serial
                           /\ exec'[q].pc \notin {"off", "gone"} => slot'.active = q
    BY <1>1, <1>2 DEF Holders
  <2>2. \A i \in Places : lane[i].t = "release" => lane[i].serial \in Serials
    BY MessageFields DEF Types, Places
  <2>3. \A i \in Places' : lane'[i].t = "release" => exec'[lane'[i].serial].pc = "gone"
    BY <1>1, <2>2 DEF Holders, Places
  <2>. QED  BY <2>1, <2>3 DEF Holders
<1>8. Epochs'
  BY <1>1 DEF Epochs
<1>9. ExecLink'
  <2>1. \A q \in Serials : exec'[q].pc \in {"off", "gone", "idle"}
    BY <1>1, <1>2
  <2>. QED  BY <2>1 DEF ExecLink, Linked, Running
<1>10. CmdLink'
  <2>1. \A q \in Serials : Started(q) => Started(q)'
    BY <1>1 DEF Started
  <2>2. retained' # 0 => Started(retained)'
    BY <2>1 DEF CmdLink, Types
  <2>3. UNCHANGED cmd => CmdLink'
    BY <1>1, <2>1, <2>2 DEF CmdLink
  <2>. QED  BY <2>2, <2>3 DEF CmdLink
<1>. QED  BY <1>4, <1>5, <1>6, <1>7, <1>8, <1>9, <1>10

LEMMA LoadStartInv == ASSUME IndInv, LoadStart PROVE IndInv'
<1>. USE DEF IndInv, JobInv
<1>1. /\ load.pc = "start" /\ load.req \in LoadRequests /\ load.serial \in Serials
      /\ exec[load.serial].pc = "built" /\ load.req \in Requests /\ load.req \notin done
      /\ disk[KeyOf(load.req)] # C!Absent
      /\ UNCHANGED <<disk, poisoned, done, form, eligible, slot, next, cancelled, closed, retained, cmd>>
  BY RequestFacts, ReceiptFields
  DEF LoadStart, LoadAt, journalVars, hostVars, LoadLink, LoadEffects, Journalled, Pending
<1>2. CASE LoadDrops(load.serial, "indeterminate") /\ UNCHANGED lane
  BY <1>1, <1>2, LaneStays, LoadDropsInv DEF Types
<1>3. CASE /\ LoadGoes("starting")
           /\ exec' = [exec EXCEPT ![load.serial].pc = "publishing", ![load.serial].req = load.req,
                                   ![load.serial].next = View(0, FALSE)]
           /\ Publish(load.serial, load.req, View(0, FALSE))
  <2>. DEFINE s == load.serial
              e == [exec[s] EXCEPT !.pc = "publishing", !.req = load.req, !.next = View(0, FALSE)]
              m == [t |-> "publish", req |-> load.req, serial |-> s, epoch |-> exec[s].epoch,
                    run |-> View(0, FALSE)]
  <2>1. /\ load' \in LoadJobs /\ load'.pc = "starting" /\ load'.req = load.req
        /\ load'.serial = load.serial
    BY <1>3 DEF LoadGoes, Types, LoadJobs, LoadPcs
  <2>2. exec[s] \in Execs /\ View(0, FALSE) \in Views
    BY <1>1, ConstantTypes DEF Types
  <2>3. /\ e \in Execs /\ e.pc = "publishing" /\ e.req = load.req /\ e.next = View(0, FALSE)
        /\ e.form = exec[s].form /\ e.epoch = exec[s].epoch /\ e.view = exec[s].view
    BY <1>1, <2>2 DEF Execs, ExecPcs
  <2>4. exec' = [exec EXCEPT ![s] = e]
    BY <1>1, <1>3 DEF Types
  <2>5. exec[s].epoch \in Nat
    BY <2>2 DEF Execs
  <2>6. /\ m \in Messages /\ m.t = "publish" /\ m.serial = s /\ m.req = load.req
        /\ m.run = View(0, FALSE) /\ Send(m)
    BY <1>1, <1>3, <2>2, <2>5 DEF Messages, Publish
  <2>7. s = load.serial
    OBVIOUS
  <2>. HIDE DEF s, e, m
  <2>8. lane' = Append(lane, m) /\ LaneMoves({"publish"}) /\ DiskMoves
    BY <1>1, <2>6, LaneGains, DiskStays DEF Types, Send
  <2>9. RunInv'
    BY <1>1, <2>3, <2>4, <2>6, <2>7, HolderPublishes
  <2>10. exec'[s] = e /\ \A q \in Serials : q # s => exec'[q] = exec[q]
    BY <1>1, <2>4, <2>7 DEF Types
  <2>11. Types'
    BY <1>1, <2>1, <2>3, <2>4, <2>6, <2>8, LaneGrows DEF Types
  <2>12. Counted'
    BY <1>1, <2>1, <2>8, CountedFrame
  <2>13. LoadLink'
    BY <1>1, <2>1 DEF LoadLink
  <2>14. CmdLink'
    <3>1. \A q \in Serials : Started(q) => q # s /\ Started(q)'
      BY <1>1, <2>7, <2>10 DEF Started, Running
    <3>. QED  BY <1>1, <2>10, <3>1 DEF CmdLink, Types
  <2>15. ExecLink'
    <3>1. \A q \in Serials : q # s => exec'[q].pc \in {"off", "gone"}
      BY <1>1, <2>7, <2>10, OneHolder DEF RunInv
    <3>2. \A q \in Serials : q # s => Linked(q, exec'[q], load', cmd')
      BY <3>1 DEF Linked, Running
    <3>3. exec[s].view = None
      BY <1>1, <2>7 DEF ExecLink, Linked
    <3>4. Linked(s, e, load', cmd')
      BY <1>1, <2>1, <2>3, <2>7, <3>3, RequestFacts DEF Linked, Running
    <3>. QED  BY <2>10, <3>2, <3>4 DEF ExecLink
  <2>16. LoadMessages'
    BY <1>1, <2>1, <2>6, <2>8, LaneGrows DEF LoadMessages, Types
  <2>17. Journalled' /\ CmdEffects' /\ LoadEffects'
    BY <1>1, <2>1, DoneFrame DEF Journalled, Pending, LoadEffects
  <2>. QED  BY <2>9, <2>11, <2>12, <2>13, <2>14, <2>15, <2>16, <2>17
<1>. QED  BY <1>2, <1>3 DEF LoadStart

-----------------------------------------------------------------------------
(* The command job.                                                        *)

LEMMA SubmitCommandInv ==
    ASSUME IndInv, NEW r \in RunCommands, SubmitCommand(r)
    PROVE  IndInv'
<1>. USE DEF IndInv, JobInv
<1>1. /\ cmd.pc = "idle" /\ disk[KeyOf(r)] = C!Absent
      /\ UNCHANGED <<disk, poisoned, done, form, eligible, slot, next, lane, cancelled, closed,
                     retained, load, exec>>
  BY DEF SubmitCommand, CmdAt, Unused, journalVars, ownerVars, hostVars
<1>2. /\ cmd'.pc = "begin" /\ cmd'.req = r /\ cmd' \in CmdJobs
  BY ConstantTypes DEF SubmitCommand, IdleJob, CmdJobs, CmdPcs
<1>3. Types'
  BY <1>1, <1>2 DEF Types
<1>4. DiskMoves /\ LaneMoves({})
  BY <1>1, DiskStays, LaneStays DEF Types
<1>5. RunInv'
  BY <1>1, <1>4, RunFrame
<1>6. Counted' /\ LoadMessages'
  BY <1>1, <1>4, CountedFrame, LoadMessagesFrame
<1>7. LoadLink' /\ ExecLink'
  BY <1>1, JobFrame, LinkFrame
<1>8. CmdLink'
  BY <1>1, <1>2 DEF CmdLink, Started
<1>9. Journalled'
  BY <1>1, <1>2 DEF Journalled, Pending
<1>10. CmdEffects' /\ LoadEffects'
  BY <1>1, <1>2, DoneFrame DEF CmdEffects, RunInv, DoneIsRecorded
<1>. QED  BY <1>3, <1>5, <1>6, <1>7, <1>8, <1>9, <1>10

\* The command job reads or writes its journal.
LEMMA CmdWritesInv ==
    ASSUME IndInv, cmd.pc \in {"begin", "finish"}, cmd' \in CmdJobs,
           DiskMoves, disk' \in [Keys -> {C!Absent} \cup Receipts], poisoned' \subseteq Lanes,
           \A k \in Keys : k # KeyOf(cmd.req) => disk'[k] = disk[k],
           \/ cmd'.pc = "idle"
           \/ /\ cmd.pc = "begin" /\ cmd'.pc = "apply" /\ cmd'.req = cmd.req
              /\ disk'[KeyOf(cmd.req)] = C!Receipt(cmd.req, "pending"),
           UNCHANGED <<done, form, eligible, slot, next, lane, cancelled, closed, retained, load, exec>>
    PROVE  IndInv'
<1>. USE DEF IndInv, JobInv
<1>1. Types'
  BY DEF Types
<1>2. LaneMoves({})
  BY LaneStays DEF Types
<1>3. RunInv'
  BY <1>2, RunFrame
<1>4. Counted'
  BY <1>2, CountedFrame
<1>5. LoadMessages'
  BY <1>2, LoadMessagesFrame
<1>6. LoadLink' /\ ExecLink'
  BY JobFrame, LinkFrame
<1>7. CmdLink'
  BY DEF CmdLink, Started
<1>8. Journalled'
  <2>1. cmd.req \in RunCommands
    BY DEF CmdLink
  <2>2. load.pc # "idle" => KeyOf(cmd.req) # KeyOf(load.req) /\ KeyOf(load.req) \in Keys
    BY <2>1, RequestFacts DEF LoadLink
  <2>. QED  BY <2>2 DEF Journalled, Pending
<1>9. CmdEffects' /\ LoadEffects'
  BY DoneFrame DEF CmdEffects
<1>. QED  BY <1>1, <1>3, <1>4, <1>5, <1>6, <1>7, <1>8, <1>9

LEMMA CmdBeginInv == ASSUME IndInv, CmdBegin PROVE IndInv'
<1>. USE DEF IndInv, JobInv
<1>1. /\ cmd.pc = "begin" /\ cmd.req \in RunCommands /\ cmd.req \in Requests
      /\ disk[KeyOf(cmd.req)] = C!Absent
      /\ UNCHANGED <<done, form, eligible, slot, next, lane, cancelled, closed, retained, load, exec>>
  BY RequestFacts DEF CmdBegin, CmdAt, ownerVars, hostVars, CmdLink, Journalled
<1>2. \/ cmd' = [cmd EXCEPT !.pc = "apply"] /\ disk' = With(cmd.req, "pending") /\ UNCHANGED poisoned
      \/ /\ cmd' = IdleJob /\ poisoned' \subseteq Lanes
         /\ disk' = disk \/ disk' = With(cmd.req, "pending")
  BY <1>1, Writes DEF CmdBegin
<1>3. /\ disk' \in [Keys -> {C!Absent} \cup Receipts] /\ DiskMoves
      /\ \A k \in Keys : k # KeyOf(cmd.req) => disk'[k] = disk[k]
      /\ disk' = With(cmd.req, "pending") => disk'[KeyOf(cmd.req)] = C!Receipt(cmd.req, "pending")
      /\ poisoned' \subseteq Lanes
  BY <1>1, <1>2, Written DEF Types
<1>4. \/ cmd'.pc = "apply" /\ cmd'.req = cmd.req /\ cmd' \in CmdJobs
         /\ disk' = With(cmd.req, "pending")
      \/ cmd'.pc = "idle" /\ cmd' \in CmdJobs
  BY <1>2, ConstantTypes DEF IdleJob, CmdPcs, CmdJobs, Types
<1>. QED  BY <1>1, <1>3, <1>4, CmdWritesInv

LEMMA CmdFinishInv == ASSUME IndInv, CmdFinish PROVE IndInv'
<1>. USE DEF IndInv, JobInv
<1>1. /\ cmd.pc = "finish" /\ cmd.req \in RunCommands /\ cmd.req \in Requests
      /\ Finishes(cmd.req, cmd.outcome) /\ cmd' = IdleJob
      /\ UNCHANGED <<done, form, eligible, slot, next, lane, cancelled, closed, retained, load, exec>>
  BY RequestFacts DEF CmdFinish, CmdAt, ownerVars, hostVars, CmdLink
<1>2. cmd.outcome \in C!Outcomes /\ Pending(cmd.req)
  BY <1>1 DEF CmdEffects, OutcomeIsTrue, Journalled
<1>3. /\ disk' \in [Keys -> {C!Absent} \cup Receipts] /\ DiskMoves
      /\ \A k \in Keys : k # KeyOf(cmd.req) => disk'[k] = disk[k]
      /\ poisoned' \subseteq Lanes
  BY <1>1, <1>2, Writes, Written
<1>4. cmd'.pc = "idle" /\ cmd' \in CmdJobs
  BY <1>1, ConstantTypes DEF IdleJob
<1>. QED  BY <1>1, <1>3, <1>4, CmdWritesInv

\* The command job alone moves on.
LEMMA CmdMovesInv ==
    ASSUME IndInv, cmd.pc \in {"apply", "send"}, cmd' \in CmdJobs, cmd'.req = cmd.req,
           \/ cmd'.pc = "finish" /\ cmd'.outcome \in {"refused", "indeterminate"}
           \/ /\ cmd.pc = "apply" /\ cmd'.pc = "send" /\ cmd'.serial = retained
              /\ IsRun(retained, cmd.req),
           UNCHANGED <<disk, poisoned, done, form, eligible, slot, next, lane, cancelled, closed,
                       retained, load, exec>>
    PROVE  IndInv'
<1>. USE DEF IndInv, JobInv
<1>1. Types'
  BY DEF Types
<1>2. DiskMoves /\ LaneMoves({})
  BY DiskStays, LaneStays DEF Types
<1>3. RunInv'
  BY <1>2, RunFrame
<1>4. Counted' /\ LoadMessages'
  BY <1>2, CountedFrame, LoadMessagesFrame
<1>5. LoadLink' /\ ExecLink'
  BY JobFrame, LinkFrame
<1>6. CmdLink'
  BY DEF CmdLink, Started, IsRun, Live, Types
<1>7. Journalled'
  BY DEF Journalled, Pending
<1>8. CmdEffects' /\ LoadEffects'
  BY DoneFrame DEF CmdEffects, OutcomeIsTrue, C!Outcomes
<1>. QED  BY <1>1, <1>3, <1>4, <1>5, <1>6, <1>7, <1>8

LEMMA CmdApplyInv == ASSUME IndInv, CmdApply PROVE IndInv'
<1>1. /\ cmd.pc = "apply"
      /\ UNCHANGED <<disk, poisoned, done, form, eligible, slot, next, lane, cancelled, closed,
                     retained, load, exec>>
  BY DEF CmdApply, CmdAt, journalVars, ownerVars, hostVars
<1>2. \/ /\ cmd' \in CmdJobs /\ cmd'.req = cmd.req
         /\ cmd'.pc = "finish" /\ cmd'.outcome = "refused"
      \/ /\ cmd' \in CmdJobs /\ cmd'.req = cmd.req
         /\ cmd'.pc = "send" /\ cmd'.serial = retained /\ IsRun(retained, cmd.req)
  BY DEF CmdApply, CmdEnds, IndInv, Types, CmdJobs, CmdPcs, C!Outcomes
<1>. QED  BY <1>1, <1>2, CmdMovesInv

\* The load job does not mind an executor that goes on, or leaves.
LEMMA LoadLinkFrame ==
    ASSUME Types, LoadLink, UNCHANGED load, NEW s \in Serials, NEW e,
           exec' = [exec EXCEPT ![s] = e],
           exec[s].pc \in Running \cup {"idle", "queued", "dropping", "disposed"},
           e.pc \in Running \cup {"idle", "queued", "dropping", "disposed", "gone"},
           exec[s].pc \in {"dropping", "disposed"} => e.pc \in {"dropping", "disposed", "gone"}
    PROVE  LoadLink'
<1>1. exec'[s] = e /\ \A q \in Serials : q # s => exec'[q] = exec[q]
  BY DEF Types
<1>2. \A q \in Serials : Started(q) => Started(q)'
  BY <1>1 DEF Started
<1>3. load'.pc = "retain" => Started(load.serial)'
  BY <1>2 DEF LoadLink
<1>4. exec[s].pc \notin {"leased", "built"}
  BY DEF Running
<1>5. /\ load.pc \in {"receive", "allocating"} => exec'[load.serial].pc = "leased"
      /\ load.pc \in {"admit", "confirming", "start"} => exec'[load.serial].pc = "built"
  BY <1>1, <1>4 DEF LoadLink
<1>6. load.pc = "drop" => exec'[load.serial].pc \in {"dropping", "disposed", "gone"}
  BY <1>1 DEF LoadLink, Running
<1>. QED  BY <1>3, <1>5, <1>6 DEF LoadLink

LEMMA HolderQueues ==
    ASSUME IndInv, NEW s \in Serials, NEW e \in Execs,
           exec[s].pc = "idle", exec' = [exec EXCEPT ![s] = e],
           e.pc = "queued", e.req \notin done,
           e.form = exec[s].form, e.epoch = exec[s].epoch, e.view = exec[s].view,
           UNCHANGED <<disk, done, slot, next, form, lane, cancelled>>
    PROVE  RunInv'
<1>. USE DEF IndInv, RunInv
<1>1. exec'[s] = e /\ \A q \in Serials : q # s => exec'[q] = exec[q]
  BY DEF Types
<1>2. slot.active = s /\ \A q \in Serials : q # s => exec'[q].pc \in {"off", "gone"}
  BY <1>1, OneHolder
<1>3. \A i \in Places' : ~LivePublication(i)'
  <2>1. \A i \in Places : LivePublication(i) => lane[i].serial \in Serials
    BY MessageFields DEF Types, LivePublication, Places
  <2>2. \A i \in Places : ~LivePublication(i)
    BY <1>1, <1>2, <2>1 DEF Publications
  <2>. QED  BY <2>2 DEF LivePublication, Places
<1>4. Publications' /\ LaneEffects' /\ LaneProgress'
  BY <1>3 DEF Publications, LaneEffects, LaneProgress
<1>5. ExecEffects' /\ Shown'
  BY <1>1, <1>2 DEF ExecEffects, Shown
<1>6. RunProgress'
  <2>1. StepsBelow(e.form, e.epoch, e.view.at)'
    BY DEF RunProgress, StepsBelow
  <2>. QED  BY <1>1, <1>2, <2>1 DEF RunProgress
<1>7. PublishedIsCommitted'
  BY <1>1, <1>2 DEF PublishedIsCommitted, Live
<1>8. Holders'
  <2>1. \A q \in Serials : /\ exec'[q].pc = "off" <=> q > next'.serial
                           /\ exec'[q].pc \notin {"off", "gone"} => slot'.active = q
    BY <1>1, <1>2 DEF Holders
  <2>2. \A i \in Places : lane[i].t = "release" => lane[i].serial \in Serials
    BY MessageFields DEF Types, Places
  <2>3. \A i \in Places' : lane'[i].t = "release" => exec'[lane'[i].serial].pc = "gone"
    BY <1>1, <2>2 DEF Holders, Places
  <2>. QED  BY <2>1, <2>3 DEF Holders
<1>9. DoneIsRecorded' /\ OneStepPerBoundary'
  BY DoneFrame, DiskStays
<1>10. Epochs'
  BY <1>1 DEF Epochs
<1>. QED  BY <1>4, <1>5, <1>6, <1>7, <1>8, <1>9, <1>10

LEMMA CmdSendInv == ASSUME IndInv, CmdSend PROVE IndInv'
<1>. USE DEF IndInv, JobInv
<1>. DEFINE s == cmd.serial
            e == [exec[s] EXCEPT !.pc = "queued", !.req = cmd.req]
<1>1. /\ cmd.pc = "send" /\ cmd.req \in RunCommands /\ cmd.req \in Requests
      /\ s \in Serials /\ exec[s] \in Execs /\ cmd.req \notin done
      /\ UNCHANGED <<disk, poisoned, done, form, eligible, slot, next, lane, cancelled, closed,
                     retained, load>>
  BY RequestFacts
  DEF CmdSend, CmdAt, journalVars, ownerVars, hostVars, CmdLink, CmdEffects, Types
<1>2. CASE (CmdEnds("refused") \/ CmdEnds("indeterminate")) /\ UNCHANGED exec
  <2>1. /\ cmd' \in CmdJobs /\ cmd'.req = cmd.req /\ cmd'.pc = "finish"
        /\ cmd'.outcome \in {"refused", "indeterminate"}
    BY <1>2 DEF CmdEnds, Types, CmdJobs, CmdPcs, C!Outcomes
  <2>. QED  BY <1>1, <1>2, <2>1, CmdMovesInv
<1>3. CASE /\ exec[s].pc = "idle"
           /\ exec' = [exec EXCEPT ![s].pc = "queued", ![s].req = cmd.req]
           /\ cmd' = [cmd EXCEPT !.pc = "wait"]
  <2>1. /\ cmd' \in CmdJobs /\ cmd'.req = cmd.req /\ cmd'.pc = "wait" /\ cmd'.serial = s
    BY <1>3 DEF Types, CmdJobs, CmdPcs
  <2>2. /\ e \in Execs /\ e.pc = "queued" /\ e.req = cmd.req
        /\ e.form = exec[s].form /\ e.epoch = exec[s].epoch /\ e.view = exec[s].view
    BY <1>1 DEF Execs, ExecPcs
  <2>3. exec' = [exec EXCEPT ![s] = e]
    BY <1>1, <1>3 DEF Types
  <2>4. exec[s].form = cmd.req.form /\ exec[s].epoch = cmd.req.epoch
    BY <1>1, <1>3 DEF CmdLink
  <2>. HIDE DEF s, e
  <2>5. exec'[s] = e /\ \A q \in Serials : q # s => exec'[q] = exec[q]
    BY <1>1, <2>3 DEF Types
  <2>6. slot.active = s /\ \A q \in Serials : q # s => exec'[q].pc \in {"off", "gone"}
    BY <1>1, <1>3, <2>5, OneHolder DEF RunInv
  <2>7. Types'
    BY <1>1, <2>1, <2>2, <2>3 DEF Types
  <2>8. DiskMoves /\ LaneMoves({})
    BY <1>1, DiskStays, LaneStays DEF Types
  <2>9. Counted' /\ LoadMessages'
    BY <1>1, <2>8, CountedFrame, LoadMessagesFrame
  <2>10. LoadLink'
    BY <1>1, <1>3, <2>2, <2>3, LoadLinkFrame
  <2>11. CmdLink'
    <3>1. \A q \in Serials : Started(q) => Started(q)'
      BY <2>2, <2>5 DEF Started
    <3>2. retained' # 0 => Started(retained)'
      BY <1>1, <3>1 DEF CmdLink, Types
    <3>3. exec'[cmd'.serial].pc = "queued" /\ cmd'.serial \in Serials
      BY <1>1, <2>1, <2>2, <2>5
    <3>. QED  BY <1>1, <2>1, <3>2, <3>3 DEF CmdLink, Started
  <2>12. ExecLink'
    <3>1. \A q \in Serials : q # s => Linked(q, exec'[q], load', cmd')
      BY <2>6 DEF Linked, Running
    <3>2. Linked(s, e, load', cmd')
      BY <1>1, <2>1, <2>2, <2>4 DEF Linked, Running
    <3>. QED  BY <2>5, <3>1, <3>2 DEF ExecLink
  <2>13. Journalled' /\ CmdEffects' /\ LoadEffects'
    BY <1>1, <2>1, DoneFrame DEF Journalled, Pending, CmdEffects
  <2>14. RunInv'
    BY <1>1, <1>3, <2>2, <2>3, HolderQueues
  <2>. QED  BY <2>7, <2>9, <2>10, <2>11, <2>12, <2>13, <2>14
<1>4. Rejected("interrupted") = "refused" /\ Rejected("closed") = "indeterminate"
  BY DEF Rejected
<1>. QED  BY <1>2, <1>3, <1>4 DEF CmdSend

-----------------------------------------------------------------------------
(* The executors.                                                          *)

\* An executor with a command answers the job that waits for it.
LEMMA AnswerFacts ==
    ASSUME IndInv, NEW s \in Serials, exec[s].pc \in Running \cup {"queued"},
           exec[s].req \in RunCommands, NEW o \in C!Outcomes, Answer(o)
    PROVE  /\ cmd.pc = "wait" /\ cmd.req = exec[s].req
           /\ cmd' \in CmdJobs /\ cmd'.pc = "finish" /\ cmd'.req = exec[s].req /\ cmd'.outcome = o
<1>1. cmd.pc = "wait" /\ cmd.req = exec[s].req
  BY DEF IndInv, JobInv, ExecLink, Linked
<1>. QED  BY <1>1 DEF Answer, IndInv, Types, CmdJobs, CmdPcs

\* What an answer leaves alone.
LEMMA AnsweredInv ==
    ASSUME IndInv, cmd.pc = "wait", cmd'.pc = "finish", cmd'.req = cmd.req, OutcomeIsTrue(cmd)',
           done' = done \/ done' = done \cup {cmd.req},
           UNCHANGED <<disk, load, next>>, NEW ts, LaneMoves(ts), ts \subseteq {"release"}
    PROVE  Counted' /\ LoadMessages' /\ Journalled' /\ CmdEffects' /\ LoadEffects'
<1>. USE DEF IndInv, JobInv
<1>1. Counted' /\ LoadMessages'
  BY DiskStays, CountedFrame, LoadMessagesFrame
<1>2. Journalled' /\ CmdEffects'
  BY DEF Journalled, Pending, CmdEffects, OutcomeIsTrue
<1>3. load.pc # "idle" => load.req # cmd.req
  BY RequestFacts DEF LoadLink, CmdLink
<1>4. LoadEffects'
  BY <1>3 DEF LoadEffects, OutcomeIsTrue
<1>. QED  BY <1>1, <1>2, <1>4

LEMMA RestingType ==
    ASSUME Types, NEW s \in Serials, NEW v \in Views
    PROVE  /\ Resting(s, v) \in Execs /\ Resting(s, v).pc = "idle" /\ Resting(s, v).view = v
           /\ Resting(s, v).form = exec[s].form /\ Resting(s, v).epoch = exec[s].epoch
<1>1. exec[s] \in Execs
  BY DEF Types
<1>. QED  BY <1>1, ConstantTypes DEF Resting, Execs, ExecPcs

LEMMA CandidateIsNext ==
    ASSUME Types, NEW s \in Serials, NEW r \in RunCommands
    PROVE  Candidate(s, r) = NextView(exec[s].view, r) /\ Candidate(s, r) \in Views
<1>1. exec[s].view.at \in Nat /\ exec[s].view.at + 1 \in Nat
  BY DEF Types, Execs, Views
<1>2. Candidate(s, r) = NextView(exec[s].view, r)
  BY DEF Candidate, NextView
<1>3. Candidate(s, r) \in Views
  BY <1>1, ConstantTypes DEF Candidate
<1>. QED  BY <1>2, <1>3

LEMMA ExecTakeInv == ASSUME IndInv, NEW s \in Serials, ExecTake(s) PROVE IndInv'
<1>. USE DEF IndInv, JobInv
<1>. DEFINE r == exec[s].req
<1>1. /\ exec[s].pc = "queued"
      /\ UNCHANGED <<disk, poisoned, form, eligible, slot, next, cancelled, closed, retained, load>>
  BY DEF ExecTake, hostVars
<1>2. /\ r \in RunCommands /\ r \in Requests /\ cmd.pc = "wait" /\ cmd.serial = s /\ cmd.req = r
      /\ exec[s].form = r.form /\ exec[s].epoch = r.epoch
  BY <1>1, RequestFacts DEF ExecLink, Linked
<1>3. r \notin done /\ Pending(r) /\ disk[KeyOf(r)] # C!Absent /\ disk[KeyOf(r)].req = r
  BY <1>1, <1>2, ReceiptFields DEF Journalled, RunInv, ExecEffects, Pending
<1>4. /\ exec[s] \in Execs /\ exec[s].view \in Views /\ exec[s].view.at \in Nat
      /\ exec[s].form \in Nat /\ exec[s].epoch \in Nat
  BY DEF Types, Execs, Views
<1>5. DiskMoves
  BY <1>1, DiskStays
<1>6. \/ /\ Answer(Rejected("scientific"))
         /\ exec' = [exec EXCEPT ![s] = Resting(s, exec[s].view)]
         /\ UNCHANGED <<lane, done>>
      \/ /\ r.at = exec[s].view.at /\ ~exec[s].view.stopped
         /\ exec' = [exec EXCEPT ![s].pc = "publishing", ![s].next = Candidate(s, r)]
         /\ Publish(s, r, Candidate(s, r))
         /\ UNCHANGED <<cmd, done>>
      \/ /\ r.at = exec[s].view.at /\ exec[s].view.stopped /\ r.kind = "finish"
         /\ Answer("applied")
         /\ done' = done \cup {r}
         /\ exec' = [exec EXCEPT ![s] = Resting(s, exec[s].view)]
         /\ UNCHANGED lane
  BY DEF ExecTake
<1>7. ASSUME exec' = [exec EXCEPT ![s] = Resting(s, exec[s].view)], UNCHANGED lane,
             NEW o \in {"applied", "refused"}, Answer(o),
             \/ o = "refused" /\ UNCHANGED done
             \/ o = "applied" /\ done' = done \cup {r} /\ r.kind = "finish" /\ r.at = exec[s].view.at
      PROVE  IndInv'
  <2>1. PICK e \in Execs :
           /\ e = Resting(s, exec[s].view) /\ e.pc = "idle" /\ e.view = exec[s].view
           /\ e.form = exec[s].form /\ e.epoch = exec[s].epoch
    BY <1>4, RestingType
  <2>2. exec' = [exec EXCEPT ![s] = e]
    BY <1>7, <2>1
  <2>. HIDE DEF r
  <2>3. cmd' \in CmdJobs /\ cmd'.pc = "finish" /\ cmd'.req = r /\ cmd'.outcome = o
    BY <1>1, <1>2, <1>7, AnswerFacts DEF r, C!Outcomes
  <2>4. \A q \in done' : IsStep(q) => q \in done
    BY <1>7 DEF IsStep
  <2>5. \A q \in done' : IsStep(q) /\ q.form = e.form /\ q.epoch = e.epoch => q.at < e.view.at
    BY <1>1, <2>1, <2>4 DEF RunInv, RunProgress, StepsBelow
  <2>6. Live(s) => slot.run = e.view
    BY <1>1, <2>1 DEF RunInv, PublishedIsCommitted
  <2>7. DoneIsRecorded'
    BY <1>1, <1>3, <1>7 DEF RunInv, DoneIsRecorded
  <2>8. OneStepPerBoundary'
    BY <1>2, <1>7 DEF RunInv, OneStepPerBoundary
  <2>9. \A q \in done' : q \in RunCommands =>
           /\ q.form \in Nat /\ q.epoch \in Nat /\ q.at \in Nat
           /\ q.form <= form
           /\ q.form = form => q.epoch <= next.epoch
    BY <1>2, <1>4, <1>7 DEF RunInv, Epochs
  <2>10. RunInv' /\ CmdLink' /\ ExecLink'
    BY <1>1, <1>2, <1>7, <2>1, <2>2, <2>3, <2>5, <2>6, <2>7, <2>8, <2>9, HolderRests
  <2>11. done' \subseteq Requests
    BY <1>2, <1>7 DEF Types
  <2>12. Types'
    BY <1>1, <1>7, <2>1, <2>2, <2>3, <2>11 DEF Types
  <2>13. OutcomeIsTrue(cmd)'
    BY <1>2, <1>3, <1>7, <2>3 DEF OutcomeIsTrue, C!Outcomes
  <2>14. LaneMoves({})
    BY <1>7, LaneStays DEF Types
  <2>15. Counted' /\ LoadMessages' /\ Journalled' /\ CmdEffects' /\ LoadEffects'
    BY <1>1, <1>2, <1>7, <2>3, <2>13, <2>14, AnsweredInv
  <2>16. LoadLink'
    BY <1>1, <2>1, <2>2, LoadLinkFrame
  <2>. QED  BY <2>10, <2>12, <2>15, <2>16
<1>8. ASSUME r.at = exec[s].view.at,
             exec' = [exec EXCEPT ![s].pc = "publishing", ![s].next = Candidate(s, r)],
             Publish(s, r, Candidate(s, r)), UNCHANGED <<cmd, done>>
      PROVE  IndInv'
  <2>1. PICK v \in Views : v = Candidate(s, r) /\ v = NextView(exec[s].view, r)
    BY <1>2, CandidateIsNext
  <2>. DEFINE x == [exec[s] EXCEPT !.pc = "publishing", !.next = v]
              y == [t |-> "publish", req |-> r, serial |-> s, epoch |-> exec[s].epoch, run |-> v]
  <2>2. /\ x \in Execs /\ x.pc = "publishing" /\ x.req = r /\ x.next = v
        /\ x.form = exec[s].form /\ x.epoch = exec[s].epoch /\ x.view = exec[s].view
    BY <1>4 DEF Execs, ExecPcs
  <2>3. y \in Messages /\ y.t = "publish" /\ y.serial = s /\ y.req = r /\ y.run = v
    BY <1>2, <1>4 DEF Messages
  <2>4. exec' = [exec EXCEPT ![s] = x]
    BY <1>8, <2>1 DEF Types
  <2>5. Send(y)
    BY <1>8, <2>1 DEF Publish
  <2>. HIDE DEF x, y
  <2>e. PICK e \in Execs :
           /\ e.pc = "publishing" /\ e.req = r /\ e.next = v
           /\ e.form = exec[s].form /\ e.epoch = exec[s].epoch /\ e.view = exec[s].view
           /\ exec' = [exec EXCEPT ![s] = e]
    BY <2>2, <2>4
  <2>m. PICK m \in Messages :
           m.t = "publish" /\ m.serial = s /\ m.req = r /\ m.run = v /\ Send(m)
    BY <2>3, <2>5
  <2>u. UNCHANGED <<cmd, done>>
    BY <1>8
  <2>. HIDE DEF r
  <2>6. lane' = Append(lane, m) /\ LaneMoves({"publish"})
    BY <2>m, LaneGains DEF Types, Send
  <2>7. RunInv'
    BY <1>1, <1>2, <1>3, <2>u, <2>e, <2>m, HolderPublishes
  <2>8. exec'[s] = e /\ \A q \in Serials : q # s => exec'[q] = exec[q]
    BY <2>e DEF Types
  <2>9. Types'
    BY <1>1, <2>u, <2>e, <2>m, <2>6, LaneGrows DEF Types
  <2>10. Counted'
    BY <1>1, <1>5, <2>6, CountedFrame
  <2>11. LoadLink'
    BY <1>1, <2>e, <2>4, LoadLinkFrame DEF Running
  <2>12. CmdLink'
    <3>1. \A q \in Serials : Started(q) => Started(q)'
      BY <2>e, <2>8 DEF Started, Running
    <3>. QED  BY <1>1, <1>2, <2>u, <3>1 DEF CmdLink, Types
  <2>13. ExecLink'
    <3>1. \A q \in Serials : q # s => exec'[q].pc \in {"off", "gone"}
      BY <1>1, <2>8, OneHolder DEF RunInv
    <3>2. \A q \in Serials : q # s => Linked(q, exec'[q], load', cmd')
      BY <3>1 DEF Linked, Running
    <3>3. Linked(s, e, load', cmd')
      BY <1>1, <1>2, <1>8, <2>u, <2>1, <2>e, RequestFacts DEF Linked, Running
    <3>. QED  BY <2>8, <3>2, <3>3 DEF ExecLink
  <2>14. LoadMessages'
    BY <1>1, <1>3, <2>m, <2>6, LaneGrows DEF LoadMessages, Types
  <2>15. Journalled' /\ CmdEffects' /\ LoadEffects'
    BY <1>1, <2>u, JobFrame, DoneFrame
  <2>. QED  BY <2>7, <2>9, <2>10, <2>11, <2>12, <2>13, <2>14, <2>15
<1>9. Rejected("scientific") = "refused"
  BY DEF Rejected
<1>. QED  BY <1>6, <1>7, <1>8, <1>9

LEMMA ExecTimeoutInv == ASSUME IndInv, NEW s \in Serials, ExecTimeout(s) PROVE IndInv'
<1>. USE DEF IndInv, JobInv
<1>. DEFINE e == [exec[s] EXCEPT !.pc = "lost"]
<1>1. /\ exec[s].pc = "publishing" /\ exec[s] \in Execs
      /\ UNCHANGED <<disk, poisoned, done, form, eligible, slot, next, lane, cancelled, closed,
                     retained, load, cmd>>
  BY DEF ExecTimeout, journalVars, ownerVars, hostVars, Types
<1>2. exec' = [exec EXCEPT ![s] = e]
  BY DEF ExecTimeout, Types
<1>3. /\ e \in Execs /\ e.pc = "lost" /\ e.req = exec[s].req /\ e.next = exec[s].next
      /\ e.form = exec[s].form /\ e.epoch = exec[s].epoch /\ e.view = exec[s].view
  BY <1>1 DEF Execs, ExecPcs
<1>. HIDE DEF e
<1>4. exec'[s] = e /\ \A q \in Serials : q # s => exec'[q] = exec[q]
  BY <1>2 DEF Types
<1>5. Types'
  BY <1>1, <1>2, <1>3 DEF Types
<1>6. DiskMoves /\ LaneMoves({})
  BY <1>1, DiskStays, LaneStays DEF Types
<1>7. Counted' /\ LoadMessages' /\ Journalled' /\ LoadEffects' /\ CmdEffects'
  BY <1>1, <1>6, CountedFrame, LoadMessagesFrame, JobFrame, DoneFrame
<1>8. LoadLink'
  BY <1>1, <1>2, <1>3, LoadLinkFrame DEF Running
<1>9. CmdLink'
  <2>1. \A q \in Serials : Started(q) => Started(q)'
    BY <1>3, <1>4 DEF Started, Running
  <2>. QED  BY <1>1, <1>3, <1>4, <2>1 DEF CmdLink, Types
<1>10. ExecLink'
  <2>1. Linked(s, exec[s], load, cmd)
    BY DEF ExecLink
  <2>2. Linked(s, e, load, cmd)
    BY <1>1, <1>3, <2>1 DEF Linked, Running
  <2>. QED  BY <1>1, <1>4, <2>2 DEF ExecLink
<1>11. \A i \in Places : lane[i].t # "reserve" => lane[i].serial \in Serials
  BY MessageFields DEF Types, Places
<1>12. RunInv'
  <2>. USE DEF RunInv
  <2>1. Publications'
    BY <1>1, <1>3, <1>4, <1>11 DEF Publications, LivePublication, Places
  <2>2. LaneEffects'
    BY <1>1 DEF LaneEffects, LivePublication, Places
  <2>3. LaneProgress'
    BY <1>1, <1>3, <1>4, <1>11 DEF LaneProgress, LivePublication, Places, StepsBelow
  <2>4. ExecEffects' /\ Shown'
    BY <1>1, <1>3, <1>4 DEF ExecEffects, Shown, Live
  <2>5. RunProgress'
    BY <1>1, <1>3, <1>4 DEF RunProgress, StepsBelow
  <2>6. PublishedIsCommitted'
    BY <1>1, <1>3, <1>4 DEF PublishedIsCommitted, Live
  <2>7. Holders'
    <3>1. \A q \in Serials : exec'[q].pc \in {"off", "gone"} <=> exec[q].pc \in {"off", "gone"}
      BY <1>1, <1>3, <1>4
    <3>2. \A q \in Serials : exec[q].pc \in {"off", "gone"} => exec'[q] = exec[q]
      BY <1>1, <1>4
    <3>. QED  BY <1>1, <1>11, <3>1, <3>2 DEF Holders, Places
  <2>8. DoneIsRecorded' /\ OneStepPerBoundary'
    BY <1>1, <1>6, DoneFrame
  <2>9. Epochs'
    BY <1>1, <1>3, <1>4 DEF Epochs
  <2>. QED  BY <2>1, <2>2, <2>3, <2>4, <2>5, <2>6, <2>7, <2>8, <2>9
<1>. QED  BY <1>5, <1>7, <1>8, <1>9, <1>10, <1>12

\* The executor was started by a load or sent a command.
LEMMA RequestOfRun ==
    ASSUME IndInv, NEW s \in Serials, exec[s].pc \in Running
    PROVE  \/ /\ exec[s].req.lane = "load" /\ exec[s].req \in LoadRequests
              /\ load.pc = "starting" /\ load.serial = s /\ load.req = exec[s].req
           \/ /\ exec[s].req.lane # "load" /\ exec[s].req \in RunCommands
              /\ cmd.pc = "wait" /\ cmd.serial = s /\ cmd.req = exec[s].req
              /\ exec[s].form = exec[s].req.form /\ exec[s].epoch = exec[s].req.epoch
              /\ exec[s].req.at = exec[s].view.at
              /\ exec[s].next = NextView(exec[s].view, exec[s].req)
<1>1. exec[s].req \in LoadRequests \/ exec[s].req \in RunCommands
  BY DEF IndInv, JobInv, ExecLink, Linked, Requests
<1>2. CASE exec[s].req \in LoadRequests
  BY <1>2, RequestFacts DEF IndInv, JobInv, ExecLink, Linked
<1>3. CASE exec[s].req \in RunCommands
  <2>1. exec[s].req.lane # "load"
    BY <1>3, RequestFacts
  <2>. QED  BY <1>3, <2>1 DEF IndInv, JobInv, ExecLink, Linked
<1>. QED  BY <1>1, <1>2, <1>3

LEMMA ExecCommitInv == ASSUME IndInv, NEW s \in Serials, ExecCommit(s) PROVE IndInv'
<1>. USE DEF IndInv, JobInv
<1>1. /\ exec[s].pc = "accepted" /\ exec[s].req \in done
      /\ UNCHANGED <<disk, poisoned, done, form, eligible, slot, next, lane, cancelled, closed, retained>>
  BY DEF ExecCommit, journalVars, ownerVars, hostVars, RunInv, ExecEffects
<1>2. exec[s].next \in Views
  BY DEF Types, Execs
<1>3. PICK e \in Execs :
         /\ e.pc = "idle" /\ e.view = exec[s].next
         /\ e.form = exec[s].form /\ e.epoch = exec[s].epoch
         /\ exec' = [exec EXCEPT ![s] = e]
  BY <1>2, RestingType DEF ExecCommit
<1>4. \/ /\ exec[s].req \in LoadRequests /\ load.pc = "starting"
         /\ load.serial = s /\ load.req = exec[s].req
         /\ load' = [load EXCEPT !.pc = "retain"] /\ UNCHANGED cmd
      \/ /\ exec[s].req \in RunCommands /\ Answer("applied") /\ UNCHANGED load
  BY <1>1, RequestOfRun DEF ExecCommit, LoadGoes, Running
<1>5. UNCHANGED cmd \/ (cmd'.pc = "finish" /\ cmd'.req \in RunCommands)
  BY <1>1, <1>4, AnswerFacts DEF Running, C!Outcomes
<1>6. \A r \in done' : IsStep(r) /\ r.form = e.form /\ r.epoch = e.epoch => r.at < e.view.at
  BY <1>1, <1>3 DEF RunInv, RunProgress, StepsBelow
<1>7. Live(s) => slot.run = e.view
  BY <1>1, <1>3 DEF RunInv, Shown
<1>8. DoneIsRecorded' /\ OneStepPerBoundary'
  BY <1>1, DoneFrame, DiskStays DEF RunInv
<1>9. \A r \in done' : r \in RunCommands =>
         /\ r.form \in Nat /\ r.epoch \in Nat /\ r.at \in Nat
         /\ r.form <= form
         /\ r.form = form => r.epoch <= next.epoch
  BY <1>1 DEF RunInv, Epochs
<1>10. RunInv' /\ CmdLink' /\ ExecLink'
  BY <1>1, <1>3, <1>5, <1>6, <1>7, <1>8, <1>9, HolderRests
<1>11. LaneMoves({}) /\ DiskMoves
  BY <1>1, LaneStays, DiskStays DEF Types
<1>12. CASE exec[s].req \in RunCommands /\ Answer("applied") /\ UNCHANGED load
  <2>1. /\ cmd.pc = "wait" /\ cmd.req = exec[s].req /\ cmd' \in CmdJobs /\ cmd'.pc = "finish"
        /\ cmd'.req = exec[s].req /\ cmd'.outcome = "applied"
    BY <1>1, <1>12, AnswerFacts DEF Running, C!Outcomes
  <2>2. OutcomeIsTrue(cmd)'
    BY <1>1, <2>1 DEF OutcomeIsTrue, C!Outcomes
  <2>3. Counted' /\ LoadMessages' /\ Journalled' /\ CmdEffects' /\ LoadEffects'
    BY <1>1, <1>11, <1>12, <2>1, <2>2, AnsweredInv
  <2>4. LoadLink'
    BY <1>1, <1>3, <1>12, LoadLinkFrame DEF Running
  <2>5. Types'
    BY <1>1, <1>3, <1>12, <2>1 DEF Types
  <2>. QED  BY <1>10, <2>3, <2>4, <2>5
<1>13. CASE /\ exec[s].req \in LoadRequests /\ load.pc = "starting"
            /\ load.serial = s /\ load.req = exec[s].req
            /\ load' = [load EXCEPT !.pc = "retain"] /\ UNCHANGED cmd
  <2>1. /\ load' \in LoadJobs /\ load'.pc = "retain" /\ load'.req = load.req
        /\ load'.serial = load.serial
    BY <1>13 DEF Types, LoadJobs, LoadPcs
  <2>2. Types'
    BY <1>1, <1>3, <1>13, <2>1 DEF Types
  <2>3. exec'[s] = e
    BY <1>3 DEF Types
  <2>4. LoadLink'
    BY <1>3, <1>13, <2>1, <2>3 DEF LoadLink, Started
  <2>5. Counted' /\ LoadMessages'
    BY <1>1, <1>11, <1>13, <2>1, CountedFrame, LoadMessagesFrame
  <2>6. Journalled' /\ CmdEffects' /\ LoadEffects'
    BY <1>1, <1>13, <2>1, DoneFrame DEF Journalled, Pending, LoadEffects
  <2>. QED  BY <1>10, <2>2, <2>4, <2>5, <2>6
<1>. QED  BY <1>4, <1>12, <1>13

\* The holder's last steps, once its fence has fallen or nothing is in the lane.
LEMMA LeavingInv ==
    ASSUME IndInv, NEW s \in Serials, NEW e \in Execs,
           exec[s].pc \in Running \cup {"idle", "queued", "dropping", "disposed"},
           e.pc \in {"dropping", "disposed", "gone"},
           e.form <= exec[s].form, e.epoch <= exec[s].epoch,
           exec' = [exec EXCEPT ![s] = e],
           s \in cancelled' \/ exec[s].pc \notin {"publishing", "lost"},
           cancelled \subseteq cancelled', cancelled' \subseteq Serials,
           \/ UNCHANGED <<load, cmd>>
           \/ UNCHANGED load /\ exec[s].req \in RunCommands /\ Answer("indeterminate")
              /\ exec[s].pc \in Running \cup {"queued"}
           \/ UNCHANGED cmd /\ load.pc = "starting" /\ LoadEnds("indeterminate"),
           \/ UNCHANGED lane
           \/ e.pc = "gone" /\ lane' = Append(lane, [t |-> "release", serial |-> s]),
           UNCHANGED <<disk, poisoned, done, form, eligible, slot, next, closed, retained>>
    PROVE  IndInv'
<1>. USE DEF IndInv, JobInv
<1>. DEFINE m == [t |-> "release", serial |-> s]
<1>1. m \in Messages /\ m.t = "release" /\ m.serial = s
  BY DEF Messages
<1>2. UNCHANGED lane \/ (e.pc = "gone" /\ lane' = Append(lane, m))
  OBVIOUS
<1>. HIDE DEF m
<1>3. lane' \in Seq(Messages) /\ LaneMoves({"release"})
  <2>1. CASE UNCHANGED lane
    BY <2>1, LaneStays DEF Types, LaneMoves
  <2>2. CASE lane' = Append(lane, m)
    BY <1>1, <2>2, LaneGains, LaneGrows DEF Types
  <2>. QED  BY <1>2, <2>1, <2>2
<1>4. exec'[s] = e /\ \A q \in Serials : q # s => exec'[q] = exec[q]
  BY DEF Types
<1>5. exec[s].pc \notin {"off", "gone"}
  BY DEF Running
<1>6. \A i \in Places' : lane'[i].t = "release" => exec'[lane'[i].serial].pc = "gone"
  <2>1. \A i \in Places : lane[i].t = "release" =>
           lane[i].serial \in Serials /\ exec[lane[i].serial].pc = "gone"
    BY MessageFields DEF Types, Places, RunInv, Holders
  <2>2. \A i \in Places : lane[i].t = "release" => exec'[lane[i].serial].pc = "gone"
    BY <1>4, <1>5, <2>1
  <2>3. CASE UNCHANGED lane
    BY <2>2, <2>3 DEF Places
  <2>4. CASE e.pc = "gone" /\ lane' = Append(lane, m)
    BY <1>1, <1>4, <2>2, <2>4, LaneGrows DEF Types
  <2>. QED  BY <1>2, <2>3, <2>4
<1>7. \/ UNCHANGED cmd
      \/ /\ cmd.pc = "wait" /\ cmd.req = exec[s].req /\ exec[s].req \in RunCommands
         /\ cmd' \in CmdJobs /\ cmd'.pc = "finish" /\ cmd'.req = exec[s].req
         /\ cmd'.outcome = "indeterminate" /\ UNCHANGED load
  BY AnswerFacts DEF C!Outcomes
<1>8. \/ UNCHANGED load
      \/ /\ load.pc = "starting" /\ UNCHANGED cmd
         /\ load' \in LoadJobs /\ load'.pc = "finish" /\ load'.req = load.req
         /\ load'.serial = load.serial /\ load'.outcome = "indeterminate"
  BY DEF LoadEnds, Types, LoadJobs, LoadPcs, C!Outcomes
<1>9. RunInv' /\ CmdLink' /\ ExecLink'
  BY <1>3, <1>5, <1>6, <1>7, HolderLeaves
<1>10. Types'
  BY <1>3, <1>7, <1>8 DEF Types
<1>11. LoadLink'
  <2>1. CASE UNCHANGED load
    BY <2>1, LoadLinkFrame DEF Running
  <2>2. CASE load'.pc = "finish" /\ load'.req = load.req /\ load.pc = "starting"
    BY <2>2 DEF LoadLink
  <2>. QED  BY <1>8, <2>1, <2>2
<1>12. Counted' /\ LoadMessages'
  BY <1>3, <1>8, DiskStays, CountedFrame, LoadMessagesFrame
<1>13. Journalled' /\ CmdEffects' /\ LoadEffects'
  BY <1>7, <1>8, DoneFrame
  DEF Journalled, Pending, CmdEffects, LoadEffects, OutcomeIsTrue, C!Outcomes
<1>. QED  BY <1>9, <1>10, <1>11, <1>12, <1>13

LEMMA ExecAbortInv == ASSUME IndInv, NEW s \in Serials, ExecAbort(s) PROVE IndInv'
<1>. USE DEF IndInv, JobInv
<1>1. /\ exec[s].pc \in {"lost", "rejected"} /\ cancelled' = cancelled \cup {s}
      /\ UNCHANGED <<disk, poisoned, done, form, eligible, slot, next, lane, closed, retained>>
  BY DEF ExecAbort, journalVars, ownerVars, hostVars
<1>2. exec[s].form \in Nat /\ exec[s].epoch \in Nat /\ cancelled' \subseteq Serials
  BY <1>1 DEF Types, Execs
<1>3. /\ Left(s, "dropping") \in Execs /\ Left(s, "dropping").pc = "dropping"
      /\ Left(s, "dropping").form <= exec[s].form /\ Left(s, "dropping").epoch <= exec[s].epoch
  BY <1>2, LeftType DEF ExecPcs
<1>4. exec' = [exec EXCEPT ![s] = Left(s, "dropping")]
  BY DEF ExecAbort
<1>5. PICK e \in Execs : /\ e.pc = "dropping" /\ e.form <= exec[s].form /\ e.epoch <= exec[s].epoch
                         /\ exec' = [exec EXCEPT ![s] = e]
  BY <1>3, <1>4
<1>6. Rejected("publication") = "indeterminate"
  BY DEF Rejected
<1>7. \/ UNCHANGED load /\ exec[s].req \in RunCommands /\ Answer("indeterminate")
      \/ UNCHANGED cmd /\ load.pc = "starting" /\ LoadEnds("indeterminate")
  BY <1>1, <1>6, RequestOfRun DEF ExecAbort, Running
<1>. QED  BY <1>1, <1>2, <1>5, <1>7, LeavingInv DEF Running

LEMMA ExecLeaveInv == ASSUME IndInv, NEW s \in Serials, ExecLeave(s) PROVE IndInv'
<1>. USE DEF IndInv, JobInv
<1>1. /\ exec[s].pc \in {"idle", "queued"}
      /\ UNCHANGED <<disk, poisoned, done, form, eligible, slot, next, lane, cancelled, closed,
                     retained, load>>
  BY DEF ExecLeave, journalVars, ownerVars, hostVars
<1>2. exec[s].form \in Nat /\ exec[s].epoch \in Nat /\ cancelled' \subseteq Serials
  BY <1>1 DEF Types, Execs
<1>3. /\ Left(s, "dropping") \in Execs /\ Left(s, "dropping").pc = "dropping"
      /\ Left(s, "dropping").form <= exec[s].form /\ Left(s, "dropping").epoch <= exec[s].epoch
  BY <1>2, LeftType DEF ExecPcs
<1>4. exec' = [exec EXCEPT ![s] = Left(s, "dropping")]
  BY DEF ExecLeave
<1>5. PICK e \in Execs : /\ e.pc = "dropping" /\ e.form <= exec[s].form /\ e.epoch <= exec[s].epoch
                         /\ exec' = [exec EXCEPT ![s] = e]
  BY <1>3, <1>4
<1>6. Rejected("closed") = "indeterminate"
  BY DEF Rejected
<1>7. exec[s].pc = "queued" => exec[s].req \in RunCommands
  BY DEF ExecLink, Linked
<1>8. UNCHANGED cmd \/ (exec[s].pc = "queued" /\ Answer("indeterminate"))
  BY <1>6 DEF ExecLeave
<1>. QED  BY <1>1, <1>2, <1>5, <1>7, <1>8, LeavingInv

LEMMA DisposeInv == ASSUME IndInv, NEW s \in Serials, Dispose(s) PROVE IndInv'
<1>. USE DEF IndInv, JobInv
<1>1. /\ exec[s].pc = "dropping"
      /\ UNCHANGED <<disk, poisoned, done, form, eligible, slot, next, lane, cancelled, closed,
                     retained, load, cmd>>
  BY DEF Dispose, journalVars, ownerVars, hostVars
<1>. DEFINE x == [exec[s] EXCEPT !.pc = "disposed"]
<1>2. exec[s] \in Execs /\ exec[s].form \in Nat /\ exec[s].epoch \in Nat /\ cancelled' \subseteq Serials
  BY <1>1 DEF Types, Execs
<1>3. x \in Execs /\ x.pc = "disposed" /\ x.form <= exec[s].form /\ x.epoch <= exec[s].epoch
  BY <1>2 DEF Execs, ExecPcs
<1>4. exec' = [exec EXCEPT ![s] = x]
  BY DEF Dispose, Types
<1>. HIDE DEF x
<1>5. PICK e \in Execs : /\ e.pc = "disposed" /\ e.form <= exec[s].form /\ e.epoch <= exec[s].epoch
                         /\ exec' = [exec EXCEPT ![s] = e]
  BY <1>3, <1>4
<1>. QED  BY <1>1, <1>2, <1>5, LeavingInv

LEMMA DropLeaseInv == ASSUME IndInv, NEW s \in Serials, DropLease(s) PROVE IndInv'
<1>. USE DEF IndInv, JobInv
<1>1. /\ exec[s].pc = "disposed" /\ cancelled' = cancelled \cup {s}
      /\ lane' = Append(lane, [t |-> "release", serial |-> s])
      /\ UNCHANGED <<disk, poisoned, done, form, eligible, slot, next, closed, retained, load, cmd>>
  BY DEF DropLease, Send, journalVars, hostVars
<1>. DEFINE x == [exec[s] EXCEPT !.pc = "gone"]
<1>2. exec[s] \in Execs /\ exec[s].form \in Nat /\ exec[s].epoch \in Nat /\ cancelled' \subseteq Serials
  BY <1>1 DEF Types, Execs
<1>3. x \in Execs /\ x.pc = "gone" /\ x.form <= exec[s].form /\ x.epoch <= exec[s].epoch
  BY <1>2 DEF Execs, ExecPcs
<1>4. exec' = [exec EXCEPT ![s] = x]
  BY DEF DropLease, Types
<1>. HIDE DEF x
<1>5. PICK e \in Execs : /\ e.pc = "gone" /\ e.form <= exec[s].form /\ e.epoch <= exec[s].epoch
                         /\ exec' = [exec EXCEPT ![s] = e]
  BY <1>3, <1>4
<1>. QED  BY <1>1, <1>2, <1>5, LeavingInv

-----------------------------------------------------------------------------
(* The owner.                                                              *)

\* A turn that nobody waits for.
LEMMA LaneOnlyInv ==
    ASSUME IndInv, lane' \in Seq(Messages), LaneMoves({}),
           UNCHANGED <<disk, poisoned, done, form, eligible, slot, next, cancelled, closed,
                       retained, load, cmd, exec>>
    PROVE  IndInv'
<1>. USE DEF IndInv, JobInv
<1>1. DiskMoves
  BY DiskStays
<1>2. Types'
  BY DEF Types
<1>3. RunInv'
  BY <1>1, RunFrame
<1>4. Counted' /\ LoadMessages'
  BY <1>1, CountedFrame, LoadMessagesFrame
<1>5. LoadLink' /\ CmdLink' /\ Journalled'
  BY JobFrame
<1>6. ExecLink'
  BY LinkFrame
<1>7. LoadEffects' /\ CmdEffects'
  BY DoneFrame
<1>. QED  BY <1>2, <1>3, <1>4, <1>5, <1>6, <1>7

\* A turn that changes the slot and no executor.
LEMMA SlotOnlyInv ==
    ASSUME IndInv, lane' \in Seq(Messages), LaneMoves({}), slot' \in Slots,
           next' \in [serial : Nat, epoch : Nat], next'.serial = next.serial,
           next.epoch <= next'.epoch,
           \/ slot'.active = slot.active /\ slot'.run = slot.run
           \/ slot'.active = 0 /\ \A s \in Serials : exec[s].pc \in {"off", "gone"},
           UNCHANGED load \/ (/\ load.pc = "confirming" /\ load' = [load EXCEPT !.pc = "start"]),
           UNCHANGED <<disk, poisoned, done, form, eligible, cancelled, closed, retained, cmd, exec>>
    PROVE  IndInv'
<1>. USE DEF IndInv, JobInv
<1>1. DiskMoves
  BY DiskStays
<1>2. /\ load' \in LoadJobs /\ load'.req = load.req /\ load'.serial = load.serial
      /\ load'.pc = load.pc \/ (load.pc = "confirming" /\ load'.pc = "start")
      /\ load'.outcome = load.outcome
  BY DEF Types, LoadJobs, LoadPcs
<1>3. Types'
  BY <1>2 DEF Types
<1>0. PICK d \in {0, 1} : \A i \in Places' : i + d \in Places /\ lane'[i] = lane[i + d]
  BY DEF LaneMoves
<1>4. /\ \A i \in Places' : lane'[i].t = "release" => exec[lane'[i].serial].pc = "gone"
      /\ next.serial \in Nat
  BY <1>0 DEF RunInv, Holders, Types
<1>5. Holders'
  BY <1>4 DEF RunInv, Holders
<1>6. Shown' /\ PublishedIsCommitted'
  <2>1. CASE slot'.active = slot.active /\ slot'.run = slot.run
    BY <2>1 DEF RunInv, Shown, PublishedIsCommitted, Live
  <2>2. CASE \A s \in Serials : exec[s].pc \in {"off", "gone"}
    BY <2>2 DEF Shown, PublishedIsCommitted
  <2>. QED  BY <2>1, <2>2
<1>7. Epochs'
  <2>1. next.epoch \in Nat /\ next'.epoch \in Nat /\ \A s \in Serials : exec[s].epoch \in Nat
    BY DEF Types, Execs
  <2>. QED  BY <2>1 DEF RunInv, Epochs
<1>8. Publications' /\ LaneEffects' /\ LaneProgress'
  BY PublicationsFrame, LaneEffectsFrame, LaneProgressFrame DEF RunInv
<1>9. DoneIsRecorded' /\ ExecEffects' /\ RunProgress' /\ OneStepPerBoundary'
  BY <1>1, DoneFrame DEF RunInv
<1>10. RunInv'
  BY <1>5, <1>6, <1>7, <1>8, <1>9 DEF RunInv
<1>11. Counted'
  BY <1>1, <1>2, CountedFrame
<1>12. LoadMessages'
  BY <1>1, <1>2, LoadMessagesFrame
<1>13. LoadLink'
  BY <1>2 DEF LoadLink, Started
<1>14. CmdLink'
  BY JobFrame
<1>15. ExecLink'
  BY <1>2, LinkFrame
<1>16. Journalled' /\ LoadEffects' /\ CmdEffects'
  BY <1>2, DoneFrame DEF Journalled, Pending, LoadEffects, OutcomeIsTrue
<1>. QED  BY <1>3, <1>10, <1>11, <1>12, <1>13, <1>14, <1>15, <1>16

LEMMA OwnerReleaseInv ==
    ASSUME IndInv, NEW m \in Messages, lane # <<>>, m = lane[1], OwnerRelease(m),
           UNCHANGED <<form, eligible, hostVars, budget>>
    PROVE  IndInv'
<1>1. /\ m.t = "release" /\ lane' = Tail(lane)
      /\ slot' = IF slot.active = m.serial THEN EmptySlot ELSE slot
      /\ UNCHANGED <<disk, poisoned, done, form, eligible, next, cancelled, closed, retained,
                     load, cmd, exec>>
  BY DEF OwnerRelease, hostVars
<1>2. lane' \in Seq(Messages) /\ LaneMoves({}) /\ 1 \in Places
  BY <1>1, LaneLoses, LaneShrinks DEF IndInv, Types
<1>3. exec[m.serial].pc = "gone" /\ m.serial \in Serials
  BY <1>1, <1>2, MessageFields DEF IndInv, RunInv, Holders
<1>4. slot' \in Slots
  BY <1>1, ConstantTypes DEF IndInv, Types
<1>5. \/ slot'.active = slot.active /\ slot'.run = slot.run
      \/ slot'.active = 0 /\ \A s \in Serials : exec[s].pc \in {"off", "gone"}
  <2>1. CASE slot.active = m.serial
    <3>1. \A s \in Serials : exec[s].pc \in {"off", "gone"}
      BY <1>3, <2>1 DEF IndInv, RunInv, Holders
    <3>. QED  BY <1>1, <2>1, <3>1 DEF EmptySlot
  <2>2. CASE slot.active # m.serial
    BY <1>1, <2>2
  <2>. QED  BY <2>1, <2>2
<1>6. next' \in [serial : Nat, epoch : Nat] /\ next'.serial = next.serial /\ next.epoch <= next'.epoch
  BY <1>1 DEF IndInv, Types
<1>. QED  BY <1>1, <1>2, <1>4, <1>5, <1>6, SlotOnlyInv

\* What the owner's answer to the load job rests on.
LEMMA WaitingFacts ==
    ASSUME IndInv, NEW m \in Messages, lane # <<>>, m = lane[1], m.t \in {"allocate", "confirm"},
           NEW p \in {"allocating", "confirming"}, Waiting(p, m)
    PROVE  load.pc = p /\ load.req = m.req /\ m.serial = load.serial
<1>1. 1 \in Places
  BY DEF IndInv, Types, Places
<1>. QED  BY <1>1 DEF Waiting, LoadAt, IndInv, JobInv, LoadMessages

LEMMA OwnerConfirmInv ==
    ASSUME IndInv, NEW m \in Messages, lane # <<>>, m = lane[1], OwnerConfirm(m),
           UNCHANGED <<form, eligible, hostVars, budget>>
    PROVE  IndInv'
<1>1. /\ m.t = "confirm" /\ lane' = Tail(lane)
      /\ UNCHANGED <<disk, poisoned, done, form, eligible, next, cancelled, closed, retained, cmd>>
  BY DEF OwnerConfirm, hostVars
<1>2. lane' \in Seq(Messages) /\ LaneMoves({})
  BY <1>1, LaneLoses, LaneShrinks DEF IndInv, Types
<1>3. CASE /\ slot' = [slot EXCEPT !.confirmed = TRUE] /\ UNCHANGED exec
           /\ IF Waiting("confirming", m) THEN load' = [load EXCEPT !.pc = "start"]
                                          ELSE UNCHANGED load
  <2>1. slot' \in Slots /\ slot'.active = slot.active /\ slot'.run = slot.run
    BY <1>3 DEF IndInv, Types, Slots
  <2>2. UNCHANGED load \/ (load.pc = "confirming" /\ load' = [load EXCEPT !.pc = "start"])
    BY <1>3 DEF Waiting, LoadAt
  <2>3. next' \in [serial : Nat, epoch : Nat] /\ next'.serial = next.serial /\ next.epoch <= next'.epoch
    BY <1>1 DEF IndInv, Types
  <2>. QED  BY <1>1, <1>2, <1>3, <2>1, <2>2, <2>3, SlotOnlyInv
<1>4. CASE Waiting("confirming", m) /\ LoadDrops(m.serial, "refused") /\ UNCHANGED slot
  BY <1>1, <1>2, <1>4, WaitingFacts, LoadDropsInv
<1>5. CASE UNCHANGED <<load, exec, slot>>
  BY <1>1, <1>2, <1>5, LaneOnlyInv
<1>. QED  BY <1>3, <1>4, <1>5 DEF OwnerConfirm

\* A guest may be built under an epoch no step was ever taken in.
LEMMA EpochIsFresh ==
    ASSUME IndInv, NEW n \in Nat
    PROVE  StepsBelow(form, next.epoch + 1, n)
<1>1. next.epoch \in Nat
  BY DEF IndInv, Types
<1>2. \A r \in done : r \in RunCommands /\ r.form = form => r.epoch \in Nat /\ r.epoch <= next.epoch
  BY DEF IndInv, RunInv, Epochs
<1>. QED  BY <1>1, <1>2 DEF StepsBelow, IsStep

LEMMA OwnerAllocateInv ==
    ASSUME IndInv, NEW m \in Messages, lane # <<>>, m = lane[1], OwnerAllocate(m),
           UNCHANGED <<form, eligible, hostVars, budget>>
    PROVE  IndInv'
<1>. USE DEF IndInv, JobInv
<1>1. /\ m.t = "allocate" /\ lane' = Tail(lane)
      /\ UNCHANGED <<disk, poisoned, done, form, eligible, cancelled, closed, retained, cmd>>
  BY DEF OwnerAllocate, hostVars
<1>2. lane' \in Seq(Messages) /\ LaneMoves({})
  BY <1>1, LaneLoses, LaneShrinks DEF Types
<1>3. CASE Waiting("allocating", m) /\ LoadDrops(m.serial, "refused") /\ UNCHANGED <<next, slot>>
  BY <1>1, <1>2, <1>3, WaitingFacts, LoadDropsInv
<1>4. CASE UNCHANGED <<load, exec, next, slot>>
  BY <1>1, <1>2, <1>4, LaneOnlyInv
<1>5. ASSUME FenceHolds(m.serial),
             next' = [next EXCEPT !.epoch = @ + 1],
             slot' = [slot EXCEPT !.epoch = next.epoch + 1]
      PROVE  /\ slot' \in Slots /\ slot'.active = slot.active /\ slot'.run = slot.run
             /\ next' \in [serial : Nat, epoch : Nat] /\ next'.serial = next.serial
             /\ next'.epoch = next.epoch + 1 /\ next.epoch <= next'.epoch
  <2>1. next \in [serial : Nat, epoch : Nat] /\ slot \in Slots
    BY DEF Types
  <2>2. /\ next' \in [serial : Nat, epoch : Nat] /\ next'.serial = next.serial
        /\ next'.epoch = next.epoch + 1 /\ next.epoch <= next'.epoch
    BY <1>5, <2>1
  <2>3. slot' \in Slots /\ slot'.active = slot.active /\ slot'.run = slot.run
    BY <1>5, <2>1 DEF Slots
  <2>. QED  BY <2>2, <2>3
<1>6. CASE /\ FenceHolds(m.serial)
           /\ next' = [next EXCEPT !.epoch = @ + 1]
           /\ slot' = [slot EXCEPT !.epoch = next.epoch + 1]
           /\ UNCHANGED <<load, exec>>
  BY <1>1, <1>2, <1>5, <1>6, SlotOnlyInv
<1>7. CASE /\ FenceHolds(m.serial)
           /\ next' = [next EXCEPT !.epoch = @ + 1]
           /\ slot' = [slot EXCEPT !.epoch = next.epoch + 1]
           /\ Waiting("allocating", m)
           /\ load' = [load EXCEPT !.pc = "admit"]
           /\ exec' = [exec EXCEPT ![m.serial].pc = "built", ![m.serial].epoch = next.epoch + 1]
  <2>1. PICK s \in Serials : s = m.serial /\ s = load.serial
    BY <1>1, <1>7, WaitingFacts, MessageFields
  <2>2. load.pc = "allocating" /\ exec[s].pc = "leased" /\ exec[s].form = form
    BY <1>1, <1>7, <2>1, WaitingFacts DEF LoadLink, FenceHolds
  <2>3. /\ slot' \in Slots /\ slot'.active = slot.active /\ slot'.run = slot.run
        /\ next' \in [serial : Nat, epoch : Nat] /\ next'.serial = next.serial
        /\ next'.epoch = next.epoch + 1 /\ next.epoch \in Nat /\ next.serial \in Nat
    BY <1>5, <1>7 DEF Types
  <2>4. /\ load' \in LoadJobs /\ load'.pc = "admit" /\ load'.req = load.req
        /\ load'.serial = load.serial
    BY <1>7 DEF Types, LoadJobs, LoadPcs
  <2>. DEFINE x == [exec[s] EXCEPT !.pc = "built", !.epoch = next.epoch + 1]
  <2>5. exec[s] \in Execs /\ exec[s].view = None /\ None.at = 0
    BY <2>2 DEF Types, ExecLink, Linked, None
  <2>6. /\ x \in Execs /\ x.pc = "built" /\ x.form = form /\ x.epoch = next.epoch + 1
        /\ x.view = None
    BY <2>2, <2>3, <2>5 DEF Execs, ExecPcs
  <2>7. exec' = [exec EXCEPT ![s] = x]
    BY <1>7, <2>1 DEF Types
  <2>. HIDE DEF x
  <2>8. exec'[s] = x /\ \A q \in Serials : q # s => exec'[q] = exec[q]
    BY <2>7 DEF Types
  <2>9. slot.active = s /\ \A q \in Serials : q # s => exec'[q].pc \in {"off", "gone"}
    BY <2>2, <2>8, OneHolder DEF RunInv
  <2>10. Types'
    BY <1>1, <1>2, <2>3, <2>4, <2>6, <2>7 DEF Types
  <2>11. DiskMoves
    BY <1>1, DiskStays
  <2>12. PICK d \in {0, 1} : \A i \in Places' : i + d \in Places /\ lane'[i] = lane[i + d]
    BY <1>2 DEF LaneMoves
  <2>13. \A i \in Places : lane[i].t # "reserve" => lane[i].serial \in Serials
    BY MessageFields DEF Types, Places
  <2>14. \A i \in Places' : ~LivePublication(i)'
    <3>1. \A i \in Places : ~LivePublication(i)
      BY <2>2, <2>8, <2>9, <2>13 DEF RunInv, Publications, LivePublication
    <3>. QED  BY <1>1, <2>12, <3>1 DEF LivePublication
  <2>15. RunInv'
    <3>. USE DEF RunInv
    <3>1. Publications' /\ LaneEffects' /\ LaneProgress'
      BY <2>14 DEF Publications, LaneEffects, LaneProgress
    <3>2. Holders'
      <4>1. \A q \in Serials : /\ exec'[q].pc = "off" <=> q > next'.serial
                               /\ exec'[q].pc \notin {"off", "gone"} => slot'.active = q
        BY <2>2, <2>3, <2>6, <2>8, <2>9 DEF Holders
      <4>2. \A i \in Places : lane[i].t = "release" => exec'[lane[i].serial].pc = "gone"
        BY <2>2, <2>8, <2>13 DEF Holders
      <4>. QED  BY <2>3, <2>12, <4>1, <4>2 DEF Holders
    <3>3. ExecEffects' /\ Shown' /\ PublishedIsCommitted'
      BY <2>6, <2>8, <2>9 DEF ExecEffects, Shown, PublishedIsCommitted
    <3>4. DoneIsRecorded' /\ OneStepPerBoundary'
      BY <1>1, <2>11, DoneFrame
    <3>5. RunProgress'
      <4>1. StepsBelow(form, next.epoch + 1, 0)
        BY EpochIsFresh
      <4>2. \A r \in done' : IsStep(r) /\ r.form = exec'[s].form /\ r.epoch = exec'[s].epoch
                             => r.at < exec'[s].view.at
        BY <1>1, <2>5, <2>6, <2>8, <4>1 DEF StepsBelow
      <4>. QED  BY <2>6, <2>8, <2>9, <4>2 DEF RunProgress, StepsBelow
    <3>6. Epochs'
      <4>1. \A q \in Serials : exec[q].epoch \in Nat
        BY DEF Types, Execs
      <4>2. \A q \in Serials : exec'[q].form <= form /\ exec'[q].epoch <= next'.epoch
        BY <2>2, <2>3, <2>6, <2>8, <4>1 DEF Epochs
      <4>3. \A r \in done : r \in RunCommands /\ r.form = form => r.epoch <= next'.epoch
        BY <2>3 DEF Epochs
      <4>. QED  BY <1>1, <4>2, <4>3 DEF Epochs
    <3>. QED  BY <3>1, <3>2, <3>3, <3>4, <3>5, <3>6
  <2>16. Counted'
    BY <1>2, <2>3, <2>4, <2>11, CountedFrame
  <2>17. LoadMessages'
    BY <1>2, <2>2, <2>4, <2>11, LoadMessagesFrame
  <2>18. LoadLink'
    BY <2>1, <2>2, <2>4, <2>6, <2>8 DEF LoadLink
  <2>19. CmdLink'
    <3>1. \A q \in Serials : Started(q) => q # s /\ Started(q)'
      BY <2>2, <2>8 DEF Started, Running
    <3>. QED  BY <1>1, <2>8, <3>1 DEF CmdLink, Types
  <2>20. ExecLink'
    <3>1. \A q \in Serials : q # s => Linked(q, exec'[q], load', cmd')
      BY <2>9 DEF Linked, Running
    <3>2. Linked(s, x, load', cmd')
      BY <2>6 DEF Linked, Running
    <3>. QED  BY <2>8, <3>1, <3>2 DEF ExecLink
  <2>21. Journalled' /\ CmdEffects' /\ LoadEffects'
    BY <1>1, <2>2, <2>4, DoneFrame DEF Journalled, Pending, LoadEffects
  <2>. QED  BY <2>10, <2>15, <2>16, <2>17, <2>18, <2>19, <2>20, <2>21
<1>. QED  BY <1>3, <1>4, <1>6, <1>7 DEF OwnerAllocate

\* A reservation is taken, by a job that waits for it or by nobody.
LEMMA HolderTakes ==
    ASSUME IndInv, NEW s \in Serials, NEW e \in Execs, slot.active = 0,
           s = next.serial + 1, next'.serial = s, next'.epoch = next.epoch, slot'.active = s,
           exec' = [exec EXCEPT ![s] = e],
           e.pc \in {"leased", "gone"}, e.form = form, e.epoch = 0, e.view = None,
           cancelled \subseteq cancelled',
           UNCHANGED <<disk, done, form, retained, cmd>>,
           NEW ts, LaneMoves(ts), "publish" \notin ts,
           \A i \in Places' : lane'[i].t = "release" =>
              \/ lane'[i].serial \in Serials /\ exec[lane'[i].serial].pc = "gone"
              \/ lane'[i].serial = s /\ e.pc = "gone"
    PROVE  RunInv' /\ CmdLink' /\ ExecLink'
<1>. USE DEF IndInv, JobInv, RunInv
<1>1. exec'[s] = e /\ \A q \in Serials : q # s => exec'[q] = exec[q]
  BY DEF Types
<1>2. /\ next.serial \in Nat /\ next.epoch \in Nat /\ form \in Nat
      /\ \A q \in Serials : q \in Nat \ {0}
  BY SerialsAreNumbers DEF Types
<1>3. exec[s].pc = "off" /\ \A q \in Serials : exec[q].pc \in {"off", "gone"}
  BY <1>2 DEF Holders
<1>4. \A q \in Serials : exec'[q].pc \in {"off", "gone"} \/ (q = s /\ exec'[q].pc = "leased")
  BY <1>1, <1>3
<1>5. Holders'
  <2>1. \A q \in Serials : exec'[q].pc = "off" <=> q > s
    BY <1>1, <1>2, <1>3 DEF Holders
  <2>2. \A i \in Places' : lane'[i].t = "release" => exec'[lane'[i].serial].pc = "gone"
    BY <1>1, <1>3
  <2>. QED  BY <1>2, <1>4, <2>1, <2>2 DEF Holders
<1>6. \A i \in Places' : ~LivePublication(i)'
  <2>1. \A i \in Places : LivePublication(i) => lane[i].serial \in Serials
    BY MessageFields DEF Types, LivePublication, Places
  <2>2. \A i \in Places : ~LivePublication(i)
    BY <1>3, <2>1 DEF Publications
  <2>. QED  BY <2>2, OldMessages DEF LivePublication
<1>7. Publications' /\ LaneEffects' /\ LaneProgress'
  BY <1>6 DEF Publications, LaneEffects, LaneProgress
<1>8. ExecEffects' /\ RunProgress' /\ Shown' /\ PublishedIsCommitted'
  BY <1>4 DEF ExecEffects, RunProgress, Shown, PublishedIsCommitted
<1>9. DoneIsRecorded' /\ OneStepPerBoundary'
  BY DoneFrame, DiskStays
<1>10. Epochs'
  <2>1. \A q \in Serials : exec'[q].form <= form /\ exec'[q].epoch <= next.epoch
    BY <1>1, <1>2 DEF Epochs
  <2>. QED  BY <2>1 DEF Epochs
<1>11. ExecLink'
  <2>1. \A q \in Serials : q # s => Linked(q, exec'[q], load', cmd')
    BY <1>4 DEF Linked, Running
  <2>2. Linked(s, e, load', cmd')
    BY DEF Linked, Running
  <2>. QED  BY <1>1, <2>1, <2>2 DEF ExecLink
<1>12. CmdLink'
  <2>1. \A q \in Serials : Started(q) => q # s /\ Started(q)'
    BY <1>1, <1>3 DEF Started, Running
  <2>. QED  BY <1>1, <2>1 DEF CmdLink, Types
<1>. QED  BY <1>5, <1>7, <1>8, <1>9, <1>10, <1>11, <1>12

\* There is a serial for every reservation, as every one answers a recorded request.
LEMMA SerialIsLeft ==
    ASSUME IndInv, NEW m \in Messages, lane # <<>>, m = lane[1], m.t = "reserve",
           UNCHANGED disk, load'.pc = "prepare" => UNCHANGED load,
           \A i \in Places' : (i + 1 \in Places /\ lane'[i] = lane[i + 1]) \/ lane'[i].t = "release"
    PROVE  /\ next.serial + 1 \in Serials
           /\ next'.serial = next.serial + 1 => Counted'
<1>. USE DEF IndInv, JobInv
<1>1. 1 \in Places /\ m.req \in LoadRequests /\ next.serial \in Nat
  BY MessageFields DEF Types, Places
<1>2. m.req \in Asking
  BY <1>1 DEF Asking
<1>3. m.req \notin Asking' /\ Asking' \subseteq Asking \ {m.req} /\ Recorded' = Recorded
  <2>1. \A i \in Places' : lane'[i].t = "reserve" => lane'[i].req # m.req
    BY <1>1 DEF Counted, Places
  <2>. QED  BY <2>1 DEF Asking, Recorded
<1>4. IsFiniteSet(Asking) /\ IsFiniteSet(Recorded)
  BY RequestsAssumption, FS_Subset DEF Asking, Recorded
<1>5. IsFiniteSet(Asking \ {m.req}) /\ Cardinality(Asking \ {m.req}) = Cardinality(Asking) - 1
  BY <1>2, <1>4, FS_RemoveElement
<1>6. IsFiniteSet(Asking') /\ Cardinality(Asking') <= Cardinality(Asking \ {m.req})
  BY <1>3, <1>5, FS_Subset
<1>7. Cardinality(Recorded) <= Cardinality(LoadRequests)
  BY RequestsAssumption, FS_Subset DEF Recorded
<1>8. /\ Cardinality(Asking) \in Nat /\ Cardinality(Asking') \in Nat /\ Cardinality(Recorded) \in Nat
      /\ Cardinality(LoadRequests) \in Nat /\ Cardinality(Asking \ {m.req}) \in Nat
  BY <1>4, <1>5, <1>6, RequestsAssumption, FS_CardinalityType
<1>9. Cardinality(Asking') + 1 <= Cardinality(Asking)
  BY <1>5, <1>6, <1>8
<1>10. next.serial + Cardinality(Asking) + (IF load.pc = "prepare" THEN 1 ELSE 0)
          <= Cardinality(Recorded)
  BY DEF Counted
<1>11. next.serial + 1 \in Serials
  BY <1>1, <1>7, <1>8, <1>9, <1>10 DEF Serials
<1>12. ASSUME next'.serial = next.serial + 1 PROVE Counted'
  <2>1. \A i, j \in Places' : lane'[i].t = "reserve" /\ lane'[j].t = "reserve"
                              /\ lane'[i].req = lane'[j].req => i = j
    BY DEF Counted, Places
  <2>2. load'.pc = "prepare" => load'.req \notin Asking'
    BY <1>3 DEF Counted
  <2>3. load'.pc = "prepare" => load.pc = "prepare"
    OBVIOUS
  <2>4. next'.serial + Cardinality(Asking') + (IF load'.pc = "prepare" THEN 1 ELSE 0)
           <= Cardinality(Recorded')
    BY <1>1, <1>3, <1>8, <1>9, <1>10, <1>12, <2>3
  <2>. QED  BY <2>1, <2>2, <2>4 DEF Counted
<1>. QED  BY <1>11, <1>12

LEMMA OwnerReserveInv ==
    ASSUME IndInv, NEW m \in Messages, lane # <<>>, m = lane[1], OwnerReserve(m),
           UNCHANGED <<form, eligible, hostVars, budget>>
    PROVE  IndInv'
<1>. USE DEF IndInv, JobInv
<1>1. /\ m.t = "reserve"
      /\ UNCHANGED <<disk, poisoned, done, form, eligible, closed, retained, cmd>>
  BY DEF OwnerReserve, hostVars
<1>2. lane' = Tail(lane) => lane' \in Seq(Messages) /\ LaneMoves({})
  BY LaneLoses, LaneShrinks DEF Types
<1>3. CASE /\ Waiting("reserving", m) /\ lane' = Tail(lane)
           /\ load' = [load EXCEPT !.pc = "finish", !.outcome = "refused"]
           /\ UNCHANGED <<next, slot, exec, cancelled>>
  BY <1>1, <1>2, <1>3, LoadRefusedInv DEF LoadEnds, Waiting, LoadAt
<1>4. CASE lane' = Tail(lane) /\ UNCHANGED <<load, next, slot, exec, cancelled>>
  BY <1>1, <1>2, <1>4, LaneOnlyInv
<1>. DEFINE s == next.serial + 1
<1>5. ASSUME slot.active = 0, next' = [next EXCEPT !.serial = s],
             slot' = [EmptySlot EXCEPT !.active = s], s \in Serials
      PROVE  /\ slot' \in Slots /\ slot'.active = s
             /\ next' \in [serial : Nat, epoch : Nat] /\ next'.serial = s
             /\ next'.epoch = next.epoch
  <2>1. slot' \in Slots /\ slot'.active = s
    BY <1>5, ConstantTypes DEF EmptySlot, Slots
  <2>2. next' \in [serial : Nat, epoch : Nat] /\ next'.serial = s /\ next'.epoch = next.epoch
    BY <1>5 DEF Types
  <2>. QED  BY <2>1, <2>2
<1>6. ASSUME NEW p \in {"leased", "gone"}
      PROVE  \E e \in Execs : /\ e = [Vacant EXCEPT !.pc = p, !.form = form]
                              /\ e.pc = p /\ e.form = form /\ e.epoch = 0 /\ e.view = None
  <2>. DEFINE x == [Vacant EXCEPT !.pc = p, !.form = form]
  <2>1. x \in Execs /\ x.pc = p /\ x.form = form /\ x.epoch = 0 /\ x.view = None
    BY ConstantTypes DEF Types, Execs, ExecPcs, Vacant
  <2>. QED  BY <2>1
<1>7. \A i \in Places : lane[i].t = "release" =>
         lane[i].serial \in Serials /\ exec[lane[i].serial].pc = "gone"
  BY MessageFields DEF Types, Places, RunInv, Holders
<1>8. CASE /\ slot.active = 0 /\ next' = [next EXCEPT !.serial = s]
           /\ slot' = [EmptySlot EXCEPT !.active = s]
           /\ Waiting("reserving", m)
           /\ load' = [load EXCEPT !.pc = "receive", !.serial = s]
           /\ exec' = [exec EXCEPT ![s] = [Vacant EXCEPT !.pc = "leased", !.form = form]]
           /\ lane' = Tail(lane)
           /\ UNCHANGED cancelled
  <2>1. \A i \in Places' : i + 1 \in Places /\ lane'[i] = lane[i + 1]
    BY <1>8, LaneShrinks DEF Types
  <2>2. load.pc = "reserving"
    BY <1>8 DEF Waiting, LoadAt
  <2>3. load'.pc # "prepare"
    BY <1>8 DEF Types, LoadJobs
  <2>4. s \in Serials /\ (next'.serial = s => Counted')
    BY <1>1, <2>1, <2>3, SerialIsLeft
  <2>5. /\ load' \in LoadJobs /\ load'.pc = "receive" /\ load'.req = load.req
        /\ load'.serial = s
    BY <1>8, <2>4 DEF Types, LoadJobs, LoadPcs
  <2>6. PICK e \in Execs : /\ e.pc = "leased" /\ e.form = form /\ e.epoch = 0 /\ e.view = None
                           /\ exec' = [exec EXCEPT ![s] = e]
    BY <1>6, <1>8
  <2>7. /\ slot' \in Slots /\ slot'.active = s
        /\ next' \in [serial : Nat, epoch : Nat] /\ next'.serial = s /\ next'.epoch = next.epoch
    BY <1>5, <1>8, <2>4
  <2>8. PICK n \in Serials : n = s
    BY <2>4
  <2>. HIDE DEF s
  <2>9. n = next.serial + 1
    BY <2>8 DEF s
  <2>10. \A i \in Places' : lane'[i].t = "release" =>
            lane'[i].serial \in Serials /\ exec[lane'[i].serial].pc = "gone"
    BY <1>7, <2>1
  <2>11. LaneMoves({}) /\ lane' \in Seq(Messages)
    BY <1>2, <1>8
  <2>12. exec' = [exec EXCEPT ![n] = e] /\ slot.active = 0 /\ UNCHANGED cancelled
    BY <1>8, <2>6, <2>8
  <2>13. RunInv' /\ CmdLink' /\ ExecLink'
    BY <1>1, <2>6, <2>7, <2>8, <2>9, <2>10, <2>11, <2>12, HolderTakes
  <2>14. Types'
    BY <1>1, <2>5, <2>7, <2>11, <2>12 DEF Types
  <2>15. Counted'
    BY <2>4, <2>7
  <2>16. LoadMessages'
    BY <1>1, <2>2, <2>5, <2>11, DiskStays, LoadMessagesFrame
  <2>17. LoadLink'
    <3>1. exec'[n] = e
      BY <2>12 DEF Types
    <3>. QED  BY <2>2, <2>5, <2>6, <2>8, <3>1 DEF LoadLink
  <2>18. Journalled' /\ CmdEffects' /\ LoadEffects'
    BY <1>1, <2>2, <2>5, DoneFrame DEF Journalled, Pending, LoadEffects
  <2>. QED  BY <2>13, <2>14, <2>15, <2>16, <2>17, <2>18
<1>9. CASE /\ slot.active = 0 /\ next' = [next EXCEPT !.serial = s]
           /\ slot' = [EmptySlot EXCEPT !.active = s]
           /\ exec' = [exec EXCEPT ![s] = [Vacant EXCEPT !.pc = "gone", !.form = form]]
           /\ cancelled' = cancelled \cup {s}
           /\ lane' = Append(Tail(lane), [t |-> "release", serial |-> s])
           /\ UNCHANGED load
  <2>. DEFINE y == [t |-> "release", serial |-> s]
  <2>1. y.t = "release" /\ y.serial = s /\ lane' = Append(Tail(lane), y)
    BY <1>9
  <2>2. s \in Serials => y \in Messages
    BY DEF Messages
  <2>. HIDE DEF y, s
  <2>3. Tail(lane) \in Seq(Messages) /\ Len(Tail(lane)) = Len(lane) - 1 /\ Len(lane) \in Nat \ {0}
    BY DEF Types
  <2>4. /\ Places' = 1..Len(lane) /\ lane'[Len(lane)] = y
        /\ \A i \in 1..(Len(lane) - 1) : lane'[i] = lane[i + 1]
    BY <2>1, <2>3 DEF Places, Types
  <2>5. \A i \in Places' : (i + 1 \in Places /\ lane'[i] = lane[i + 1]) \/ lane'[i] = y
    BY <2>3, <2>4 DEF Places
  <2>6. s \in Serials /\ (next'.serial = s => Counted')
    BY <1>1, <1>9, <2>1, <2>5, SerialIsLeft DEF s
  <2>7. LaneMoves({"release"})
    <3>1. \A i \in Places' : (i + 1 \in Places /\ lane'[i] = lane[i + 1]) \/ lane'[i].t \in {"release"}
      BY <2>1, <2>5
    <3>. QED  BY <3>1 DEF LaneMoves
  <2>8. lane' \in Seq(Messages)
    BY <2>1, <2>2, <2>3, <2>6
  <2>9. PICK e \in Execs : /\ e.pc = "gone" /\ e.form = form /\ e.epoch = 0 /\ e.view = None
                           /\ exec' = [exec EXCEPT ![s] = e]
    BY <1>6, <1>9
  <2>10. /\ slot' \in Slots /\ slot'.active = s
         /\ next' \in [serial : Nat, epoch : Nat] /\ next'.serial = s /\ next'.epoch = next.epoch
    BY <1>5, <1>9, <2>6
  <2>11. PICK n \in Serials : n = s
    BY <2>6
  <2>12. n = next.serial + 1
    BY <2>11 DEF s
  <2>13. \A i \in Places' : lane'[i].t = "release" =>
            \/ lane'[i].serial \in Serials /\ exec[lane'[i].serial].pc = "gone"
            \/ lane'[i].serial = n /\ e.pc = "gone"
    BY <1>7, <2>1, <2>5, <2>9, <2>11
  <2>14. /\ exec' = [exec EXCEPT ![n] = e] /\ slot.active = 0 /\ UNCHANGED load
         /\ cancelled \subseteq cancelled' /\ cancelled' \subseteq Serials
    BY <1>9, <2>9, <2>11 DEF Types
  <2>15. RunInv' /\ CmdLink' /\ ExecLink'
    <3>1. /\ next'.serial = n /\ next'.epoch = next.epoch /\ slot'.active = n
          /\ "publish" \notin {"release"}
          /\ e.pc \in {"leased", "gone"} /\ e.form = form /\ e.epoch = 0 /\ e.view = None
      BY <2>9, <2>10, <2>11
    <3>. QED  BY <1>1, <2>7, <2>12, <2>13, <2>14, <3>1, HolderTakes
  <2>16. Types'
    BY <1>1, <2>8, <2>10, <2>14 DEF Types
  <2>17. Counted'
    BY <2>6, <2>10
  <2>18. LoadMessages'
    BY <1>1, <2>7, <2>14, DiskStays, LoadMessagesFrame
  <2>19. LoadLink'
    <3>1. exec[n].pc = "off" /\ \A q \in Serials : q # n => exec'[q] = exec[q]
      <4>1. next.serial \in Nat /\ n > next.serial
        BY <2>12 DEF Types
      <4>. QED  BY <2>14, <4>1 DEF Types, RunInv, Holders
    <3>2. load.serial = n => load.pc \notin {"receive", "allocating", "admit", "confirming", "start",
                                             "retain", "drop"}
      BY <3>1 DEF LoadLink, Started, Running
    <3>. QED  BY <2>14, <3>1, <3>2 DEF LoadLink, Started
  <2>20. Journalled' /\ CmdEffects' /\ LoadEffects'
    BY <1>1, <2>14, JobFrame, DoneFrame
  <2>. QED  BY <2>15, <2>16, <2>17, <2>18, <2>19, <2>20
<1>. QED  BY <1>3, <1>4, <1>8, <1>9 DEF OwnerReserve

\* The job behind a publication is waiting, so its receipt is pending.
LEMMA PublishedIsPending ==
    ASSUME IndInv, NEW s \in Serials, exec[s].pc \in Running
    PROVE  exec[s].req \in Requests /\ Pending(exec[s].req)
<1>1. Pending(exec[s].req)
  BY RequestOfRun DEF IndInv, JobInv, Journalled
<1>. QED  BY <1>1, RequestOfRun, RequestFacts

\* The owner answers a publication: what does not depend on its answer.
LEMMA AnsweredPublicationInv ==
    ASSUME IndInv, NEW s \in Serials, NEW e \in Execs, exec' = [exec EXCEPT ![s] = e],
           e.pc = exec[s].pc \/ (exec[s].pc = "publishing" /\ e.pc \in {"accepted", "rejected"}),
           e.req = exec[s].req, e.next = exec[s].next, e.view = exec[s].view,
           e.form = exec[s].form, e.epoch = exec[s].epoch,
           lane # <<>>, lane[1].t = "publish", lane[1].serial = s, lane' = Tail(lane),
           slot' \in Slots, slot'.active = slot.active,
           done' = done \/ (exec[s].pc \in Running /\ done' = done \cup {exec[s].req}),
           UNCHANGED <<disk, poisoned, form, eligible, next, cancelled, closed, retained, load, cmd>>
    PROVE  Types' /\ JobInv' /\ Holders' /\ Publications' /\ DoneIsRecorded'
<1>. USE DEF IndInv, JobInv, RunInv
<1>1. exec'[s] = e /\ \A q \in Serials : q # s => exec'[q] = exec[q]
  BY DEF Types
<1>2. lane' \in Seq(Messages) /\ LaneMoves({}) /\ 1 \in Places
  BY LaneLoses, LaneShrinks DEF Types
<1>3. \A i \in Places' : i + 1 \in Places /\ lane'[i] = lane[i + 1] /\ i + 1 # 1
  BY LaneShrinks DEF Types
<1>4. exec[s].pc \in Running => exec[s].req \in Requests /\ Pending(exec[s].req)
  BY PublishedIsPending
<1>5. done' \subseteq Requests
  BY <1>4 DEF Types
<1>6. Types'
  BY <1>2, <1>5 DEF Types
<1>7. DiskMoves
  BY DiskStays
<1>8. Counted' /\ LoadMessages'
  BY <1>2, <1>7, CountedFrame, LoadMessagesFrame
<1>9. \A i \in Places : lane[i].t # "reserve" => lane[i].serial \in Serials
  BY MessageFields DEF Types, Places
<1>10. Holders'
  <2>1. \A q \in Serials : /\ exec'[q].pc = "off" <=> exec[q].pc = "off"
                           /\ exec'[q].pc = "gone" <=> exec[q].pc = "gone"
    BY <1>1
  <2>2. ASSUME NEW i \in Places', lane'[i].t = "release" PROVE exec'[lane'[i].serial].pc = "gone"
    <3>1. lane[i + 1].t = "release" /\ i + 1 \in Places /\ lane'[i].serial = lane[i + 1].serial
      BY <1>3, <2>2
    <3>2. lane[i + 1].serial \in Serials /\ exec[lane[i + 1].serial].pc = "gone"
      BY <1>9, <3>1 DEF Holders
    <3>. QED  BY <2>1, <3>1, <3>2, ZenonT(40)
  <2>. QED  BY <2>1, <2>2 DEF Holders
<1>11. LoadLink'
  <2>1. CASE exec[s].pc = "publishing"
    BY <2>1, LoadLinkFrame DEF Running
  <2>2. CASE e.pc = exec[s].pc
    <3>1. \A q \in Serials : exec'[q].pc = exec[q].pc
      BY <1>1, <2>2
    <3>. QED  BY <3>1 DEF LoadLink, Started
  <2>. QED  BY <2>1, <2>2
<1>12. CmdLink'
  <2>1. \A q \in Serials : Started(q) => Started(q)'
    BY <1>1 DEF Started, Running
  <2>2. \A q \in Serials : exec'[q].form = exec[q].form /\ exec'[q].epoch = exec[q].epoch
    BY <1>1
  <2>3. \A q \in Serials : exec'[q].pc \notin {"dropping", "disposed", "gone"}
                           => exec[q].pc \notin {"dropping", "disposed", "gone"}
    BY <1>1
  <2>. QED  BY <2>1, <2>2, <2>3 DEF CmdLink, Types
<1>13. ExecLink'
  <2>1. Linked(s, exec[s], load, cmd)
    BY DEF ExecLink
  <2>2. Linked(s, e, load, cmd)
    BY <2>1 DEF Linked, Running
  <2>. QED  BY <1>1, <2>2 DEF ExecLink
<1>14. Journalled'
  BY JobFrame
<1>15. LoadEffects' /\ CmdEffects'
  <2>1. CASE done' = done
    BY <2>1, DoneFrame
  <2>2. CASE exec[s].pc \in Running /\ done' = done \cup {exec[s].req}
    <3>1. CASE exec[s].req \in LoadRequests /\ load.pc = "starting"
      <4>1. cmd.pc # "idle" => cmd.req # exec[s].req
        BY <3>1, RequestFacts DEF CmdLink
      <4>. QED  BY <2>2, <3>1, <4>1 DEF LoadEffects, CmdEffects, OutcomeIsTrue
    <3>2. CASE exec[s].req \in RunCommands /\ cmd.pc = "wait"
      <4>1. load.pc # "idle" => load.req # exec[s].req
        BY <3>2, RequestFacts DEF LoadLink
      <4>. QED  BY <2>2, <3>2, <4>1 DEF LoadEffects, CmdEffects, OutcomeIsTrue
    <3>. QED  BY <2>2, <3>1, <3>2, RequestOfRun
  <2>. QED  BY <2>1, <2>2
<1>16. Publications'
  <2>1. \A i \in Places' : LivePublication(i)' => LivePublication(i + 1) /\ lane[i + 1].serial # s
    <3>1. ASSUME NEW i \in Places', LivePublication(i)' PROVE LivePublication(i + 1) /\ lane[i + 1].serial # s
      <4>1. LivePublication(i + 1)
        BY <1>3, <3>1 DEF LivePublication
      <4>2. lane[i + 1].serial = s => LivePublication(1)
        BY <4>1 DEF LivePublication
      <4>. QED  BY <1>2, <1>3, <4>1, <4>2 DEF Publications
    <3>. QED  BY <3>1
  <2>. QED  BY <1>1, <1>3, <1>9, <2>1 DEF Publications, LivePublication, Places
<1>17. DoneIsRecorded'
  <2>1. exec[s].pc \in Running => /\ disk[KeyOf(exec[s].req)] # C!Absent
                                  /\ disk[KeyOf(exec[s].req)].req = exec[s].req
    BY <1>4, ReceiptFields DEF Pending
  <2>. QED  BY <2>1 DEF DoneIsRecorded
<1>. QED  BY <1>6, <1>8, <1>10, <1>11, <1>12, <1>13, <1>14, <1>15, <1>16, <1>17

\* The boundary a publication moves a run to is past the one it leaves.
LEMMA NextIsPast ==
    ASSUME IndInv, NEW s \in Serials, exec[s].pc \in Running
    PROVE  /\ exec[s].view.at \in Nat /\ exec[s].next.at \in Nat
           /\ exec[s].view.at <= exec[s].next.at
           /\ IsStep(exec[s].req) => exec[s].req.at < exec[s].next.at
<1>1. exec[s].view.at \in Nat /\ exec[s].next.at \in Nat
  BY DEF IndInv, Types, Execs, Views
<1>2. CASE exec[s].req \in LoadRequests
  <2>1. exec[s].view = None /\ exec[s].next = View(0, FALSE)
    BY <1>2 DEF IndInv, JobInv, ExecLink, Linked
  <2>2. exec[s].view.at = 0
    BY <2>1 DEF None
  <2>3. ~IsStep(exec[s].req)
    BY <1>2, RequestFacts DEF IsStep
  <2>. QED  BY <1>1, <2>2, <2>3
<1>3. CASE exec[s].req \in RunCommands
  <2>1. /\ exec[s].req.at = exec[s].view.at
        /\ exec[s].next = NextView(exec[s].view, exec[s].req)
    BY <1>3 DEF IndInv, JobInv, ExecLink, Linked
  <2>2. exec[s].next.at = IF exec[s].req.kind = "step" THEN exec[s].view.at + 1 ELSE exec[s].view.at
    BY <2>1 DEF NextView, View
  <2>. QED  BY <1>1, <2>1, <2>2 DEF IsStep
<1>. QED  BY <1>1, <1>2, <1>3, RequestOfRun

LEMMA OwnerPublishInv ==
    ASSUME IndInv, NEW m \in Messages, lane # <<>>, m = lane[1], OwnerPublish(m),
           UNCHANGED <<form, eligible, hostVars, budget>>
    PROVE  IndInv'
<1>. USE DEF IndInv, RunInv
<1>1. /\ m.t = "publish" /\ lane' = Tail(lane) /\ m.serial \in Serials
      /\ UNCHANGED <<disk, poisoned, form, eligible, next, cancelled, closed, retained, load, cmd>>
  BY MessageFields DEF OwnerPublish, hostVars
<1>2. PICK s \in Serials : s = m.serial
  BY <1>1
<1>3. exec[s] \in Execs /\ 1 \in Places
  BY DEF Types, Places
<1>4. ASSUME NEW p \in {"accepted", "rejected"},
             exec' = [exec EXCEPT ![m.serial].pc = IF @ = "publishing" THEN p ELSE @]
      PROVE  \E e \in Execs :
                /\ e.pc = IF exec[s].pc = "publishing" THEN p ELSE exec[s].pc
                /\ e.req = exec[s].req /\ e.next = exec[s].next /\ e.view = exec[s].view
                /\ e.form = exec[s].form /\ e.epoch = exec[s].epoch
                /\ exec' = [exec EXCEPT ![s] = e]
  <2>. DEFINE x == [exec[s] EXCEPT !.pc = IF exec[s].pc = "publishing" THEN p ELSE exec[s].pc]
  <2>1. /\ x \in Execs
        /\ x.pc = IF exec[s].pc = "publishing" THEN p ELSE exec[s].pc
        /\ x.req = exec[s].req /\ x.next = exec[s].next /\ x.view = exec[s].view
        /\ x.form = exec[s].form /\ x.epoch = exec[s].epoch
    BY <1>3 DEF Execs, ExecPcs
  <2>2. exec' = [exec EXCEPT ![s] = x]
    BY <1>2, <1>4 DEF Types
  <2>. HIDE DEF x
  <2>. QED  BY <2>1, <2>2
<1>5. CASE /\ exec' = [exec EXCEPT ![m.serial].pc = IF @ = "publishing" THEN "rejected" ELSE @]
           /\ UNCHANGED <<slot, done>>
  <2>1. PICK e \in Execs :
           /\ e.pc = IF exec[s].pc = "publishing" THEN "rejected" ELSE exec[s].pc
           /\ e.req = exec[s].req /\ e.next = exec[s].next /\ e.view = exec[s].view
           /\ e.form = exec[s].form /\ e.epoch = exec[s].epoch
           /\ exec' = [exec EXCEPT ![s] = e]
    BY <1>4, <1>5
  <2>2. slot' \in Slots /\ slot'.active = slot.active /\ UNCHANGED <<slot, done>>
    BY <1>5 DEF Types
  <2>3. Types' /\ JobInv' /\ Holders' /\ Publications' /\ DoneIsRecorded'
    BY <1>1, <1>2, <2>1, <2>2, AnsweredPublicationInv
  <2>4. exec'[s] = e /\ \A q \in Serials : q # s => exec'[q] = exec[q]
    BY <2>1 DEF Types
  <2>5. LaneMoves({})
    BY <1>1, LaneLoses DEF Types
  <2>6. LaneEffects'
    BY <1>1, <2>2, <2>5, LaneEffectsFrame
  <2>7. LaneProgress'
    <3>1. \A q \in Serials : exec'[q].form = exec[q].form /\ exec'[q].epoch = exec[q].epoch
                             /\ exec'[q].view = exec[q].view
      BY <2>1, <2>4
    <3>2. \A i \in Places' : i + 1 \in Places /\ lane'[i] = lane[i + 1]
      BY <1>1, LaneShrinks DEF Types
    <3>3. \A i \in Places : lane[i].t # "reserve" => lane[i].serial \in Serials
      BY MessageFields DEF Types, Places
    <3>4. ASSUME NEW i \in Places', LivePublication(i)'
          PROVE  StepsBelow(exec[lane'[i].serial].form, exec[lane'[i].serial].epoch,
                            exec[lane'[i].serial].view.at)
      <4>1. LivePublication(i + 1)
        BY <1>1, <3>2, <3>4 DEF LivePublication
      <4>. QED  BY <3>2, <4>1 DEF LaneProgress
    <3>5. \A i \in Places' : LivePublication(i)' => lane'[i].serial \in Serials
      BY <3>2, <3>3 DEF LivePublication
    <3>. QED  BY <2>2, <3>1, <3>4, <3>5 DEF LaneProgress, StepsBelow
  <2>8. ExecEffects' /\ Shown' /\ PublishedIsCommitted'
    BY <1>1, <2>1, <2>2, <2>4 DEF ExecEffects, Shown, PublishedIsCommitted, Live
  <2>9. RunProgress'
    BY <2>1, <2>2, <2>4 DEF RunProgress, StepsBelow
  <2>10. Epochs'
    BY <1>1, <2>1, <2>2, <2>4 DEF Epochs
  <2>11. OneStepPerBoundary'
    BY <2>2, DoneFrame
  <2>. QED  BY <2>3, <2>6, <2>7, <2>8, <2>9, <2>10, <2>11
<1>6. CASE /\ Publishable(m)
           /\ slot' = [slot EXCEPT !.run = m.run]
           /\ done' = done \cup {m.req}
           /\ exec' = [exec EXCEPT ![m.serial].pc = IF @ = "publishing" THEN "accepted" ELSE @]
  <2>. DEFINE r == exec[s].req
  <2>1. PICK e \in Execs :
           /\ e.pc = IF exec[s].pc = "publishing" THEN "accepted" ELSE exec[s].pc
           /\ e.req = exec[s].req /\ e.next = exec[s].next /\ e.view = exec[s].view
           /\ e.form = exec[s].form /\ e.epoch = exec[s].epoch
           /\ exec' = [exec EXCEPT ![s] = e]
    BY <1>4, <1>6
  <2>2. LivePublication(1)
    BY <1>1, <1>6 DEF LivePublication, Publishable, FenceHolds
  <2>3. /\ exec[s].pc \in {"publishing", "lost"} /\ r = m.req /\ exec[s].next = m.run
        /\ r \notin done
    BY <1>2, <1>3, <2>2 DEF Publications, LaneEffects
  <2>4. m.run \in Views
    BY <1>1, MessageFields
  <2>5. slot' \in Slots /\ slot'.active = slot.active /\ slot'.run = exec[s].next
    BY <1>6, <2>3, <2>4 DEF Types, Slots
  <2>6. done' = done \cup {r}
    BY <1>6, <2>3
  <2>7. Types' /\ JobInv' /\ Holders' /\ Publications' /\ DoneIsRecorded'
    BY <1>1, <1>2, <2>1, <2>3, <2>5, <2>6, AnsweredPublicationInv DEF Running
  <2>8. exec'[s] = e /\ \A q \in Serials : q # s => exec'[q] = exec[q]
    BY <2>1 DEF Types
  <2>9. slot.active = s /\ \A q \in Serials : q # s => exec'[q].pc \in {"off", "gone"}
    BY <2>3, <2>8, OneHolder
  <2>10. \A i \in Places' : ~LivePublication(i)'
    <3>1. \A i \in Places' : i + 1 \in Places /\ lane'[i] = lane[i + 1] /\ i + 1 # 1
      BY <1>1, LaneShrinks DEF Types
    <3>2. \A i \in Places' : LivePublication(i)' => LivePublication(i + 1)
      BY <1>1, <3>1 DEF LivePublication
    <3>. QED  BY <1>3, <2>2, <3>1, <3>2 DEF Publications
  <2>11. LaneEffects' /\ LaneProgress'
    BY <2>10 DEF LaneEffects, LaneProgress
  <2>12. /\ exec[s].view.at \in Nat /\ exec[s].next.at \in Nat
         /\ exec[s].view.at <= exec[s].next.at
         /\ IsStep(r) => r.at < exec[s].next.at
    BY <2>3, NextIsPast DEF Running
  <2>13. \/ r \in LoadRequests /\ r \notin RunCommands /\ r.lane = "load"
         \/ /\ r \in RunCommands /\ r.form = exec[s].form /\ r.epoch = exec[s].epoch
            /\ r.at = exec[s].view.at
    BY <2>3, RequestOfRun, RequestFacts DEF Running
  <2>14. StepsBelow(exec[s].form, exec[s].epoch, exec[s].view.at)
    BY <1>2, <1>3, <2>2 DEF LaneProgress
  <2>15. exec[s].form \in Nat /\ exec[s].epoch \in Nat
    BY DEF Types, Execs
  <2>. HIDE DEF r
  <2>16. \A q \in done : q \in RunCommands => q.at \in Nat
    BY DEF Epochs
  <2>17. ExecEffects' /\ PublishedIsCommitted'
    BY <2>1, <2>3, <2>6, <2>8, <2>9 DEF ExecEffects, PublishedIsCommitted, r
  <2>18. Shown'
    BY <2>1, <2>5, <2>8, <2>9 DEF Shown
  <2>19. Epochs'
    <3>1. r \in RunCommands => /\ r.form \in Nat /\ r.epoch \in Nat /\ r.at \in Nat
                               /\ r.form <= form /\ r.epoch <= next.epoch
      BY <2>12, <2>13, <2>15, RequestFacts DEF Epochs
    <3>2. \A q \in Serials : exec'[q].form = exec[q].form /\ exec'[q].epoch = exec[q].epoch
      BY <2>1, <2>8
    <3>. QED  BY <1>1, <2>6, <3>1, <3>2 DEF Epochs
  <2>20. RunProgress'
    <3>1. \A q \in done' : IsStep(q) /\ q.form = e.form /\ q.epoch = e.epoch => q.at < e.next.at
      <4>1. ASSUME NEW q \in done, IsStep(q), q.form = e.form, q.epoch = e.epoch
            PROVE  q.at < e.next.at
        <5>1. q.at < exec[s].view.at /\ q.at \in Nat
          BY <4>1, <2>1, <2>14, <2>16 DEF StepsBelow, IsStep
        <5>. QED  BY <5>1, <2>1, <2>12
      <4>. QED  BY <4>1, <2>1, <2>6, <2>12
    <3>2. e.pc \in {"accepted", "lost"}
      BY <2>1, <2>3
    <3>. QED  BY <2>8, <2>9, <3>1, <3>2 DEF RunProgress, StepsBelow
  <2>21. OneStepPerBoundary'
    <3>1. ASSUME NEW q \in done, IsStep(q), IsStep(r), q.form = r.form, q.epoch = r.epoch
          PROVE  q.at # r.at
      <4>1. r.form = exec[s].form /\ r.epoch = exec[s].epoch /\ r.at = exec[s].view.at
        BY <3>1, <2>13 DEF IsStep
      <4>2. q.at < exec[s].view.at /\ q.at \in Nat
        BY <3>1, <4>1, <2>14, <2>16 DEF StepsBelow, IsStep
      <4>. QED  BY <4>1, <4>2, <2>12
    <3>2. \A q \in done' : q.lane = "cmd" /\ q.kind = "step" => IsStep(q)
      <4>1. \A q \in Requests : q.lane = "cmd" => q \in RunCommands
        BY RequestFacts DEF Requests
      <4>. QED  BY <2>7, <4>1 DEF IsStep, Types
    <3>3. SUFFICES ASSUME NEW p \in done', NEW q \in done', p # q, p.lane = "cmd", q.lane = "cmd",
                          p.kind = "step", q.kind = "step", p.form = q.form, p.epoch = q.epoch
                   PROVE  p.at # q.at
      BY DEF OneStepPerBoundary
    <3>4. CASE p \in done /\ q \in done
      BY <3>3, <3>4 DEF OneStepPerBoundary
    <3>5. CASE p = r /\ q \in done
      BY <3>1, <3>2, <3>3, <3>5
    <3>6. CASE q = r /\ p \in done
      BY <3>1, <3>2, <3>3, <3>6
    <3>. QED  BY <2>6, <3>3, <3>4, <3>5, <3>6
  <2>. QED  BY <2>7, <2>11, <2>17, <2>18, <2>19, <2>20, <2>21
<1>. QED  BY <1>5, <1>6 DEF OwnerPublish

LEMMA OwnerTurnInv == ASSUME IndInv, OwnerTurn PROVE IndInv'
<1>1. lane # <<>> /\ UNCHANGED <<form, eligible, hostVars, budget>>
  BY DEF OwnerTurn
<1>2. Head(lane) \in Messages /\ Head(lane) = lane[1]
  BY <1>1 DEF IndInv, Types
<1>3. PICK m \in Messages : m = Head(lane) /\ m = lane[1]
  BY <1>2
<1>4. \/ OwnerReserve(m) \/ OwnerAllocate(m) \/ OwnerConfirm(m) \/ OwnerPublish(m)
      \/ OwnerRelease(m)
  BY <1>3 DEF OwnerTurn
<1>. QED  BY <1>1, <1>3, <1>4, OwnerReserveInv, OwnerAllocateInv, OwnerConfirmInv, OwnerPublishInv,
             OwnerReleaseInv

-----------------------------------------------------------------------------
(* The world.                                                              *)

\* Eligibility, formation and fences change under everybody's feet.
LEMMA WorldInv ==
    ASSUME IndInv, eligible' \in BOOLEAN, closed' \in BOOLEAN, form' \in Nat, form <= form',
           retained' \in {0, retained}, cancelled \subseteq cancelled', cancelled' \subseteq Serials,
           slot' \in Slots, slot'.active = slot.active, slot'.run = slot.run \/ ~slot'.run.here,
           UNCHANGED <<disk, poisoned, done, next, lane, load, cmd, exec>>
    PROVE  IndInv'
<1>. USE DEF IndInv, JobInv
<1>1. DiskMoves /\ LaneMoves({})
  BY DiskStays, LaneStays DEF Types
<1>2. Types'
  BY DEF Types
<1>3. Holders'
  BY DEF RunInv, Holders, Places
<1>4. Publications' /\ LaneEffects' /\ LaneProgress'
  BY <1>1, PublicationsFrame, LaneEffectsFrame, LaneProgressFrame DEF RunInv
<1>5. DoneIsRecorded' /\ ExecEffects' /\ RunProgress' /\ OneStepPerBoundary'
  BY <1>1, DoneFrame DEF RunInv
<1>6. Shown' /\ PublishedIsCommitted'
  BY DEF RunInv, Shown, PublishedIsCommitted, Live
<1>7. Epochs'
  <2>1. form \in Nat /\ \A s \in Serials : exec[s].form \in Nat
    BY DEF Types, Execs
  <2>. QED  BY <2>1 DEF RunInv, Epochs
<1>8. RunInv'
  BY <1>3, <1>4, <1>5, <1>6, <1>7 DEF RunInv
<1>9. Counted' /\ LoadMessages'
  BY <1>1, CountedFrame, LoadMessagesFrame
<1>10. LoadLink' /\ CmdLink' /\ Journalled' /\ ExecLink'
  BY JobFrame, LinkFrame
<1>11. LoadEffects' /\ CmdEffects'
  BY DoneFrame
<1>. QED  BY <1>2, <1>8, <1>9, <1>10, <1>11

LEMMA PermitInv == ASSUME IndInv, Permit PROVE IndInv'
<1>1. /\ eligible' \in BOOLEAN
      /\ UNCHANGED <<disk, poisoned, done, form, slot, next, lane, cancelled, closed, retained,
                     load, cmd, exec>>
  BY DEF Permit, journalVars, hostVars
<1>2. closed \in BOOLEAN /\ form \in Nat /\ cancelled \subseteq Serials /\ slot \in Slots
  BY DEF IndInv, Types
<1>. QED  BY <1>1, <1>2, WorldInv

LEMMA ShutdownInv == ASSUME IndInv, Shutdown PROVE IndInv'
<1>1. /\ closed' \in BOOLEAN /\ retained' = 0
      /\ cancelled' = cancelled \cup ({retained} \ {0})
      /\ UNCHANGED <<disk, poisoned, done, form, eligible, slot, next, lane, load, cmd, exec>>
  BY DEF Shutdown, journalVars, ownerVars
<1>2. /\ eligible \in BOOLEAN /\ form \in Nat /\ slot \in Slots
      /\ cancelled \subseteq Serials /\ retained \in Serials \cup {0}
  BY DEF IndInv, Types
<1>. QED  BY <1>1, <1>2, WorldInv

LEMMA RevokeInv == ASSUME IndInv, Revoke PROVE IndInv'
<1>1. /\ eligible' \in BOOLEAN /\ form' \in {form, form + 1}
      /\ cancelled' = cancelled \cup ({slot.active} \ {0})
      /\ slot' = [slot EXCEPT !.run = None]
      /\ UNCHANGED <<disk, poisoned, done, next, lane, closed, retained, load, cmd, exec>>
  BY DEF Revoke, journalVars, hostVars
<1>2. /\ closed \in BOOLEAN /\ form \in Nat /\ slot \in Slots /\ slot.active \in Serials \cup {0}
      /\ cancelled \subseteq Serials
  BY DEF IndInv, Types, Slots
<1>3. slot' \in Slots /\ slot'.active = slot.active /\ slot'.run = None
  BY <1>1, <1>2, ConstantTypes DEF Slots
<1>4. ~slot'.run.here
  BY <1>3 DEF None
<1>5. form' \in Nat /\ form <= form' /\ cancelled \subseteq cancelled' /\ cancelled' \subseteq Serials
  BY <1>1, <1>2
<1>. QED  BY <1>1, <1>2, <1>3, <1>4, <1>5, WorldInv

\* An empty process: nothing is held, asked or published.
LEMMA FreshProcess ==
    ASSUME Types', DoneIsRecorded', OneStepPerBoundary',
           slot' = EmptySlot, next' = [serial |-> 0, epoch |-> 0], lane' = <<>>,
           retained' = 0, load' = IdleJob, cmd' = IdleJob, exec' = [s \in Serials |-> Vacant],
           form' \in Nat,
           \A r \in done' : r \in RunCommands =>
              r.form \in Nat /\ r.epoch \in Nat /\ r.at \in Nat /\ r.form < form'
    PROVE  IndInv'
<1>1. /\ \A s \in Serials : exec'[s] = Vacant
      /\ Vacant.pc = "off" /\ Vacant.form = 0 /\ Vacant.epoch = 0
      /\ IdleJob.pc = "idle" /\ EmptySlot.active = 0 /\ next'.serial = 0 /\ next'.epoch = 0
  BY DEF Vacant, IdleJob, EmptySlot
<1>2. Places' = {} /\ \A i \in Places' : FALSE
  BY DEF Places
<1>3. Holders'
  BY <1>1, <1>2, SerialsAreNumbers DEF Holders
<1>4. Counted'
  <2>1. Asking' = {}
    BY <1>2 DEF Asking
  <2>2. Cardinality(Asking') = 0 /\ Cardinality(Recorded') \in Nat
    BY <2>1, RequestsAssumption, FS_EmptySet, FS_Subset, FS_CardinalityType DEF Recorded
  <2>. QED  BY <1>1, <1>2, <2>2 DEF Counted
<1>5. LoadLink' /\ CmdLink' /\ Journalled' /\ LoadEffects' /\ CmdEffects'
  <2>1. load'.pc = "idle" /\ cmd'.pc = "idle" /\ retained' = 0
    BY <1>1
  <2>. QED  BY <2>1 DEF LoadLink, CmdLink, Journalled, LoadEffects, CmdEffects
<1>6. ExecLink' /\ ExecEffects' /\ RunProgress' /\ Shown' /\ PublishedIsCommitted'
  BY <1>1 DEF ExecLink, Linked, Running, ExecEffects, RunProgress, Shown, PublishedIsCommitted
<1>7. LoadMessages' /\ Publications' /\ LaneEffects' /\ LaneProgress'
  BY <1>2 DEF LoadMessages, Publications, LaneEffects, LaneProgress
<1>8. Epochs'
  BY <1>1 DEF Epochs
<1>. QED  BY <1>3, <1>4, <1>5, <1>6, <1>7, <1>8 DEF IndInv, JobInv, RunInv

LEMMA FreshTypes ==
    /\ [serial |-> 0, epoch |-> 0] \in [serial : Nat, epoch : Nat]
    /\ <<>> \in Seq(Messages)
    /\ [s \in Serials |-> Vacant] \in [Serials -> Execs]
    /\ EmptySlot \in Slots /\ IdleJob \in LoadJobs /\ IdleJob \in CmdJobs
    /\ EmptySlot.active = 0 /\ IdleJob.pc = "idle"
    /\ Vacant.pc = "off" /\ Vacant.form = 0 /\ Vacant.epoch = 0
<1>1. [serial |-> 0, epoch |-> 0] \in [serial : Nat, epoch : Nat]
  OBVIOUS
<1>2. <<>> \in Seq(Messages)
  OBVIOUS
<1>3. [s \in Serials |-> Vacant] \in [Serials -> Execs]
  BY ConstantTypes
<1>4. EmptySlot.active = 0
  BY DEF EmptySlot
<1>5. IdleJob.pc = "idle"
  BY DEF IdleJob
<1>6. Vacant.pc = "off" /\ Vacant.form = 0 /\ Vacant.epoch = 0
  BY DEF Vacant
<1>. QED  BY <1>1, <1>2, <1>3, <1>4, <1>5, <1>6, ConstantTypes

LEMMA CrashInv == ASSUME IndInv, Crash PROVE IndInv'
<1>. USE DEF IndInv
<1>1. \A k \in Keys : disk[k].st = "pending" => disk[k].req \in Requests /\ disk[k] # C!Absent
  <2>1. C!Absent.st # "pending"
    BY DEF C!Absent
  <2>2. \A x \in Receipts : x.req \in Requests
    BY DEF Receipts, C!Receipt
  <2>. QED  BY <2>1, <2>2 DEF Types
<1>2. disk' \in [Keys -> {C!Absent} \cup Receipts] /\ DiskMoves
  <2>1. \A k \in Keys : disk[k].st = "pending" =>
           /\ disk'[k] \in Receipts /\ disk'[k] # C!Absent /\ disk'[k].req = disk[k].req
    BY <1>1, ReceiptFields DEF Crash, Recovered, C!Outcomes
  <2>2. \A k \in Keys : disk[k].st # "pending" => disk'[k] = disk[k]
    BY DEF Crash, Recovered
  <2>3. disk' = [k \in Keys |-> disk'[k]]
    BY DEF Crash, Recovered
  <2>. QED  BY <2>1, <2>2, <2>3 DEF Types, DiskMoves
<1>3. /\ slot' = EmptySlot /\ next' = [serial |-> 0, epoch |-> 0] /\ lane' = <<>>
      /\ retained' = 0 /\ load' = IdleJob /\ cmd' = IdleJob /\ exec' = [s \in Serials |-> Vacant]
      /\ form' = form + 1 /\ form \in Nat /\ UNCHANGED done
      /\ poisoned' = {} /\ cancelled' = {} /\ eligible' = FALSE /\ closed' = FALSE
  BY DEF Crash, Types
<1>4. Types'
  <2>1. /\ slot' \in Slots /\ next' \in [serial : Nat, epoch : Nat] /\ lane' \in Seq(Messages)
        /\ exec' \in [Serials -> Execs] /\ load' \in LoadJobs /\ cmd' \in CmdJobs
    BY <1>3, FreshTypes
  <2>2. poisoned' \subseteq Lanes /\ cancelled' \subseteq Serials /\ retained' \in Serials \cup {0}
    BY <1>3
  <2>3. form' \in Nat
    BY <1>3
  <2>4. eligible' \in BOOLEAN /\ closed' \in BOOLEAN
    BY <1>3
  <2>5. done' \subseteq Requests
    BY <1>3 DEF Types
  <2>. QED  BY <1>2, <2>1, <2>2, <2>3, <2>4, <2>5 DEF Types
<1>5. DoneIsRecorded' /\ OneStepPerBoundary'
  BY <1>2, <1>3, DoneFrame DEF RunInv
<1>6. \A r \in done' : r \in RunCommands =>
         r.form \in Nat /\ r.epoch \in Nat /\ r.at \in Nat /\ r.form < form'
  BY <1>3 DEF RunInv, Epochs
<1>. QED  BY <1>3, <1>4, <1>5, <1>6, FreshProcess

-----------------------------------------------------------------------------
(* The invariant, and what follows from it.                                *)

LEMMA InitInv == Init => IndInv
<1>. SUFFICES ASSUME Init PROVE IndInv
  OBVIOUS
<1>1. /\ slot = EmptySlot /\ next = [serial |-> 0, epoch |-> 0] /\ lane = <<>>
      /\ retained = 0 /\ load = IdleJob /\ cmd = IdleJob /\ exec = [s \in Serials |-> Vacant]
      /\ form = 1 /\ done = {}
      /\ poisoned = {} /\ cancelled = {} /\ eligible = FALSE /\ closed = FALSE
      /\ disk = [k \in Keys |-> C!Absent]
  BY DEF Init
<1>2. Types
  <2>1. /\ slot \in Slots /\ next \in [serial : Nat, epoch : Nat] /\ lane \in Seq(Messages)
        /\ exec \in [Serials -> Execs] /\ load \in LoadJobs /\ cmd \in CmdJobs
    BY <1>1, FreshTypes
  <2>2. /\ poisoned \subseteq Lanes /\ cancelled \subseteq Serials /\ form \in Nat
        /\ retained \in Serials \cup {0} /\ eligible \in BOOLEAN /\ closed \in BOOLEAN
        /\ done \subseteq Requests
    BY <1>1
  <2>3. disk \in [Keys -> {C!Absent} \cup Receipts]
    BY <1>1
  <2>. QED  BY <2>1, <2>2, <2>3 DEF Types
<1>3. /\ \A s \in Serials : exec[s] = Vacant
      /\ Vacant.pc = "off" /\ Vacant.form = 0 /\ Vacant.epoch = 0
      /\ load.pc = "idle" /\ cmd.pc = "idle" /\ slot.active = 0
      /\ next.serial = 0 /\ next.epoch = 0
  <2>1. \A s \in Serials : exec[s] = Vacant
    BY <1>1
  <2>2. load.pc = "idle" /\ cmd.pc = "idle" /\ slot.active = 0
    BY <1>1, FreshTypes
  <2>3. next.serial = 0 /\ next.epoch = 0
    BY <1>1
  <2>. QED  BY <2>1, <2>2, <2>3, FreshTypes
<1>4. \A i \in Places : FALSE
  BY <1>1 DEF Places
<1>5. Holders
  <2>1. \A s \in Serials : s > next.serial /\ exec[s].pc = "off"
    BY <1>3, SerialsAreNumbers
  <2>2. slot.active <= next.serial
    BY <1>3
  <2>. QED  BY <1>4, <2>1, <2>2 DEF Holders
<1>6. Counted
  <2>1. Asking = {}
    BY <1>4 DEF Asking
  <2>2. Cardinality(Asking) = 0 /\ Cardinality(Recorded) \in Nat
    BY <2>1, RequestsAssumption, FS_EmptySet, FS_Subset, FS_CardinalityType DEF Recorded
  <2>. QED  BY <1>3, <1>4, <2>2 DEF Counted
<1>7. LoadLink /\ CmdLink /\ Journalled /\ LoadEffects /\ CmdEffects
  BY <1>1, <1>3 DEF LoadLink, CmdLink, Journalled, LoadEffects, CmdEffects
<1>8. ExecLink /\ ExecEffects /\ RunProgress /\ Shown /\ PublishedIsCommitted
  BY <1>3 DEF ExecLink, Linked, Running, ExecEffects, RunProgress, Shown, PublishedIsCommitted
<1>9. LoadMessages /\ Publications /\ LaneEffects /\ LaneProgress
  BY <1>4 DEF LoadMessages, Publications, LaneEffects, LaneProgress
<1>10. Epochs /\ DoneIsRecorded /\ OneStepPerBoundary
  BY <1>1, <1>3 DEF Epochs, DoneIsRecorded, OneStepPerBoundary
<1>. QED  BY <1>2, <1>5, <1>6, <1>7, <1>8, <1>9, <1>10 DEF IndInv, JobInv, RunInv

LEMMA StutterInv == ASSUME IndInv, UNCHANGED vars PROVE IndInv'
<1>1. /\ eligible \in BOOLEAN /\ closed \in BOOLEAN /\ form \in Nat /\ slot \in Slots
      /\ cancelled \subseteq Serials
  BY DEF IndInv, Types
<1>. QED  BY <1>1, WorldInv DEF vars

LEMMA NextInv == IndInv /\ [Next]_vars => IndInv'
<1>. SUFFICES ASSUME IndInv, [Next]_vars PROVE IndInv'
  OBVIOUS
<1>1. ASSUME NEW r \in LoadRequests, SubmitLoad(r) PROVE IndInv'
  BY <1>1, SubmitLoadInv
<1>2. ASSUME NEW r \in RunCommands, SubmitCommand(r) PROVE IndInv'
  BY <1>2, SubmitCommandInv
<1>3. CASE LoadStep
  BY <1>3, LoadBeginInv, LoadPrepareInv, LoadReceiveInv, LoadAdmitInv, LoadGivesUpInv, LoadStartInv,
     LoadRetainInv, LoadDroppedInv, LoadFinishInv
  DEF LoadStep
<1>4. CASE CmdStep
  BY <1>4, CmdBeginInv, CmdApplyInv, CmdSendInv, CmdFinishInv DEF CmdStep
<1>5. CASE OwnerTurn
  BY <1>5, OwnerTurnInv
<1>6. ASSUME NEW s \in Serials, ExecStep(s) PROVE IndInv'
  BY <1>6, ExecTakeInv, ExecTimeoutInv, ExecCommitInv, ExecAbortInv, ExecLeaveInv, DisposeInv,
     DropLeaseInv
  DEF ExecStep
<1>7. CASE Permit \/ Revoke \/ Shutdown \/ Crash
  BY <1>7, PermitInv, RevokeInv, ShutdownInv, CrashInv
<1>8. CASE UNCHANGED vars
  BY <1>8, StutterInv
<1>. QED  BY <1>1, <1>2, <1>3, <1>4, <1>5, <1>6, <1>7, <1>8 DEF Next, RunStep

LEMMA Invariance == Spec => []IndInv
BY InitInv, NextInv, PTL DEF Spec

\* No worker holds two guests: a guest lives between its reservation and the
\* drop of its lease, the owner hears of the drop from the lease alone, and until
\* then the slot has one active reservation.
THEOREM OneGuestAtATime == Spec => []OneRuntime
<1>. DEFINE Held == {s \in Serials : exec[s].pc \in {"built", "publishing", "lost", "accepted",
                                  "rejected", "idle", "queued", "dropping"}}
<1>1. IndInv => OneRuntime
  <2>. SUFFICES ASSUME IndInv PROVE Cardinality(Held) <= 1
    BY DEF OneRuntime
  <2>1. Held \subseteq {slot.active}
    BY DEF IndInv, RunInv, Holders
  <2>2. IsFiniteSet({slot.active}) /\ Cardinality({slot.active}) = 1
    BY FS_Singleton
  <2>. HIDE DEF Held
  <2>. QED  BY <2>1, <2>2, FS_Subset
<1>. QED  BY <1>1, Invariance, PTL

\* While a run's fence stands and its executor is between commands, readers see
\* the executor's own state: a publication the owner accepts late finds the fence
\* down before the executor may go on.
THEOREM ReadersSeeCommitted == Spec => []PublishedIsCommitted
<1>1. IndInv => PublishedIsCommitted
  BY DEF IndInv, RunInv
<1>. QED  BY <1>1, Invariance, PTL

\* No two steps leave the same boundary of a run, whatever is retried, timed
\* out, revoked or restarted.
THEOREM BoundariesAreLeftOnce == Spec => []OneStepPerBoundary
<1>1. IndInv => OneStepPerBoundary
  BY DEF IndInv, RunInv
<1>. QED  BY <1>1, Invariance, PTL

-----------------------------------------------------------------------------
(* The service implements ReceiptContract: the log is the disk, the        *)
(* effects are the history of what was published.                          *)

Contracted == [C!ContractNext]_(C!contractVars)

\* A write of a journal reserves, settles, or was lost.
LEMMA WriteIsContracted ==
    ASSUME NEW r \in Requests, UNCHANGED done,
           \/ disk' = disk
           \/ Unused(r) /\ disk' = With(r, "pending")
           \/ \E st \in C!Outcomes : /\ Pending(r) /\ disk' = With(r, st)
                                     /\ st = "applied" => r \in done
                                     /\ st = "refused" => r \notin done
    PROVE  Contracted
<1>1. CASE disk' = disk
  BY <1>1 DEF Contracted, C!contractVars
<1>2. CASE Unused(r) /\ disk' = With(r, "pending")
  <2>1. C!Reserve(r)
    BY <1>2 DEF C!Reserve, Unused, With
  <2>. QED  BY <2>1 DEF Contracted, C!ContractNext
<1>3. ASSUME NEW st \in C!Outcomes, Pending(r), disk' = With(r, st),
             st = "applied" => r \in done, st = "refused" => r \notin done
      PROVE  Contracted
  <2>1. C!Settle(r, st)
    BY <1>3 DEF C!Settle, Pending, With
  <2>. QED  BY <2>1 DEF Contracted, C!ContractNext
<1>. QED  BY <1>1, <1>2, <1>3

LEMMA EffectIsContracted ==
    ASSUME NEW r \in Requests, Pending(r), r \notin done, done' = done \cup {r}, UNCHANGED disk
    PROVE  Contracted
<1>1. C!Perform(r)
  BY DEF C!Perform, Pending
<1>. QED  BY <1>1 DEF Contracted, C!ContractNext

LEMMA LoadIsContracted == ASSUME IndInv, LoadStep PROVE Contracted
<1>. USE DEF IndInv, JobInv
<1>1. CASE LoadBegin
  <2>1. load.req \in Requests /\ Unused(load.req) /\ UNCHANGED done
    BY <1>1, RequestFacts DEF LoadBegin, LoadAt, LoadLink, Journalled, Unused
  <2>2. disk' = disk \/ disk' = With(load.req, "pending")
    BY <1>1, <2>1, Writes DEF LoadBegin
  <2>. QED  BY <2>1, <2>2, WriteIsContracted
<1>2. CASE LoadFinish
  <2>1. load.req \in Requests /\ Pending(load.req) /\ OutcomeIsTrue(load) /\ UNCHANGED done
    BY <1>2, RequestFacts DEF LoadFinish, LoadAt, LoadLink, Journalled, LoadEffects
  <2>2. disk' = disk \/ disk' = With(load.req, load.outcome)
    BY <1>2, <2>1, Writes DEF LoadFinish
  <2>. QED  BY <2>1, <2>2, WriteIsContracted DEF OutcomeIsTrue
<1>3. CASE LoadPrepare \/ LoadReceive \/ LoadAdmit \/ LoadGivesUp \/ LoadStart \/ LoadRetain
           \/ LoadDropped
  <2>1. UNCHANGED <<disk, done>>
    BY <1>3 DEF LoadPrepare, LoadReceive, LoadAdmit, LoadGivesUp, LoadStart, LoadRetain,
                LoadDropped, journalVars
  <2>. QED  BY <2>1 DEF Contracted, C!contractVars
<1>. QED  BY <1>1, <1>2, <1>3 DEF LoadStep

LEMMA CmdIsContracted == ASSUME IndInv, CmdStep PROVE Contracted
<1>. USE DEF IndInv, JobInv
<1>1. CASE CmdBegin
  <2>1. cmd.req \in Requests /\ Unused(cmd.req) /\ UNCHANGED done
    BY <1>1, RequestFacts DEF CmdBegin, CmdAt, CmdLink, Journalled, Unused
  <2>2. disk' = disk \/ disk' = With(cmd.req, "pending")
    BY <1>1, <2>1, Writes DEF CmdBegin
  <2>. QED  BY <2>1, <2>2, WriteIsContracted
<1>2. CASE CmdFinish
  <2>1. cmd.req \in Requests /\ Pending(cmd.req) /\ OutcomeIsTrue(cmd) /\ UNCHANGED done
    BY <1>2, RequestFacts DEF CmdFinish, CmdAt, CmdLink, Journalled, CmdEffects
  <2>2. disk' = disk \/ disk' = With(cmd.req, cmd.outcome)
    BY <1>2, <2>1, Writes DEF CmdFinish
  <2>. QED  BY <2>1, <2>2, WriteIsContracted DEF OutcomeIsTrue
<1>3. CASE CmdApply \/ CmdSend
  <2>1. UNCHANGED <<disk, done>>
    BY <1>3 DEF CmdApply, CmdSend, journalVars
  <2>. QED  BY <2>1 DEF Contracted, C!contractVars
<1>. QED  BY <1>1, <1>2, <1>3 DEF CmdStep

LEMMA ExecIsContracted == ASSUME IndInv, NEW s \in Serials, ExecStep(s) PROVE Contracted
<1>. USE DEF IndInv, JobInv
<1>1. CASE ExecTake(s)
  <2>1. exec[s].pc = "queued" /\ UNCHANGED disk
    BY <1>1 DEF ExecTake
  <2>2. exec[s].req \in Requests /\ cmd.pc = "wait" /\ cmd.req = exec[s].req
    BY <2>1, RequestFacts DEF ExecLink, Linked
  <2>3. Pending(exec[s].req) /\ exec[s].req \notin done
    BY <2>1, <2>2 DEF Journalled, RunInv, ExecEffects
  <2>4. done' = done \/ done' = done \cup {exec[s].req}
    BY <1>1 DEF ExecTake
  <2>5. CASE done' = done
    BY <2>1, <2>5 DEF Contracted, C!contractVars
  <2>. QED  BY <2>1, <2>2, <2>3, <2>4, <2>5, EffectIsContracted
<1>2. CASE ExecTimeout(s) \/ ExecCommit(s) \/ ExecAbort(s) \/ ExecLeave(s) \/ Dispose(s) \/ DropLease(s)
  <2>1. UNCHANGED <<disk, done>>
    BY <1>2 DEF ExecTimeout, ExecCommit, ExecAbort, ExecLeave, Dispose, DropLease, journalVars
  <2>. QED  BY <2>1 DEF Contracted, C!contractVars
<1>. QED  BY <1>1, <1>2 DEF ExecStep

LEMMA OwnerIsContracted == ASSUME IndInv, OwnerTurn PROVE Contracted
<1>. USE DEF IndInv, JobInv
<1>1. lane # <<>> /\ 1 \in Places /\ Head(lane) = lane[1] /\ lane[1] \in Messages
  BY DEF OwnerTurn, Types, Places
<1>2. PICK m \in Messages : m = lane[1]
  BY <1>1
<1>3. OwnerReserve(m) \/ OwnerAllocate(m) \/ OwnerConfirm(m) \/ OwnerPublish(m) \/ OwnerRelease(m)
  BY <1>1, <1>2 DEF OwnerTurn
<1>4. CASE OwnerPublish(m)
  <2>1. m.t = "publish" /\ UNCHANGED disk /\ m.serial \in Serials
    BY <1>4, MessageFields DEF OwnerPublish
  <2>2. CASE done' = done
    BY <2>1, <2>2 DEF Contracted, C!contractVars
  <2>3. CASE Publishable(m) /\ done' = done \cup {m.req}
    <3>1. LivePublication(1)
      BY <1>2, <2>1, <2>3 DEF LivePublication, Publishable, FenceHolds
    <3>2. exec[m.serial].pc \in Running /\ exec[m.serial].req = m.req
      BY <1>1, <1>2, <3>1 DEF RunInv, Publications, Running
    <3>3. m.req \in Requests /\ Pending(m.req)
      BY <2>1, <3>2, PublishedIsPending
    <3>4. m.req \notin done
      BY <1>1, <1>2, <3>1 DEF RunInv, LaneEffects
    <3>. QED  BY <2>1, <2>3, <3>3, <3>4, EffectIsContracted
  <2>. QED  BY <1>4, <2>2, <2>3 DEF OwnerPublish
<1>5. CASE OwnerReserve(m) \/ OwnerAllocate(m) \/ OwnerConfirm(m) \/ OwnerRelease(m)
  <2>1. UNCHANGED <<disk, done>>
    BY <1>5 DEF OwnerReserve, OwnerAllocate, OwnerConfirm, OwnerRelease
  <2>. QED  BY <2>1 DEF Contracted, C!contractVars
<1>. QED  BY <1>3, <1>4, <1>5

LEMMA StepIsContracted == IndInv /\ [Next]_vars => Contracted
<1>. SUFFICES ASSUME IndInv, [Next]_vars PROVE Contracted
  OBVIOUS
<1>1. ASSUME NEW r \in LoadRequests, SubmitLoad(r) PROVE UNCHANGED <<disk, done>>
  BY <1>1 DEF SubmitLoad, journalVars
<1>2. ASSUME NEW r \in RunCommands, SubmitCommand(r) PROVE UNCHANGED <<disk, done>>
  BY <1>2 DEF SubmitCommand, journalVars
<1>3. CASE Permit \/ Revoke \/ Shutdown \/ UNCHANGED vars
  <2>1. UNCHANGED <<disk, done>>
    BY <1>3 DEF Permit, Revoke, Shutdown, vars, journalVars
  <2>. QED  BY <2>1 DEF Contracted, C!contractVars
<1>4. CASE UNCHANGED <<disk, done>>
  BY <1>4 DEF Contracted, C!contractVars
<1>5. CASE Crash
  <2>1. C!Recover
    BY <1>5 DEF Crash, Recovered, C!Recover
  <2>. QED  BY <2>1 DEF Contracted, C!ContractNext
<1>. QED  BY <1>1, <1>2, <1>3, <1>4, <1>5, LoadIsContracted, CmdIsContracted, ExecIsContracted,
            OwnerIsContracted DEF Next, RunStep

\* The journals keep ReceiptContract's promise: an operation is recorded before
\* it takes effect, takes effect at most once, and what its receipt says is true
\* for ever, across timeouts, failed writes, revocations, shutdowns and crashes.
THEOREM ReceiptsKeepTheContract == Spec => ReceiptsAreHonest
<1>1. Init => C!ContractInit
  BY DEF Init, C!ContractInit
<1>2. IndInv /\ [Next]_vars => [C!ContractNext]_(C!contractVars)
  BY StepIsContracted DEF Contracted
<1>. QED  BY <1>1, <1>2, Invariance, PTL DEF Spec, ReceiptsAreHonest, C!ContractSpec

=============================================================================
