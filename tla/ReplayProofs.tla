---------------------------- MODULE ReplayProofs ----------------------------
(***************************************************************************)
(* What is repeated is acted on once, for all values of the constants.     *)
(*                                                                         *)
(* SeqWindow: the replay window of a receiver is type-correct, lets no     *)
(* stream message act twice, and never mistakes a reordered message for a  *)
(* replay.                                                                 *)
(*                                                                         *)
(* AdmissionReplay: the introducer's ledger stays within its limit, one    *)
(* attempt is only ever given one ID, and nobody is accepted whose         *)
(* membership does not stand.                                              *)
(***************************************************************************)
EXTENDS SeqWindow, AdmissionReplay, FiniteSetTheorems, TLAPS

-----------------------------------------------------------------------------
(* The replay window.                                                      *)

\* What was acted on is marked in the window, so it will look replayed.
Marked ==
    \A u \in Uids : handled[u] >= 1 => u \in DOMAIN wire /\ Replayed(wire[u].seq)

\* Every bit of the window stands for a delivered message.
Witnessed ==
    \A b \in seen :
       \E o \in DOMAIN wire : handled[o] # NotDelivered /\ wire[o].seq = highest - b

WindowInv == WindowTypeOK /\ HandledAtMostOnce /\ Marked /\ Witnessed

-----------------------------------------------------------------------------
\* What WindowTypeOK says of the window, all that the lemmas on Observe need.
WindowOK == highest \in Nat /\ seen \in SUBSET (0..(Width - 1))

\* The four cases of SequenceWindow::observe.
LEMMA ObserveCases ==
    ASSUME WindowOK, NEW t \in Nat, Observe(t)
    PROVE  \/ (seen = {} \/ t >= highest + Width) /\ highest' = t /\ seen' = {0}
           \/ /\ seen # {} /\ t > highest /\ t < highest + Width
              /\ highest' = t /\ seen' = {0} \cup Shift(seen, t - highest)
           \/ /\ seen # {} /\ t + Width <= highest
              /\ highest' = highest /\ seen' = seen
           \/ /\ seen # {} /\ t <= highest /\ highest - t < Width
              /\ highest' = highest /\ seen' = seen \cup {highest - t}
BY WidthAssumption DEF WindowOK, Observe

\* A number that is not newer than the newest leaves the window in place and
\* sets at most its own bit.
LEMMA ObserveOld ==
    ASSUME WindowOK, NEW t \in Nat, Observe(t), seen # {}, t <= highest
    PROVE  highest' = highest /\ seen' \in {seen, seen \cup {highest - t}}
<1>1. ~(t > highest) /\ ~(t >= highest + Width)
  BY WidthAssumption DEF WindowOK
<1>. QED  BY <1>1 DEF Observe

\* Observing a number marks it.
LEMMA ObserveMarks ==
    ASSUME WindowOK, NEW t \in Nat, Observe(t)
    PROVE  Replayed(t)'
BY WidthAssumption, ObserveCases DEF WindowOK, Replayed

\* Observing a number keeps every other mark: bits shift with the highest
\* number, and a number pushed out of the window still counts as replayed.
LEMMA ObserveKeeps ==
    ASSUME WindowOK, NEW t \in Nat, Observe(t),
           NEW s \in Nat, Replayed(s)
    PROVE  Replayed(s)'
<1>1. CASE t > highest /\ t < highest + Width /\ highest - s \in seen /\ t - s < Width
  <2>1. (t - s) \in Shift(seen, t - highest)
    BY <1>1, WidthAssumption DEF WindowOK, Shift, Replayed
  <2>. QED  BY <1>1, <2>1, ObserveCases, WidthAssumption DEF WindowOK, Replayed
<1>2. CASE t > highest /\ t - s >= Width
  BY <1>2, ObserveCases, WidthAssumption DEF WindowOK, Replayed
<1>3. CASE t <= highest
  <2>1. seen # {}
    BY DEF Replayed
  <2>2. highest' = highest /\ seen' \in {seen, seen \cup {highest - t}}
    BY <1>3, <2>1, ObserveOld
  <2>. QED  BY <2>2 DEF Replayed
<1>. QED  BY <1>1, <1>2, <1>3, WidthAssumption DEF WindowOK, Replayed

\* After an observation every bit stands for the observed number or for one
\* that had a bit before.
LEMMA ObserveBits ==
    ASSUME WindowOK, NEW t \in Nat, Observe(t), NEW b \in seen'
    PROVE  highest' - b = t \/ \E c \in seen : highest' - b = highest - c
<1>1. CASE seen # {} /\ t > highest /\ t < highest + Width /\ b # 0
  <2>1. highest' = t /\ b \in Shift(seen, t - highest)
    BY <1>1, ObserveCases, WidthAssumption DEF WindowOK
  <2>2. b \in 0..(Width - 1) /\ b - (t - highest) \in seen
    BY <2>1 DEF Shift
  <2>3. t - b = highest - (b - (t - highest))
    BY <2>2, WidthAssumption DEF WindowOK
  <2>. QED  BY <2>1, <2>2, <2>3
<1>2. CASE seen = {} \/ t >= highest + Width
  BY <1>2, WidthAssumption DEF WindowOK, Observe
<1>3. CASE seen # {} /\ t > highest /\ t < highest + Width /\ b = 0
  BY <1>3, WidthAssumption DEF WindowOK, Observe
<1>4. CASE seen # {} /\ t <= highest
  <2>1. highest' = highest /\ seen' \in {seen, seen \cup {highest - t}}
    BY <1>4, ObserveOld
  <2>2. CASE b \in seen
    BY <2>1, <2>2
  <2>3. CASE b = highest - t
    BY <2>1, <2>3 DEF WindowOK
  <2>. QED  BY <2>1, <2>2, <2>3
<1>. QED  BY <1>1, <1>2, <1>3, <1>4, WidthAssumption DEF WindowOK

\* The window stays in range: at most Width bits below a number of the range.
LEMMA ObserveType ==
    ASSUME WindowOK, NEW t \in Nat, Observe(t)
    PROVE  highest' \in {t, highest} /\ seen' \subseteq 0..(Width - 1)
<1>1. Shift(seen, t - highest) \subseteq 0..(Width - 1)
  BY DEF Shift
<1>2. 0 \in 0..(Width - 1) /\ \A d \in Nat : d < Width => d \in 0..(Width - 1)
  BY WidthAssumption
<1>3. seen # {} /\ t <= highest /\ highest - t < Width => highest - t \in Nat
  BY DEF WindowOK
<1>4. seen \subseteq 0..(Width - 1)
  BY DEF WindowOK
<1>. QED  BY <1>1, <1>2, <1>3, <1>4, ObserveCases

-----------------------------------------------------------------------------
\* What WindowTypeOK says of a message on the wire.
LEMMA WireTyped ==
    ASSUME WindowTypeOK, NEW u \in DOMAIN wire
    PROVE  /\ u \in Uids /\ wire[u].seq \in 0..MaxSeq /\ wire[u].seq \in Nat
           /\ wire[u].stream \in BOOLEAN
<1>1. wire \in Seq(Messages) /\ Len(wire) <= MaxSends
  BY DEF WindowTypeOK
<1>2. u \in 1..Len(wire) /\ wire[u] \in Messages
  BY <1>1
<1>3. u \in Uids
  BY <1>1, <1>2, MaxSendsAssumption DEF Uids
<1>4. wire[u].seq \in 0..MaxSeq /\ wire[u].stream \in BOOLEAN
  BY <1>2 DEF Messages
<1>. QED  BY <1>3, <1>4, MaxSeqAssumption

LEMMA WindowInitInv == WindowInit => WindowInv
BY WidthAssumption, MaxSeqAssumption, MaxSendsAssumption
   DEF WindowInit, WindowInv, WindowTypeOK, HandledAtMostOnce, Marked, Witnessed, Uids, NotDelivered, Messages

LEMMA WindowNextInv == WindowInv /\ [WindowNext]_windowVars => WindowInv'
<1> SUFFICES ASSUME WindowInv, [WindowNext]_windowVars PROVE WindowInv'
    OBVIOUS
<1> USE WidthAssumption, MaxSeqAssumption, MaxSendsAssumption
<1>1. ASSUME NEW stream \in BOOLEAN, SendHere(stream) PROVE WindowInv'
  <2> DEFINE m == [seq |-> nextSeq, stream |-> stream]
  <2>1. m \in Messages /\ wire \in Seq(Messages)
    BY DEF WindowInv, WindowTypeOK, Messages
  <2>2. /\ wire' \in Seq(Messages) /\ Len(wire') = Len(wire) + 1
        /\ \A u \in DOMAIN wire : u \in DOMAIN wire' /\ wire'[u] = wire[u]
    BY <1>1, <2>1 DEF SendHere
  <2>3. WindowTypeOK'
    BY <1>1, <2>2 DEF WindowInv, WindowTypeOK, SendHere, NextSeq
  <2>4. Marked'
    BY <1>1, <2>2 DEF WindowInv, Marked, SendHere, Replayed
  <2>5. Witnessed'
    BY <1>1, <2>2 DEF WindowInv, Witnessed, SendHere
  <2>. QED  BY <1>1, <2>3, <2>4, <2>5 DEF WindowInv, HandledAtMostOnce, SendHere
<1>2. ASSUME SendElsewhere PROVE WindowInv'
  BY <1>2 DEF WindowInv, WindowTypeOK, HandledAtMostOnce, Marked, Witnessed, Replayed, SendElsewhere, NextSeq
<1>3. ASSUME NEW u \in DOMAIN wire, Receive(u) PROVE WindowInv'
  <2>1. u \in Uids /\ wire[u].seq \in Nat /\ wire[u].seq \in 0..MaxSeq
    BY WireTyped DEF WindowInv
  <2>2. WindowTypeOK /\ WindowOK /\ Observe(wire[u].seq) /\ wire' = wire
    BY <1>3 DEF WindowInv, Receive, WindowTypeOK, WindowOK
  <2>3. /\ handled' \in [Uids -> Nat \cup {NotDelivered}]
        /\ handled'[u] # NotDelivered
        /\ \A v \in Uids \ {u} : handled'[v] = handled[v]
    BY <1>3, <2>1, <2>2 DEF Receive, WindowTypeOK, NotDelivered
  <2>4. WindowTypeOK'
    BY <1>3, <2>1, <2>2, <2>3, ObserveType DEF WindowTypeOK, Receive
  <2>5. HandledAtMostOnce'
    <3>1. CASE handled[u] >= 1
      <4>1. handled'[u] = handled[u]
        BY <1>3, <2>1, <2>2, <3>1 DEF WindowInv, Marked, Receive, WindowTypeOK, NotDelivered
      <4>. QED  BY <2>3, <4>1 DEF WindowInv, HandledAtMostOnce
    <3>2. CASE ~(handled[u] >= 1)
      <4>1. handled'[u] <= 1
        BY <1>3, <2>1, <2>2, <3>2 DEF Receive, WindowTypeOK, NotDelivered
      <4>. QED  BY <2>3, <4>1 DEF WindowInv, HandledAtMostOnce
    <3>. QED  BY <3>1, <3>2
  <2>6. Marked'
    <3> SUFFICES ASSUME NEW v \in Uids, handled'[v] >= 1
                 PROVE  v \in DOMAIN wire /\ Replayed(wire[v].seq)'
      BY <2>2 DEF Marked, Replayed
    <3>1. CASE v = u
      BY <2>1, <2>2, <3>1, ObserveMarks
    <3>2. CASE v # u
      <4>1. v \in DOMAIN wire /\ Replayed(wire[v].seq)
        BY <2>3, <3>2 DEF WindowInv, Marked
      <4>2. wire[v].seq \in Nat
        BY <2>2, <4>1, WireTyped
      <4>. QED  BY <2>1, <2>2, <4>1, <4>2, ObserveKeeps
    <3>. QED  BY <3>1, <3>2
  <2>7. Witnessed'
    <3> SUFFICES ASSUME NEW b \in seen'
                 PROVE  \E o \in DOMAIN wire : handled'[o] # NotDelivered /\ wire[o].seq = highest' - b
      BY <2>2 DEF Witnessed
    <3>1. CASE highest' - b = wire[u].seq
      BY <2>3, <3>1
    <3>2. CASE \E c \in seen : highest' - b = highest - c
      <4>1. PICK c \in seen : highest' - b = highest - c
        BY <3>2
      <4>2. PICK o \in DOMAIN wire : handled[o] # NotDelivered /\ wire[o].seq = highest - c
        BY DEF WindowInv, Witnessed
      <4>3. o \in Uids
        BY <2>2 DEF WindowTypeOK, Uids
      <4>4. handled'[o] # NotDelivered
        BY <2>3, <4>2, <4>3
      <4>. QED  BY <4>1, <4>2, <4>4
    <3>. QED  BY <2>1, <2>2, <3>1, <3>2, ObserveBits
  <2>. QED  BY <2>4, <2>5, <2>6, <2>7 DEF WindowInv
<1>4. ASSUME ForgetSender PROVE WindowInv'
  <2>0. handled' \in [Uids -> Nat \cup {NotDelivered}] /\ 0 \in 0..MaxSeq
    BY <1>4, MaxSeqAssumption DEF ForgetSender
  <2>1. WindowTypeOK' /\ Witnessed'
    BY <1>4, <2>0 DEF WindowInv, WindowTypeOK, Witnessed, ForgetSender
  <2>2. \A u \in Uids : handled'[u] = -1
    BY <1>4 DEF ForgetSender, NotDelivered
  <2>. QED  BY <2>1, <2>2 DEF WindowInv, HandledAtMostOnce, Marked
<1>5. ASSUME Reinsert PROVE WindowInv'
  BY <1>5 DEF WindowInv, WindowTypeOK, HandledAtMostOnce, Marked, Witnessed, Replayed, Reinsert
<1>6. ASSUME UNCHANGED windowVars PROVE WindowInv'
  BY <1>6 DEF WindowInv, WindowTypeOK, HandledAtMostOnce, Marked, Witnessed, Replayed, windowVars
<1>. QED  BY <1>1, <1>2, <1>3, <1>4, <1>5, <1>6 DEF WindowNext

\* The sequence counter, the window and the history stay in their types.
THEOREM WindowTypeCorrect == WindowSpec => []WindowTypeOK
<1>1. WindowInv => WindowTypeOK  BY DEF WindowInv
<1>. QED  BY WindowInitInv, WindowNextInv, <1>1, PTL DEF WindowSpec

\* handle_peer acts at most once on each stream-carried message of a member.
THEOREM AtMostOnce == WindowSpec => []HandledAtMostOnce
<1>1. WindowInv => HandledAtMostOnce  BY DEF WindowInv
<1>. QED  BY WindowInitInv, WindowNextInv, <1>1, PTL DEF WindowSpec

-----------------------------------------------------------------------------
\* One step of ReorderedStreamsSurvive.
SurvivesStep ==
    \A u \in DOMAIN wire :
       (/\ handled[u] = NotDelivered /\ handled'[u] # NotDelivered
        /\ wire[u].stream
        /\ wire[u].seq + Width > highest
        /\ \A o \in DOMAIN wire :
              handled[o] # NotDelivered => wire[o].seq # wire[u].seq)
       => handled'[u] = 1

LEMMA StepSurvives == WindowInv /\ [WindowNext]_windowVars => [SurvivesStep]_windowVars
<1> SUFFICES ASSUME WindowInv, [WindowNext]_windowVars, NEW u \in DOMAIN wire,
                    handled[u] = NotDelivered, handled'[u] # NotDelivered,
                    wire[u].stream, wire[u].seq + Width > highest,
                    \A o \in DOMAIN wire : handled[o] # NotDelivered => wire[o].seq # wire[u].seq
             PROVE  handled'[u] = 1
  BY DEF SurvivesStep
<1>1. u \in Uids /\ wire[u].seq \in Nat
  BY WireTyped DEF WindowInv
<1>2. PICK v \in DOMAIN wire : Receive(v)
  BY <1>1 DEF WindowNext, windowVars, SendHere, SendElsewhere, ForgetSender, Reinsert
<1>3. u = v
  <2>1. v \in Uids  BY MaxSendsAssumption DEF WindowInv, WindowTypeOK, Uids
  <2>. QED  BY <1>1, <1>2, <2>1 DEF WindowInv, WindowTypeOK, Receive
<1>4. ~Replayed(wire[u].seq)
  <2> SUFFICES ASSUME Replayed(wire[u].seq) PROVE FALSE
    OBVIOUS
  <2>1. highest - wire[u].seq \in seen
    BY <1>1, WidthAssumption, MaxSeqAssumption DEF Replayed, WindowInv, WindowTypeOK
  <2>2. PICK o \in DOMAIN wire : /\ handled[o] # NotDelivered
                                 /\ wire[o].seq = highest - (highest - wire[u].seq)
    BY <2>1 DEF WindowInv, Witnessed
  <2>. QED  BY <1>1, <2>2, MaxSeqAssumption DEF WindowInv, WindowTypeOK
<1>. QED  BY <1>1, <1>2, <1>3, <1>4 DEF WindowInv, WindowTypeOK, Receive

\* handle_peer never drops a message only because the transport reordered it.
THEOREM ReorderingSurvives == WindowSpec => ReorderedStreamsSurvive
<1>. QED  BY WindowInitInv, WindowNextInv, StepSurvives, PTL DEF WindowSpec, ReorderedStreamsSurvive, SurvivesStep

-----------------------------------------------------------------------------
(* The ledger of accepted assignments.                                     *)

Accepted == [id : Ids, body : Bodies]
Entries == {a \in Attempts : ledger[a] # NoRecord}

\* What TypeOK says but for the size of the ledger.
IntroducerTypes ==
    /\ members \in [Ids -> [cert : Certs, live : BOOLEAN] \cup {Nobody}]
    /\ tombs \in [Ids -> [cert : Certs, fenced : BOOLEAN] \cup {NoTomb}]
    /\ locked \in BOOLEAN
    /\ blocked \subseteq Certs
    /\ safe \in BOOLEAN
    /\ ledger \in [Attempts -> Accepted \cup {NoRecord}]
    /\ bound \in [Sessions -> Ids \cup {NoId}]
    /\ changes \in 0..MaxChanges

ApplicantTypes ==
    /\ attempt \in [Certs -> [try : 1..MaxTries, line : Lines] \cup {Idle}]
    /\ tries \in [Certs -> 0..MaxTries]
    /\ adopted \in [Certs -> Ids \cup {NoId}]
    /\ requests \subseteq Requests
    /\ answers \subseteq [session : Sessions, try : 1..MaxTries, id : Ids]

LedgerBounded == IsFiniteSet(Entries) /\ Cardinality(Entries) <= LedgerCapacity

\* Whatever was answered is what the ledger holds: an attempt on record is never
\* put through the gates again, and no record is ever replaced.
AnsweredFromLedger == \A a \in answers : ledger[<<a.session.cert, a.try>>].id = a.id

ReplayInv == IntroducerTypes /\ ApplicantTypes /\ LedgerBounded /\ AnsweredFromLedger

LEMMA NoIdIsNone == NoId \notin Ids /\ NoRecord \notin Accepted /\ NoRecord.id = NoId
<1>1. NoId \notin Ids
  BY ReplayAssumption DEF NoId
<1>. QED  BY <1>1 DEF NoRecord, Accepted

LEMMA FormerType == Former \in [Certs -> Ids] /\ \A c, d \in Certs : Former[c] = Former[d] => c = d
BY ApplicantsAssumption DEF Former

LEMMA FormerBodyType == FormerBody \in Bodies
BY ApplicantsAssumption DEF FormerBody

LEMMA ReplayInitInv == Init => ReplayInv
<1>. SUFFICES ASSUME Init PROVE ReplayInv
  OBVIOUS
<1>1. PICK back \in SUBSET Certs :
        /\ Cardinality(back) <= LedgerCapacity
        /\ members = [i \in Ids |-> IF \E c \in back : Former[c] = i
                                    THEN [cert |-> CHOOSE c \in back : Former[c] = i,
                                          live |-> FALSE]
                                    ELSE Nobody]
        /\ ledger = [a \in Attempts |-> IF a[2] = 0 /\ a[1] \in back
                                         THEN [id |-> Former[a[1]], body |-> FormerBody]
                                         ELSE NoRecord]
  BY DEF Init
<1>2. members \in [Ids -> [cert : Certs, live : BOOLEAN] \cup {Nobody}]
  <2>1. ASSUME NEW i \in Ids, \E c \in back : Former[c] = i
        PROVE  (CHOOSE c \in back : Former[c] = i) \in Certs
    BY <2>1
  <2>. QED  BY <1>1, <2>1
<1>3. ledger \in [Attempts -> Accepted \cup {NoRecord}]
  BY <1>1, FormerType, FormerBodyType DEF Accepted
<1>4. LedgerBounded
  <2>. DEFINE f == [a \in Entries |-> a[1]]
  <2>1. \A a \in Entries : a = <<a[1], 0>> /\ a[1] \in back
    <3>. SUFFICES ASSUME NEW a \in Attempts, ledger[a] # NoRecord
                  PROVE  a = <<a[1], 0>> /\ a[1] \in back
      BY DEF Entries
    <3>1. a[2] = 0 /\ a[1] \in back
      BY <1>1
    <3>2. a = <<a[1], a[2]>>
      BY DEF Attempts
    <3>. QED  BY <3>1, <3>2
  <2>2. IsFiniteSet(back)
    BY ApplicantsAssumption, FS_Subset
  <2>3. f \in Injection(Entries, back)
    <3>1. f \in [Entries -> back]
      BY <2>1
    <3>2. \A a, b \in Entries : f[a] = f[b] => a = b
      BY <2>1
    <3>. QED  BY <3>1, <3>2 DEF Injection, IsInjective
  <2>4. IsFiniteSet(Entries) /\ Cardinality(Entries) <= Cardinality(back)
    BY <2>2, <2>3, FS_Injection
  <2>5. Cardinality(back) \in Nat /\ Cardinality(Entries) \in Nat /\ LedgerCapacity \in Nat
    BY <2>2, <2>4, FS_CardinalityType, ReplayAssumption
  <2>. QED  BY <1>1, <2>4, <2>5 DEF LedgerBounded
<1>5. IntroducerTypes
  <2>1. 0 \in 0..MaxChanges /\ tombs \in [Ids -> {NoTomb}] /\ bound \in [Sessions -> {NoId}]
    BY ReplayAssumption DEF Init
  <2>. QED  BY <1>2, <1>3, <2>1 DEF Init, IntroducerTypes
<1>6. ApplicantTypes /\ AnsweredFromLedger
  BY ReplayAssumption DEF Init, ApplicantTypes, AnsweredFromLedger
<1>. QED  BY <1>4, <1>5, <1>6 DEF ReplayInv

\* A request names an attempt the ledger has a place for.
LEMMA RequestType ==
    ASSUME NEW r \in Requests
    PROVE  /\ r.session \in Sessions /\ r.session.cert \in Certs
           /\ r.try \in 1..MaxTries /\ r.body \in Bodies
           /\ <<r.session.cert, r.try>> \in Attempts
BY ReplayAssumption DEF Requests, Sessions, Attempts

\* An answer is added for an attempt whose record it agrees with.
LEMMA AnswerAdded ==
    ASSUME ReplayInv, NEW r \in Requests, NEW i \in Ids, Answer(r, i)
    PROVE  /\ answers' \subseteq [session : Sessions, try : 1..MaxTries, id : Ids]
           /\ \A a \in answers' : \/ a \in answers
                                  \/ a.session = r.session /\ a.try = r.try /\ a.id = i
<1>. DEFINE x == [session |-> r.session, try |-> r.try, id |-> i]
<1>1. answers' = answers \cup {x}
  BY DEF Answer
<1>2. x \in [session : Sessions, try : 1..MaxTries, id : Ids]
  BY RequestType
<1>3. x.session = r.session /\ x.try = r.try /\ x.id = i
  OBVIOUS
<1>. HIDE DEF x
<1>4. answers \subseteq [session : Sessions, try : 1..MaxTries, id : Ids]
  BY DEF ReplayInv, ApplicantTypes
<1>. QED  BY <1>1, <1>2, <1>3, <1>4

\* An assignment is answered again.
LEMMA ReplayStep ==
    ASSUME ReplayInv, NEW r \in Requests, Lookup(r) # NoRecord, Replay(r, Lookup(r)),
           UNCHANGED <<tombs, locked, blocked, safe, changes, applicants, requests>>
    PROVE  ReplayInv'
<1>1. PICK x \in Accepted : x = ledger[<<r.session.cert, r.try>>] /\ x.id \in Ids
  BY RequestType DEF ReplayInv, IntroducerTypes, Lookup, Accepted
<1>2. /\ bound' = [bound EXCEPT ![r.session] = x.id] /\ Answer(r, x.id)
      /\ UNCHANGED <<members, ledger>>
  BY <1>1 DEF Replay, Lookup
<1>3. bound' \in [Sessions -> Ids \cup {NoId}]
  BY <1>1, <1>2 DEF ReplayInv, IntroducerTypes
<1>4. IntroducerTypes'
  BY <1>2, <1>3 DEF ReplayInv, IntroducerTypes
<1>5. ApplicantTypes'
  <2>1. answers' \subseteq [session : Sessions, try : 1..MaxTries, id : Ids]
    BY <1>1, <1>2, AnswerAdded
  <2>. QED  BY <2>1 DEF ReplayInv, ApplicantTypes, applicants
<1>6. LedgerBounded'
  BY <1>2 DEF ReplayInv, LedgerBounded, Entries
<1>7. AnsweredFromLedger'
  <2>1. \A a \in answers' : \/ a \in answers
                            \/ a.session = r.session /\ a.try = r.try /\ a.id = x.id
    BY <1>1, <1>2, AnswerAdded
  <2>. QED  BY <1>1, <1>2, <2>1 DEF ReplayInv, AnsweredFromLedger
<1>. QED  BY <1>4, <1>5, <1>6, <1>7 DEF ReplayInv

\* A member is inserted and its assignment recorded, under an attempt that had
\* no record.
LEMMA AdmitStep ==
    ASSUME ReplayInv, NEW r \in Requests, Lookup(r) = NoRecord, Admit(r),
           UNCHANGED <<tombs, locked, blocked, safe, changes, applicants, requests>>
    PROVE  ReplayInv'
<1>. DEFINE k == <<r.session.cert, r.try>>
<1>0. k \in Attempts /\ ledger[k] = NoRecord /\ r.session \in Sessions /\ r.session.cert \in Certs
  BY RequestType DEF Lookup
<1>1. PICK i \in Ids :
        /\ members' = [members EXCEPT ![i] = [cert |-> r.session.cert, live |-> TRUE]]
        /\ ledger' = [ledger EXCEPT ![k] = [id |-> i, body |-> r.body]]
        /\ bound' = [bound EXCEPT ![r.session] = i]
        /\ Answer(r, i)
  BY DEF Admit
<1>. HIDE DEF k
<1>2. [id |-> i, body |-> r.body] \in Accepted
  BY RequestType DEF Accepted
<1>3. ledger' \in [Attempts -> Accepted \cup {NoRecord}]
  BY <1>1, <1>2 DEF ReplayInv, IntroducerTypes
<1>4. members' \in [Ids -> [cert : Certs, live : BOOLEAN] \cup {Nobody}]
  <2>1. [cert |-> r.session.cert, live |-> TRUE] \in [cert : Certs, live : BOOLEAN]
    BY <1>0
  <2>. QED  BY <1>1, <2>1 DEF ReplayInv, IntroducerTypes
<1>5. bound' \in [Sessions -> Ids \cup {NoId}]
  BY <1>1 DEF ReplayInv, IntroducerTypes
<1>6. IntroducerTypes'
  BY <1>3, <1>4, <1>5 DEF ReplayInv, IntroducerTypes
<1>7. ApplicantTypes'
  BY <1>1, AnswerAdded DEF ReplayInv, ApplicantTypes, applicants
<1>8. /\ ledger'[k].id = i /\ ledger'[k] # NoRecord
      /\ \A a \in Attempts : a # k => ledger'[a] = ledger[a]
  BY <1>0, <1>1, <1>2, NoIdIsNone DEF ReplayInv, IntroducerTypes
<1>9. LedgerBounded'
  <2>1. Entries' = Entries \cup {k} /\ k \notin Entries
    BY <1>0, <1>8 DEF Entries
  <2>2. IsFiniteSet(Entries) /\ Cardinality(Entries) <= LedgerCapacity
    BY DEF ReplayInv, LedgerBounded
  <2>3. Cardinality(Entries) # LedgerCapacity
    BY DEF Admit, LedgerFull, Entries
  <2>4. IsFiniteSet(Entries \cup {k}) /\ Cardinality(Entries \cup {k}) = Cardinality(Entries) + 1
    BY <2>1, <2>2, FS_AddElement
  <2>5. Cardinality(Entries) \in Nat /\ LedgerCapacity \in Nat
    BY <2>2, FS_CardinalityType, ReplayAssumption
  <2>6. Cardinality(Entries \cup {k}) <= LedgerCapacity
    BY <2>2, <2>3, <2>4, <2>5
  <2>. QED  BY <2>1, <2>4, <2>6 DEF LedgerBounded
<1>10. AnsweredFromLedger'
  <2>. SUFFICES ASSUME NEW a \in answers' PROVE ledger'[<<a.session.cert, a.try>>].id = a.id
    BY DEF AnsweredFromLedger
  <2>1. CASE a \in answers
    <3>1. ledger[<<a.session.cert, a.try>>].id = a.id /\ a.id \in Ids
      BY <2>1 DEF ReplayInv, AnsweredFromLedger, ApplicantTypes
    <3>2. <<a.session.cert, a.try>> \in Attempts
      BY <2>1, ReplayAssumption DEF ReplayInv, ApplicantTypes, Sessions, Attempts
    <3>3. <<a.session.cert, a.try>> # k
      BY <1>0, <3>1, NoIdIsNone
    <3>. QED  BY <1>8, <3>1, <3>2, <3>3
  <2>2. CASE a.session = r.session /\ a.try = r.try /\ a.id = i
    BY <1>8, <2>2 DEF k
  <2>. QED  BY <1>1, <2>1, <2>2, AnswerAdded
<1>. QED  BY <1>6, <1>7, <1>9, <1>10 DEF ReplayInv


\* What happens elsewhere touches neither the ledger nor what was answered.
LEMMA ElsewhereStep ==
    ASSUME ReplayInv, Elsewhere, IntroducerTypes' PROVE ReplayInv'
<1>1. ApplicantTypes'
  BY DEF ReplayInv, ApplicantTypes, Elsewhere, applicants
<1>2. LedgerBounded' /\ AnsweredFromLedger'
  BY DEF ReplayInv, LedgerBounded, Entries, AnsweredFromLedger, Elsewhere
<1>. QED  BY <1>1, <1>2 DEF ReplayInv

LEMMA ElsewhereTypes ==
    ASSUME ReplayInv, Elsewhere
    PROVE  changes' \in 0..MaxChanges /\ UNCHANGED <<ledger, bound>>
BY ReplayAssumption DEF ReplayInv, IntroducerTypes, Elsewhere

LEMMA PolicySteps ==
    ASSUME ReplayInv,
           SetMembershipLock \/ LocalBlocklist \/ \E c \in Certs : UpdateBlocklist(c)
    PROVE  ReplayInv'
<1>1. Elsewhere
  BY DEF SetMembershipLock, LocalBlocklist, UpdateBlocklist
<1>2. /\ UNCHANGED <<members, tombs>> /\ locked' \in BOOLEAN /\ blocked' \subseteq Certs
      /\ safe' \in BOOLEAN
  BY DEF SetMembershipLock, LocalBlocklist, UpdateBlocklist, ReplayInv, IntroducerTypes
<1>3. IntroducerTypes'
  BY <1>1, <1>2, ElsewhereTypes DEF ReplayInv, IntroducerTypes
<1>. QED  BY <1>1, <1>3, ElsewhereStep

LEMMA MemberDiesStep == ASSUME ReplayInv, NEW i \in Ids, MemberDies(i) PROVE ReplayInv'
<1>1. Elsewhere /\ UNCHANGED <<tombs, locked, blocked, safe>>
  BY DEF MemberDies
<1>2. members[i] \in [cert : Certs, live : BOOLEAN]
  BY DEF MemberDies, ReplayInv, IntroducerTypes, Nobody
<1>3. [members[i] EXCEPT !.live = FALSE] \in [cert : Certs, live : BOOLEAN]
  BY <1>2
<1>4. members' = [members EXCEPT ![i] = [members[i] EXCEPT !.live = FALSE]]
  BY DEF MemberDies
<1>5. members' \in [Ids -> [cert : Certs, live : BOOLEAN] \cup {Nobody}]
  BY <1>3, <1>4 DEF ReplayInv, IntroducerTypes
<1>6. IntroducerTypes'
  BY <1>1, <1>5, ElsewhereTypes DEF ReplayInv, IntroducerTypes
<1>. QED  BY <1>1, <1>6, ElsewhereStep

LEMMA MemberRemovedStep == ASSUME ReplayInv, NEW i \in Ids, MemberRemoved(i) PROVE ReplayInv'
<1>1. Elsewhere /\ UNCHANGED <<locked, blocked, safe>>
  BY DEF MemberRemoved
<1>2. members[i].cert \in Certs
  BY DEF MemberRemoved, ReplayInv, IntroducerTypes
<1>3. [cert |-> members[i].cert, fenced |-> TRUE] \in [cert : Certs, fenced : BOOLEAN]
  BY <1>2
<1>4. tombs' \in [Ids -> [cert : Certs, fenced : BOOLEAN] \cup {NoTomb}]
  BY <1>3 DEF MemberRemoved, ReplayInv, IntroducerTypes
<1>5. members' \in [Ids -> [cert : Certs, live : BOOLEAN] \cup {Nobody}]
  BY DEF MemberRemoved, ReplayInv, IntroducerTypes
<1>6. IntroducerTypes'
  BY <1>1, <1>4, <1>5, ElsewhereTypes DEF ReplayInv, IntroducerTypes
<1>. QED  BY <1>1, <1>6, ElsewhereStep

LEMMA TombstoneClearedStep == ASSUME ReplayInv, NEW i \in Ids, TombstoneCleared(i) PROVE ReplayInv'
<1>1. Elsewhere /\ UNCHANGED <<members, locked, blocked, safe>>
  BY DEF TombstoneCleared
<1>2. tombs[i] \in [cert : Certs, fenced : BOOLEAN]
  BY DEF TombstoneCleared, ReplayInv, IntroducerTypes, NoTomb
<1>3. [tombs[i] EXCEPT !.fenced = FALSE] \in [cert : Certs, fenced : BOOLEAN]
  BY <1>2
<1>4. tombs' = [tombs EXCEPT ![i] = [tombs[i] EXCEPT !.fenced = FALSE]]
  BY DEF TombstoneCleared
<1>5. tombs' \in [Ids -> [cert : Certs, fenced : BOOLEAN] \cup {NoTomb}]
  BY <1>3, <1>4 DEF ReplayInv, IntroducerTypes
<1>6. IntroducerTypes'
  BY <1>1, <1>5, ElsewhereTypes DEF ReplayInv, IntroducerTypes
<1>. QED  BY <1>1, <1>6, ElsewhereStep

\* An applicant's own steps leave the introducer and the answers alone.
LEMMA ApplicantStep ==
    ASSUME ReplayInv, UNCHANGED <<introducer, answers>>, ApplicantTypes' PROVE ReplayInv'
BY DEF ReplayInv, introducer, IntroducerTypes, LedgerBounded, Entries, AnsweredFromLedger

\* What an applicant sends is a request.
LEMMA SendTypes ==
    ASSUME ReplayInv, NEW c \in Certs, NEW t \in 1..MaxTries, NEW line \in Lines, NEW body \in Bodies,
           Send(c, t, line, body)
    PROVE  requests' \subseteq Requests
<1>1. [session |-> Session(c, line), try |-> t, body |-> body] \in Requests
  BY DEF Requests, Session, Sessions
<1>. QED  BY <1>1 DEF Send, ReplayInv, ApplicantTypes

LEMMA BeginJoinStep ==
    ASSUME ReplayInv, NEW c \in Certs, NEW line \in Lines, NEW body \in Bodies, BeginJoin(c, line, body)
    PROVE  ReplayInv'
<1>1. tries' \in [Certs -> 0..MaxTries] /\ tries'[c] \in 1..MaxTries
  BY ReplayAssumption DEF BeginJoin, ReplayInv, ApplicantTypes
<1>2. PICK t \in 1..MaxTries : t = tries'[c]
  BY <1>1
<1>3. requests' \subseteq Requests
  BY <1>2, SendTypes DEF BeginJoin
<1>4. [try |-> t, line |-> line] \in [try : 1..MaxTries, line : Lines]
  OBVIOUS
<1>5. attempt' \in [Certs -> [try : 1..MaxTries, line : Lines] \cup {Idle}]
  BY <1>2, <1>4 DEF BeginJoin, ReplayInv, ApplicantTypes
<1>6. ApplicantTypes'
  BY <1>1, <1>3, <1>5 DEF BeginJoin, ReplayInv, ApplicantTypes
<1>. QED  BY <1>6, ApplicantStep DEF BeginJoin

LEMMA RetryStep ==
    ASSUME ReplayInv, NEW c \in Certs, NEW line \in Lines, NEW body \in Bodies, Retry(c, line, body)
    PROVE  ReplayInv'
<1>1. attempt[c] \in [try : 1..MaxTries, line : Lines]
  BY DEF Retry, ReplayInv, ApplicantTypes
<1>2. attempt[c].try \in 1..MaxTries /\ [attempt[c] EXCEPT !.line = line] \in [try : 1..MaxTries, line : Lines]
  BY <1>1
<1>3. requests' \subseteq Requests
  BY <1>2, SendTypes DEF Retry
<1>4. attempt' = [attempt EXCEPT ![c] = [attempt[c] EXCEPT !.line = line]]
  BY DEF Retry
<1>5. attempt' \in [Certs -> [try : 1..MaxTries, line : Lines] \cup {Idle}]
  BY <1>2, <1>4 DEF ReplayInv, ApplicantTypes
<1>6. ApplicantTypes'
  BY <1>3, <1>5 DEF Retry, ReplayInv, ApplicantTypes
<1>. QED  BY <1>6, ApplicantStep DEF Retry

LEMMA AbandonStep == ASSUME ReplayInv, NEW c \in Certs, Abandon(c) PROVE ReplayInv'
<1>1. ApplicantTypes'
  BY DEF Abandon, ReplayInv, ApplicantTypes
<1>. QED  BY <1>1, ApplicantStep DEF Abandon

LEMMA AdoptStep == ASSUME ReplayInv, NEW c \in Certs, NEW a \in answers, Adopt(c, a) PROVE ReplayInv'
<1>1. a.id \in Ids
  BY DEF ReplayInv, ApplicantTypes
<1>2. ApplicantTypes'
  BY <1>1 DEF Adopt, ReplayInv, ApplicantTypes
<1>. QED  BY <1>2, ApplicantStep DEF Adopt

LEMMA ReplayNextInv == ReplayInv /\ [Next]_vars => ReplayInv'
<1>. SUFFICES ASSUME ReplayInv, [Next]_vars PROVE ReplayInv'
  OBVIOUS
<1>1. ASSUME NEW r \in requests, Turn(r) PROVE ReplayInv'
  <2>1. r \in Requests
    BY DEF ReplayInv, ApplicantTypes
  <2>2. UNCHANGED <<tombs, locked, blocked, safe, changes, applicants, requests>>
    BY <1>1 DEF Turn
  <2>3. CASE Lookup(r) # NoRecord
    BY <1>1, <2>1, <2>2, <2>3, ReplayStep DEF Turn
  <2>4. CASE Lookup(r) = NoRecord
    BY <1>1, <2>1, <2>2, <2>4, AdmitStep DEF Turn
  <2>. QED  BY <2>3, <2>4
<1>2. ASSUME NEW c \in Certs, Applicant(c) PROVE ReplayInv'
  BY <1>2, BeginJoinStep, RetryStep, AbandonStep DEF Applicant
<1>3. ASSUME UNCHANGED vars PROVE ReplayInv'
  <2>1. ApplicantTypes'
    BY <1>3 DEF vars, applicants, ReplayInv, ApplicantTypes
  <2>. QED  BY <1>3, <2>1, ApplicantStep DEF vars
<1>. QED  BY <1>1, <1>2, <1>3, PolicySteps, MemberDiesStep, MemberRemovedStep, TombstoneClearedStep,
             AdoptStep DEF Next

-----------------------------------------------------------------------------
\* The introducer's and the applicants' state keeps its types and the ledger
\* never outgrows CAPACITY: a full ledger refuses the admission instead.
THEOREM ReplayTypeCorrect == Spec => []TypeOK
<1>1. ReplayInv => TypeOK
  BY DEF ReplayInv, IntroducerTypes, ApplicantTypes, LedgerBounded, Entries, Accepted, TypeOK
<1>. QED  BY ReplayInitInv, ReplayNextInv, <1>1, PTL DEF Spec

\* All acceptances of one attempt assign one ID: replay_join answers a recorded
\* attempt from the record and Ledger::commit records before the answer leaves.
THEOREM OneIdPerAttempt == Spec => []AttemptAssignsOneId
<1>1. ReplayInv => AttemptAssignsOneId
  BY DEF ReplayInv, AnsweredFromLedger, AttemptAssignsOneId
<1>. QED  BY ReplayInitInv, ReplayNextInv, <1>1, PTL DEF Spec

\* One step of AcceptancesAreStanding.
StandingStep ==
    \A a \in answers' \ answers :
       LET c == a.session.cert
       IN  members'[a.id] = [cert |-> c, live |-> TRUE] /\ c \notin blocked /\ ~Excluded(c)

LEMMA ReplayStands ==
    ASSUME ReplayInv, NEW r \in Requests, Lookup(r) # NoRecord, Replay(r, Lookup(r))
    PROVE  StandingStep
<1>1. PICK x \in Accepted : x = Lookup(r) /\ x.id \in Ids
  BY RequestType DEF ReplayInv, IntroducerTypes, Lookup, Accepted
<1>2. Answer(r, x.id) /\ ValidateMember(r.session.cert, x.id) /\ members' = members
  BY <1>1 DEF Replay
<1>3. members[x.id] = [cert |-> r.session.cert, live |-> TRUE]
  <2>1. PICK m : m = members[x.id]
    OBVIOUS
  <2>2. m \in [cert : Certs, live : BOOLEAN] \cup {Nobody} /\ m.cert = r.session.cert /\ m.live
    BY <1>1, <1>2, <2>1 DEF ValidateMember, ReplayInv, IntroducerTypes
  <2>3. m \in [cert : Certs, live : BOOLEAN]
    BY <2>2 DEF Nobody
  <2>4. m.live = TRUE
    BY <2>2, <2>3
  <2>5. m = [cert |-> m.cert, live |-> m.live]
    BY <2>3
  <2>. QED  BY <2>1, <2>2, <2>4, <2>5
<1>. SUFFICES ASSUME NEW a \in answers' \ answers
              PROVE  /\ members'[a.id] = [cert |-> a.session.cert, live |-> TRUE]
                     /\ a.session.cert \notin blocked /\ ~Excluded(a.session.cert)
  BY DEF StandingStep
<1>4. a.session = r.session /\ a.id = x.id
  BY <1>1, <1>2, AnswerAdded
<1>. QED  BY <1>2, <1>3, <1>4 DEF ValidateMember

LEMMA AdmitStands == ASSUME ReplayInv, NEW r \in Requests, Admit(r) PROVE StandingStep
<1>1. PICK i \in Ids :
        /\ members' = [members EXCEPT ![i] = [cert |-> r.session.cert, live |-> TRUE]]
        /\ Answer(r, i)
  BY DEF Admit
<1>2. members'[i] = [cert |-> r.session.cert, live |-> TRUE]
  BY <1>1 DEF ReplayInv, IntroducerTypes
<1>. SUFFICES ASSUME NEW a \in answers' \ answers
              PROVE  /\ members'[a.id] = [cert |-> a.session.cert, live |-> TRUE]
                     /\ a.session.cert \notin blocked /\ ~Excluded(a.session.cert)
  BY DEF StandingStep
<1>3. a.session = r.session /\ a.id = i
  BY <1>1, AnswerAdded
<1>. QED  BY <1>2, <1>3 DEF Admit, Gates

LEMMA StepStands == ReplayInv /\ [Next]_vars => [StandingStep]_vars
<1>. SUFFICES ASSUME ReplayInv, Next PROVE StandingStep
  OBVIOUS
<1>1. CASE UNCHANGED answers
  BY <1>1 DEF StandingStep
<1>2. ASSUME NEW r \in requests, Turn(r) PROVE StandingStep
  <2>1. r \in Requests
    BY DEF ReplayInv, ApplicantTypes
  <2>. QED  BY <1>2, <2>1, ReplayStands, AdmitStands DEF Turn
<1>3. (\E r \in requests : Turn(r)) \/ UNCHANGED answers
  BY DEF Next, SetMembershipLock, LocalBlocklist, UpdateBlocklist, MemberDies, MemberRemoved, TombstoneCleared,
         Elsewhere, Applicant, BeginJoin, Retry, Abandon, Adopt
<1>. QED  BY <1>1, <1>2, <1>3

\* Replaying resurrects nobody: whatever is answered is a live member under the
\* applicant's certificate at that moment, blocked or excluded by nothing.
THEOREM AnswersStand == Spec => AcceptancesAreStanding
<1>. QED  BY ReplayInitInv, ReplayNextInv, StepStands, PTL DEF Spec, AcceptancesAreStanding, StandingStep
=============================================================================
