----------------------------- MODULE SeqWindow -----------------------------
(***************************************************************************)
(* Replay protection of one sender's post-admission traffic.               *)
(*                                                                         *)
(* The sender stamps every outbound message, whatever its destination,     *)
(* with a saturating counter.  QUIC streams and datagrams reorder and      *)
(* duplicate those messages on their way to one receiver, which tracks     *)
(* them in a fixed-size window (`SequenceWindow`, 128 bits in the code,    *)
(* Width here) and refuses a stream-carried body whose number it has       *)
(* already seen.  The window is forgotten with the member record, which a   *)
(* cleared tombstone lets gossip bring back.                               *)
(***************************************************************************)
EXTENDS Integers, Sequences

CONSTANTS
    Width,      \* bits of SequenceWindow.seen (128 in the code)
    MaxSeq,     \* largest sequence number (u64::MAX in the code)
    MaxSends    \* bound: messages addressed to the modelled receiver

ASSUME WidthAssumption == Width \in Nat \ {0}
ASSUME MaxSeqAssumption == MaxSeq \in Nat
ASSUME MaxSendsAssumption == MaxSends \in Nat

VARIABLES
    nextSeq,    \* sender: Membership.next_seq
    wire,       \* messages sent to the receiver, in order; never removed, so any
                \* may be delivered late, again, or never
    present,    \* receiver: the sender is a member
    highest,    \* receiver: SequenceWindow.highest
    seen,       \* receiver: SequenceWindow.seen, the set of its one bits
    handled     \* history: the messages delivered to the window since the sender
                \* last became a member, with how often each was acted on

windowVars == <<nextSeq, wire, present, highest, seen, handled>>

Uids == 1..MaxSends

Messages == [seq : 0..MaxSeq, stream : BOOLEAN]

NotDelivered == -1

WindowTypeOK ==
    /\ nextSeq \in 0..MaxSeq
    /\ wire \in Seq(Messages) /\ Len(wire) <= MaxSends
    /\ present \in BOOLEAN
    /\ highest \in 0..MaxSeq
    /\ seen \subseteq 0..(Width - 1)
    /\ handled \in [Uids -> Nat \cup {NotDelivered}]

WindowInit ==
    /\ nextSeq = 0
    /\ wire = <<>>
    /\ present = TRUE
    /\ highest = 0
    /\ seen = {}
    /\ handled = [u \in Uids |-> NotDelivered]

-----------------------------------------------------------------------------
(* The window.                                                             *)

\* seen << distance, truncated to Width bits.
Shift(bits, distance) == {b \in 0..(Width - 1) : b - distance \in bits}

\* Mutant: a number that fell out of the window is taken for a new one.
Replayed_ForgetsOld(seq) == seen # {} /\ seq <= highest /\ highest - seq \in seen

\* Mutant: only numbers newer than the newest are accepted.
Replayed_HighWater(seq) == seen # {} /\ seq <= highest

\* observe's return value: TRUE when seq must be treated as a replay.
Replayed(seq) ==
    /\ seen # {}
    /\ seq <= highest
    /\ highest - seq >= Width \/ highest - seq \in seen

\* observe's effect on the window.
Observe(seq) ==
    /\ highest' = IF seen = {} \/ seq > highest THEN seq ELSE highest
    /\ seen' = IF seen = {} \/ seq >= highest + Width THEN {0}
               ELSE IF seq > highest THEN {0} \cup Shift(seen, seq - highest)
               ELSE IF highest - seq >= Width THEN seen
               ELSE seen \cup {highest - seq}

-----------------------------------------------------------------------------
(* Sender.                                                                 *)

\* next_seq saturates instead of wrapping.
NextSeq == nextSeq' = IF nextSeq = MaxSeq THEN MaxSeq ELSE nextSeq + 1

\* An outbound message to this receiver.
SendHere(stream) ==
    /\ Len(wire) < MaxSends
    /\ wire' = Append(wire, [seq |-> nextSeq, stream |-> stream])
    /\ NextSeq
    /\ UNCHANGED <<present, highest, seen, handled>>

\* An outbound message to somebody else uses up a number this receiver never sees.
SendElsewhere ==
    /\ nextSeq < MaxSeq
    /\ NextSeq
    /\ UNCHANGED <<wire, present, highest, seen, handled>>

-----------------------------------------------------------------------------
(* Receiver.                                                               *)

\* handle_peer after its authentication, formation and sender checks: the
\* number is observed first, and a replayed stream body is then dropped.
Receive(u) ==
    LET m == wire[u]
        before == IF handled[u] = NotDelivered THEN 0 ELSE handled[u]
        acted == IF m.stream /\ ~Replayed(m.seq) THEN 1 ELSE 0
    IN  /\ present
        /\ Observe(m.seq)
        /\ handled' = [handled EXCEPT ![u] = before + acted]
        /\ UNCHANGED <<nextSeq, wire, present>>

\* merge_tombstone removes the member and calls forget_sender.
ForgetSender ==
    /\ present
    /\ present' = FALSE
    /\ highest' = 0
    /\ seen' = {}
    /\ handled' = [u \in Uids |-> NotDelivered]
    /\ UNCHANGED <<nextSeq, wire>>

\* merge_member inserts a member it does not hold, which a cleared tombstone
\* allows for a removed one; its window starts empty.
Reinsert ==
    /\ ~present
    /\ present' = TRUE
    /\ UNCHANGED <<nextSeq, wire, highest, seen, handled>>

WindowNext ==
    \/ \E stream \in BOOLEAN : SendHere(stream)
    \/ SendElsewhere
    \/ \E u \in DOMAIN wire : Receive(u)
    \/ ForgetSender
    \/ Reinsert

WindowSpec == WindowInit /\ [][WindowNext]_windowVars

-----------------------------------------------------------------------------
(* Properties.                                                             *)

\* While the sender stays a member, none of its stream-carried messages is acted
\* on twice, however often and in whatever order the transport delivers it
\* (handle_peer drops a replayed PullRequest or PullReply because the exchange
\* is not idempotent).
HandledAtMostOnce == \A u \in Uids : handled[u] <= 1

\* Reordering alone never costs a message: a stream message delivered for the
\* first time, less than Width behind the newest one and with a number no
\* delivered message carries, is acted on in that very step.
ReorderedStreamsSurvive ==
    [][\A u \in DOMAIN wire :
          (/\ handled[u] = NotDelivered /\ handled'[u] # NotDelivered
           /\ wire[u].stream
           /\ wire[u].seq + Width > highest
           /\ \A o \in DOMAIN wire :
                 handled[o] # NotDelivered => wire[o].seq # wire[u].seq)
          => handled'[u] = 1]_windowVars
=============================================================================
