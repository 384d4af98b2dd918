---------------------------- MODULE AntiEntropy ----------------------------
(***************************************************************************)
(* One node reconciling with one peer: the rounds of pull requests and     *)
(* pages of replies in update.rs over the hash tree of antientropy.rs.     *)
(*                                                                         *)
(* The state reconciled is a map from leaves to versions.  Leaves are      *)
(* numbered in canonical order, by bucket and then by key, and a digest is *)
(* the map it was built from: two buckets hash alike exactly when they     *)
(* hold the same leaves.  Merging keeps the newer version unless the       *)
(* record is refused, and a tombstone takes the record it names (module    *)
(* Merge says when).  Both sides go on changing while the round runs, and  *)
(* messages may be lost, delayed and repeated.                             *)
(***************************************************************************)
EXTENDS Integers, FiniteSets

CONSTANTS
    Leaves,         \* canonical leaf positions
    BucketSize,     \* positions per bucket
    Page,           \* Limits.max_anti_entropy_entries
    MaxExchanges,   \* Limits.max_anti_entropy_rounds
    MaxLeafVersion, \* bound: versions of a leaf
    MaxRounds,      \* bound: rounds asked for
    MaxEdits        \* bound: changes of either side from elsewhere, and refusals

ASSUME LeavesAssumption == Leaves \subseteq Nat \ {0} /\ IsFiniteSet(Leaves)
ASSUME PagingAssumption ==
    /\ {BucketSize, Page, MaxExchanges, MaxLeafVersion} \subseteq Nat \ {0}
    /\ {MaxRounds, MaxEdits} \subseteq Nat

VARIABLES
    ours,       \* leaf -> version held here, 0 for none
    theirs,     \* leaf -> version the peer holds, 0 for none
    round,      \* the AntiEntropyRound in progress, or NoRound
    selections, \* peer selections asked of the shell
    asked,      \* rounds asked for so far
    corr,       \* next correlation: round numbers and timers
    armed,      \* timers armed
    requests,   \* pull requests sent
    replies,    \* pull replies sent
    edits,      \* counts towards MaxEdits
    owed        \* leaf -> the version the peer held when the round began, 0 once
                \* either side has dropped or this one refused it (history)

pullVars == <<ours, theirs, round, selections, asked, corr, armed, requests, replies, edits, owed>>

Maps == [Leaves -> 0..MaxLeafVersion]
Empty == [l \in Leaves |-> 0]
NoRound == [id |-> -1, exchanges |-> 0, timer |-> -1]

\* A cursor is the leaf to resume after; Start resumes nowhere and Done says
\* that there is nothing to resume.
Start == 0
Done == -1

PullTypeOK ==
    /\ ours \in Maps /\ theirs \in Maps /\ owed \in Maps
    /\ round \in [id : Nat, exchanges : 0..(MaxExchanges - 1), timer : Nat] \cup {NoRound}
    /\ selections \subseteq Nat /\ armed \subseteq Nat
    /\ asked \in 0..MaxRounds /\ corr \in Nat /\ edits \in 0..MaxEdits
    /\ requests \subseteq [round : Nat, digest : Maps, cursor : Leaves \cup {Start}]
    /\ replies \subseteq [round : Nat, page : Maps, cursor : Leaves \cup {Done}]

PullInit ==
    /\ theirs \in [Leaves -> 0..1]
    /\ ours \in [Leaves -> 0..1]
    /\ round = NoRound
    /\ selections = {}
    /\ asked = 0
    /\ corr = 0
    /\ armed = {}
    /\ requests = {}
    /\ replies = {}
    /\ edits = 0
    /\ owed = Empty

-----------------------------------------------------------------------------
(* The tree.                                                               *)

Bucket(l) == (l - 1) \div BucketSize

\* divergent_buckets.
Divergent(mine, digest) == {Bucket(l) : l \in {x \in Leaves : mine[x] # digest[x]}}

\* Where collect resumes: strictly after the cursor.
Resumes(l, cursor) == l > cursor

\* The leaves collect has to send.
Wanted(mine, digest, cursor) ==
    {l \in Leaves : /\ mine[l] # 0
                    /\ Bucket(l) \in Divergent(mine, digest)
                    /\ Resumes(l, cursor)}

\* The first of them that fit a page.
PageOf(W) == {l \in W : Cardinality({k \in W : k <= l}) <= Page}

Last(S) == CHOOSE l \in S : \A k \in S : k <= l

\* The cursor of the reply: complete only when the range is exhausted.
CursorAfter(W) == IF PageOf(W) = W THEN Done ELSE Last(PageOf(W))

-----------------------------------------------------------------------------
(* The pulling node.                                                       *)

\* StartAntiEntropyRound; the limit on selections is module Probe's.
StartRound ==
    /\ asked < MaxRounds
    /\ round = NoRound
    /\ asked' = asked + 1
    /\ selections' = selections \cup {corr}
    /\ corr' = corr + 1
    /\ UNCHANGED <<ours, theirs, round, armed, requests, replies, edits, owed>>

Request(id, map, cursor) ==
    requests' = requests \cup {[round |-> id, digest |-> map, cursor |-> cursor]}

\* handle_peers_selected: a round begins, over another one if two selections
\* were under way.
PeerSelected(s) ==
    /\ selections' = selections \ {s}
    /\ round' = [id |-> corr, exchanges |-> 0, timer |-> corr + 1]
    /\ corr' = corr + 2
    /\ armed' = armed \cup {corr + 1}
    /\ Request(corr, ours, Start)
    /\ owed' = theirs
    /\ UNCHANGED <<ours, theirs, asked, replies, edits>>

\* The shell found nobody.
NobodySelected(s) ==
    /\ selections' = selections \ {s}
    /\ UNCHANGED <<ours, theirs, round, asked, corr, armed, requests, replies, edits, owed>>

\* The records of a page that are newer than what is held.
News(mine, page) == {l \in Leaves : page[l] > mine[l]}

\* A page is merged.  merge refuses some of its records: those a tombstone held
\* here fences, those beyond max_members and those it disputes.  The tombstones
\* among the ones it adopts remove the members they name.
Merge(mine, page, refused, removed) ==
    [l \in Leaves |-> IF l \in removed THEN 0
                      ELSE IF l \in News(mine, page) \ refused THEN page[l]
                      ELSE mine[l]]

\* What the round is not to blame for no longer counts.
Excused(S) == [l \in Leaves |-> IF l \in S THEN 0 ELSE owed[l]]

\* Mutant: a reply is taken whatever round it answers.
Answers_Any(r) == round # NoRound

\* A reply to the round in progress.
Answers(r) == round # NoRound /\ round.id = r.round

\* Mutant: the next exchange runs without a timer.
Rearm_None(old, new) == armed \ {old}

\* The timers after a page: the old one cancelled, the next armed.
Rearm(old, new) == (armed \ {old}) \cup {new}

\* max_anti_entropy_rounds.
Spent(n) == n >= MaxExchanges

\* A page is merged whole, or with a refusal or a tombstone in it; both count
\* as changes, and the tombstone is one of the records adopted.
Takes(r, refused, removed) ==
    \/ refused = {} /\ removed = {} /\ UNCHANGED edits
    \/ /\ refused \cup removed # {} /\ edits < MaxEdits /\ edits' = edits + 1
       /\ removed # {} => News(ours, r.page) \ (refused \cup removed) # {}

\* handle_pull_reply: the page is merged, then the round ends or asks for more.
ReplyMerged(r, refused, removed) ==
    /\ Answers(r)
    /\ Takes(r, refused, removed)
    /\ ours' = Merge(ours, r.page, refused, removed)
    /\ owed' = Excused(refused \cup removed)
    /\ IF r.cursor = Done \/ Spent(round.exchanges + 1)
       THEN /\ round' = NoRound
            /\ armed' = armed \ {round.timer}
            /\ UNCHANGED <<corr, requests>>
       ELSE /\ round' = [round EXCEPT !.exchanges = @ + 1, !.timer = corr]
            /\ armed' = Rearm(round.timer, corr)
            /\ corr' = corr + 1
            /\ Request(round.id, ours', r.cursor)
    /\ UNCHANGED <<theirs, selections, asked, replies>>

PullReply(r) ==
    \E refused \in SUBSET News(ours, r.page), removed \in SUBSET {l \in Leaves : ours[l] # 0} :
       ReplyMerged(r, refused, removed)

\* handle_anti_entropy_timer; a stale timer is dropped.
Timer(t) ==
    /\ armed' = armed \ {t}
    /\ round' = IF round.timer = t THEN NoRound ELSE round
    /\ UNCHANGED <<ours, theirs, selections, asked, corr, requests, replies, edits, owed>>

\* Gossip brings a record here.
Adopts(l) ==
    /\ edits < MaxEdits
    /\ edits' = edits + 1
    /\ ours[l] < MaxLeafVersion
    /\ ours' = [ours EXCEPT ![l] = @ + 1]
    /\ UNCHANGED <<theirs, round, selections, asked, corr, armed, requests, replies, owed>>

\* A tombstone takes a record here.
Drops(l) ==
    /\ edits < MaxEdits
    /\ edits' = edits + 1
    /\ ours[l] # 0
    /\ ours' = [ours EXCEPT ![l] = 0]
    /\ owed' = Excused({l})
    /\ UNCHANGED <<theirs, round, selections, asked, corr, armed, requests, replies>>

-----------------------------------------------------------------------------
(* The peer.                                                               *)

\* handle_pull_request.
PullRequest(q) ==
    LET W == Wanted(theirs, q.digest, q.cursor)
        P == PageOf(W)
    IN  /\ replies' = replies \cup
              {[round  |-> q.round,
                page   |-> [l \in Leaves |-> IF l \in P THEN theirs[l] ELSE 0],
                cursor |-> CursorAfter(W)]}
        /\ UNCHANGED <<ours, theirs, round, selections, asked, corr, armed, requests, edits, owed>>

\* The peer learns something.
PeerAdopts(l) ==
    /\ edits < MaxEdits
    /\ edits' = edits + 1
    /\ theirs[l] < MaxLeafVersion
    /\ theirs' = [theirs EXCEPT ![l] = @ + 1]
    /\ UNCHANGED <<ours, round, selections, asked, corr, armed, requests, replies, owed>>

\* The peer drops a record; it no longer owes it.
PeerDrops(l) ==
    /\ edits < MaxEdits
    /\ edits' = edits + 1
    /\ theirs[l] # 0
    /\ theirs' = [theirs EXCEPT ![l] = 0]
    /\ owed' = Excused({l})
    /\ UNCHANGED <<ours, round, selections, asked, corr, armed, requests, replies>>

PullNext ==
    \/ StartRound
    \/ \E s \in selections : PeerSelected(s) \/ NobodySelected(s)
    \/ \E r \in replies : PullReply(r)
    \/ \E t \in armed : Timer(t)
    \/ \E q \in requests : PullRequest(q)
    \/ \E l \in Leaves : Adopts(l) \/ Drops(l) \/ PeerAdopts(l) \/ PeerDrops(l)

PullSpec == PullInit /\ [][PullNext]_pullVars

\* A round takes a number for its selection, one for itself and one per exchange.
Timers == 0..(MaxRounds * (MaxExchanges + 2))

\* The shell fires the timers it was given.
FairPullSpec == PullSpec /\ \A t \in Timers : WF_pullVars(t \in armed /\ Timer(t))

-----------------------------------------------------------------------------
(* Properties.                                                             *)

\* A round that ends complete has caught up: everything the peer held when the
\* round began is held here, at that version or a newer one, unless either side
\* dropped it or the merge refused it, whatever both learnt between two pages
\* and whichever pages came twice or late.
CompleteRoundCatchesUp ==
    [][\A r \in replies :
          r.cursor = Done /\ PullReply(r) =>
             \A l \in Leaves : ours'[l] >= owed'[l]]_pullVars

\* Every round ends, also when a second selection replaced it, a page moved it on
\* or the peer falls silent.
RoundEnds == \A n \in Timers : round.id = n ~> round.id # n
=============================================================================
