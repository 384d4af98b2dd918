------------------------- MODULE DisseminationProofs -------------------------
(***************************************************************************)
(* How records spread, for all values of the constants.                    *)
(*                                                                         *)
(* GossipQueue: the queue stays within its bound, holds nothing that has   *)
(* been replaced, and a record leaves it, other than by eviction, only     *)
(* with the transmissions the hop limit asks for and never with more.      *)
(*                                                                         *)
(* AntiEntropy: a round that ends complete has caught up with all the peer *)
(* held when the round began that was neither dropped nor refused, over    *)
(* any number of pages.                                                    *)
(***************************************************************************)
EXTENDS GossipQueue, AntiEntropy, FiniteSetTheorems, WellFoundedInduction, TLAPS

-----------------------------------------------------------------------------
(* Extremes of sets of numbers.                                            *)

LessThan == {p \in Nat \X Nat : p[1] < p[2]}

LEMMA LeastExists ==
    ASSUME NEW S, S \subseteq Nat, S # {}
    PROVE  \E x \in S : \A y \in S : x <= y
<1>1. OpToRel(<, Nat) = LessThan
  BY DEF OpToRel, LessThan
<1>2. IsWellFoundedOn(LessThan, Nat)
  BY <1>1, NatLessThanWellFounded
<1>3. \A a, b \in Nat : a < b => <<a, b>> \in LessThan
  BY DEF LessThan
<1>4. PICK x \in S : \A y \in S : ~(<<y, x>> \in LessThan)
  BY <1>2, WFMin
<1>5. ASSUME NEW y \in S PROVE x <= y
  <2>1. x \in Nat /\ y \in Nat
    OBVIOUS
  <2>2. ~(y < x)
    BY <1>3, <1>4, <2>1
  <2>. QED  BY <2>1, <2>2
<1>. QED  BY <1>5

\* By a smallest set without a maximum.
LEMMA GreatestExists ==
    ASSUME NEW S, S \subseteq Nat, S # {}, IsFiniteSet(S)
    PROVE  \E x \in S : \A y \in S : y <= x
<1>. DEFINE Max(T) == \E x \in T : \A y \in T : y <= x
            Bad(T) == T \subseteq Nat /\ T # {} /\ IsFiniteSet(T) /\ ~Max(T)
            C == {n \in Nat : \E T \in SUBSET Nat : Bad(T) /\ Cardinality(T) = n}
<1>. SUFFICES ASSUME ~Max(S) PROVE FALSE
  OBVIOUS
<1>1. C # {}
  <2>1. Cardinality(S) \in Nat
    BY FS_CardinalityType
  <2>. QED  BY <2>1
<1>2. PICK n \in C : \A k \in C : n <= k
  <2>1. C \subseteq Nat
    OBVIOUS
  <2>. HIDE DEF C
  <2>. QED  BY <1>1, <2>1, LeastExists
<1>3. PICK T \in SUBSET Nat : Bad(T) /\ Cardinality(T) = n
  OBVIOUS
<1>4. PICK x \in T : TRUE
  BY <1>3
<1>5. /\ IsFiniteSet(T \ {x}) /\ Cardinality(T \ {x}) = n - 1
      /\ n \in Nat /\ n - 1 \in Nat
  <2>1. IsFiniteSet(T \ {x}) /\ Cardinality(T \ {x}) = Cardinality(T) - 1
    BY <1>3, <1>4, FS_RemoveElement
  <2>. QED  BY <1>3, <2>1, FS_CardinalityType
<1>6. ~Bad(T \ {x})
  <2>1. ~(n <= n - 1)
    BY <1>5
  <2>2. Bad(T \ {x}) => n - 1 \in C
    BY <1>5
  <2>. QED  BY <1>2, <2>1, <2>2
<1>7. CASE T \ {x} = {}
  <2>1. T = {x} /\ x \in Nat
    BY <1>4, <1>7
  <2>2. Max(T)
    BY <2>1
  <2>. QED  BY <1>3, <2>2
<1>8. CASE T \ {x} # {}
  <2>1. Max(T \ {x})
    BY <1>3, <1>5, <1>6, <1>8
  <2>2. PICK m \in T \ {x} : \A y \in T \ {x} : y <= m
    BY <2>1
  <2>3. m \in Nat /\ x \in Nat /\ m \in T
    BY <2>2
  <2>4. CASE x <= m
    <3>1. \A y \in T : y <= m
      BY <2>2, <2>4
    <3>. QED  BY <1>3, <2>3, <3>1
  <2>5. CASE m <= x
    <3>1. ASSUME NEW y \in T PROVE y <= x
      BY <2>2, <2>3, <2>5
    <3>. QED  BY <1>3, <1>4, <3>1
  <2>. QED  BY <2>3, <2>4, <2>5
<1>. QED  BY <1>7, <1>8

Most == Top(HopLimits)

LEMMA MostIsTop == Most \in HopLimits /\ Most \in Nat \ {0} /\ \A n \in HopLimits : n <= Most
<1>1. HopLimits \subseteq Nat /\ HopLimits # {} /\ IsFiniteSet(HopLimits)
  BY QueueLimitsAssumption
<1>2. \E x \in HopLimits : \A y \in HopLimits : y <= x
  BY <1>1, GreatestExists
<1>3. Most \in HopLimits /\ \A n \in HopLimits : n <= Most
  BY <1>2 DEF Most, Top
<1>. QED  BY <1>3, QueueLimitsAssumption

-----------------------------------------------------------------------------
(* The inductive invariant.                                                *)

Entries == [ver : 1..MaxVersion, hops : 0..(Most - 1)] \cup {Free}

Types ==
    /\ held \in [Keys -> (-MaxVersion)..MaxVersion] /\ changes \in 0..MaxChanges
    /\ queue \in [Keys -> Entries]
    /\ Cardinality(Queued(queue)) <= MaxQueue
    /\ limit \in HopLimits /\ lowest \in HopLimits /\ lowest <= limit
    /\ takes \in 0..MaxTakes
    /\ sent \in [Records -> Nat]
    /\ evicted \subseteq Records /\ revived \subseteq Keys

\* What waits is the newest version there was, held or removed.
Matched == \A k \in Keys \ revived : queue[k] # Free => queue[k].ver \in {held[k], -held[k]}

\* A message has a number of its own, and carries a key at most once.
Messages ==
    /\ IsFiniteSet(sending)
    /\ \A m \in sending :
          /\ m \in [id : Nat, deltas : SUBSET Deltas] /\ m.id < takes
          /\ \A n \in sending : n.id = m.id => n = m
          /\ \A d, e \in m.deltas : d.key = e.key => d = e

\* Version v of a record, s times sent and n times on its way, evicted or not, where the
\* replica holds version h (or held -h) and the queue entry q, under the limit l, the lowest being low.
\* What waits has been charged exactly what it was transmitted; what is gone from the
\* queue has had its transmissions.
Fine(s, n, ev, h, q, l, low, v) ==
    /\ h \in (1 - v)..(v - 1) => s = 0 /\ n = 0 /\ ~ev
    /\ s + n <= Most
    /\ q.ver = v => s + n <= q.hops /\ (q.hops >= l => n = 0)
    /\ h = v /\ ~ev /\ q.ver = v => s + n >= q.hops
    /\ h = v /\ ~ev /\ q.ver # v => s + n >= low /\ (n > 0 => s + n >= l)

\* A delta of it on its way, with its hop count.  One that a lowered limit has overtaken
\* is the only one, and its record has been retired.
Charge(hops, s, n, ev, h, q, l, v) ==
    /\ hops <= l => s + n <= l
    /\ hops > l => q.ver # v /\ n = 1 /\ (h = v /\ ~ev => s + n > l)

FineAt(k, v) ==
    Fine(sent[<<k, v>>], Outstanding(<<k, v>>), <<k, v>> \in evicted, held[k], queue[k],
         limit, lowest, v)

ChargeAt(hops, k, v) ==
    Charge(hops, sent[<<k, v>>], Outstanding(<<k, v>>), <<k, v>> \in evicted, held[k],
           queue[k], limit, v)

RecordsAreFine == \A k \in Keys \ revived, v \in 1..MaxVersion : FineAt(k, v)

ChargesAreFine ==
    \A m \in sending : \A d \in m.deltas : d.key \notin revived => ChargeAt(d.hops, d.key, d.ver)

Inv == Types /\ Messages /\ Matched /\ QueueIsCurrent /\ RecordsAreFine /\ ChargesAreFine

-----------------------------------------------------------------------------
(* One record.                                                             *)

\* The ranges of what a record's state is made of.
Ranges(s, n, h, q, l, low, v) ==
    /\ s \in Nat /\ n \in Nat /\ v \in Nat \ {0} /\ h \in Int
    /\ q.ver \in Nat /\ q.hops \in Nat
    /\ l \in Nat \ {0} /\ low \in Nat \ {0} /\ low <= l /\ l <= Most

\* Its entry is evicted, or is another version's and goes.
LEMMA EntryGoes ==
    ASSUME NEW s, NEW n, NEW ev, NEW e, NEW h, NEW q, NEW l, NEW low, NEW v,
           Ranges(s, n, h, q, l, low, v), Fine(s, n, ev, h, q, l, low, v),
           q.ver # 0 => q.ver \in {h, -h},
           ev \in BOOLEAN, e \in BOOLEAN, ev => e, e /\ ~ev => q.ver = v, q.ver = v => e
    PROVE  /\ Fine(s, n, e, h, Free, l, low, v)
           /\ \A hops \in Nat :
                 Charge(hops, s, n, ev, h, q, l, v) => Charge(hops, s, n, e, h, Free, l, v)
<1>1. Free.ver = 0 /\ Free.hops = 0
  BY DEF Free
<1>2. Fine(s, n, e, h, Free, l, low, v)
  BY <1>1 DEF Fine, Ranges
<1>3. ASSUME NEW hops \in Nat, Charge(hops, s, n, ev, h, q, l, v)
      PROVE  Charge(hops, s, n, e, h, Free, l, v)
  BY <1>1, <1>3 DEF Charge, Ranges
<1>. QED  BY <1>2, <1>3

\* The replica comes to hold a newer version a of this key, which waits from now on.
LEMMA VersionComes ==
    ASSUME NEW s, NEW n, NEW ev \in BOOLEAN, NEW h, NEW q, NEW l, NEW low, NEW v,
           Ranges(s, n, h, q, l, low, v), Fine(s, n, ev, h, q, l, low, v),
           NEW a \in Nat, a > h, a > -h,
           NEW p, p.ver = a, p.hops = 0
    PROVE  /\ Fine(s, n, ev, a, p, l, low, v)
           /\ \A hops \in Nat : n > 0 /\ Charge(hops, s, n, ev, h, q, l, v) =>
                                   Charge(hops, s, n, ev, a, p, l, v)
<1>1. v >= a => s = 0 /\ n = 0 /\ ~ev
  BY DEF Fine, Ranges
<1>2. Fine(s, n, ev, a, p, l, low, v)
  BY <1>1 DEF Fine, Ranges
<1>3. ASSUME NEW hops \in Nat, n > 0, Charge(hops, s, n, ev, h, q, l, v)
      PROVE  Charge(hops, s, n, ev, a, p, l, v)
  <2>1. v < a
    BY <1>1, <1>3 DEF Ranges
  <2>. QED  BY <1>3, <2>1 DEF Charge, Ranges
<1>. QED  BY <1>2, <1>3

\* The record is removed.
LEMMA VersionGoes ==
    ASSUME NEW s, NEW n, NEW ev \in BOOLEAN, NEW h, NEW q, NEW l, NEW low, NEW v,
           Ranges(s, n, h, q, l, low, v), Fine(s, n, ev, h, q, l, low, v), h > 0,
           NEW g, g = -h
    PROVE  /\ Fine(s, n, ev, g, q, l, low, v)
           /\ \A hops \in Nat : Charge(hops, s, n, ev, h, q, l, v) =>
                                   Charge(hops, s, n, ev, g, q, l, v)
<1>1. g # v /\ (g \in (1 - v)..(v - 1) <=> h \in (1 - v)..(v - 1))
  BY DEF Ranges
<1>2. Fine(s, n, ev, g, q, l, low, v)
  BY <1>1 DEF Fine
<1>. QED  BY <1>1, <1>2 DEF Charge

\* take charges it once more: it is retired, or waits with one hop more.
LEMMA RecordCharged ==
    ASSUME NEW s, NEW n, NEW ev \in BOOLEAN, NEW h, NEW q, NEW l, NEW low, NEW v,
           Ranges(s, n, h, q, l, low, v), Fine(s, n, ev, h, q, l, low, v), q.ver = v, q.hops < Most,
           q.ver # 0 => q.ver \in {h, -h},
           NEW p, p.ver = IF q.hops + 1 >= l THEN 0 ELSE v, p.ver = v => p.hops = q.hops + 1
    PROVE  /\ Fine(s, n + 1, ev, h, p, l, low, v)
           /\ Charge(q.hops + 1, s, n + 1, ev, h, p, l, v)
           /\ \A hops \in Nat : n > 0 /\ Charge(hops, s, n, ev, h, q, l, v) =>
                                   Charge(hops, s, n + 1, ev, h, p, l, v)
<1>0. Most \in Nat
  BY MostIsTop
<1>1. Fine(s, n + 1, ev, h, p, l, low, v)
  <2>1. h \notin (1 - v)..(v - 1)
    BY DEF Ranges
  <2>. QED  BY <1>0, <2>1 DEF Fine, Ranges
<1>2. Charge(q.hops + 1, s, n + 1, ev, h, p, l, v)
  BY <1>0 DEF Fine, Ranges, Charge
<1>3. ASSUME NEW hops \in Nat, n > 0, Charge(hops, s, n, ev, h, q, l, v)
      PROVE  Charge(hops, s, n + 1, ev, h, p, l, v)
  BY <1>0, <1>3 DEF Fine, Ranges, Charge
<1>. QED  BY <1>1, <1>2, <1>3

\* A transmission that was charged is made.
LEMMA RecordSent ==
    ASSUME NEW s, NEW n, NEW ev \in BOOLEAN, NEW h, NEW q, NEW l, NEW low, NEW v,
           Ranges(s, n, h, q, l, low, v), Fine(s, n, ev, h, q, l, low, v), n > 0
    PROVE  /\ Fine(s + 1, n - 1, ev, h, q, l, low, v)
           /\ \A hops \in Nat : n - 1 > 0 /\ Charge(hops, s, n, ev, h, q, l, v) =>
                                   Charge(hops, s + 1, n - 1, ev, h, q, l, v)
<1>1. s + 1 + (n - 1) = s + n /\ n - 1 \in Nat /\ s + 1 \in Nat
  BY DEF Ranges
<1>2. Fine(s + 1, n - 1, ev, h, q, l, low, v)
  BY <1>1 DEF Fine, Ranges
<1>3. ASSUME NEW hops \in Nat, n - 1 > 0, Charge(hops, s, n, ev, h, q, l, v)
      PROVE  Charge(hops, s + 1, n - 1, ev, h, q, l, v)
  BY <1>1, <1>3 DEF Ranges, Charge
<1>. QED  BY <1>2, <1>3

\* One that was charged comes back.  It goes into the queue again, one hop cheaper
\* than it was or at the last one, when the replica still holds the record and the
\* limit does not rule it out.
LEMMA RecordDeferred ==
    ASSUME NEW s, NEW n, NEW ev \in BOOLEAN, NEW h, NEW q, NEW l, NEW low, NEW v, NEW hops \in Nat,
           Ranges(s, n, h, q, l, low, v), Fine(s, n, ev, h, q, l, low, v), n > 0,
           Charge(hops, s, n, ev, h, q, l, v),
           q.ver # 0 => q.ver \in {h, -h},
           NEW p,
           IF hops <= l /\ h = v
           THEN /\ p.ver = v
                /\ p.hops = IF q.ver = v THEN IF q.hops = 0 THEN 0 ELSE q.hops - 1 ELSE l - 1
           ELSE p = q
    PROVE  /\ Fine(s, n - 1, ev, h, p, l, low, v)
           /\ \A x \in Nat : n - 1 > 0 /\ Charge(x, s, n, ev, h, q, l, v) =>
                                Charge(x, s, n - 1, ev, h, p, l, v)
<1>0. Most \in Nat
  BY MostIsTop
<1>1. CASE hops <= l /\ h = v
  <2>1. s + n <= l /\ p.ver = v
    BY <1>1 DEF Charge
  <2>2. /\ q.ver = v => s + n <= q.hops /\ q.hops > 0 /\ q.hops < l /\ p.hops = q.hops - 1
        /\ q.ver # v => p.hops = l - 1
    BY <1>1 DEF Fine, Ranges
  <2>3. Fine(s, n - 1, ev, h, p, l, low, v)
    BY <1>0, <1>1, <2>1, <2>2 DEF Fine, Ranges
  <2>4. ASSUME NEW x \in Nat, n - 1 > 0, Charge(x, s, n, ev, h, q, l, v)
        PROVE  Charge(x, s, n - 1, ev, h, p, l, v)
    BY <2>4 DEF Ranges, Charge
  <2>. QED  BY <2>3, <2>4
<1>2. CASE ~(hops <= l /\ h = v)
  <2>1. p = q
    BY <1>2
  <2>2. Fine(s, n - 1, ev, h, p, l, low, v)
    BY <1>0, <1>2, <2>1 DEF Fine, Ranges, Charge
  <2>3. ASSUME NEW x \in Nat, n - 1 > 0, Charge(x, s, n, ev, h, q, l, v)
        PROVE  Charge(x, s, n - 1, ev, h, p, l, v)
    BY <2>1, <2>3 DEF Ranges, Charge
  <2>. QED  BY <2>2, <2>3
<1>. QED  BY <1>1, <1>2

\* The limit changes while nothing is on its way.
LEMMA LimitChanges ==
    ASSUME NEW s, NEW n, NEW ev \in BOOLEAN, NEW h, NEW q, NEW l, NEW low, NEW v,
           Ranges(s, n, h, q, l, low, v), Fine(s, n, ev, h, q, l, low, v), n = 0,
           NEW k \in Nat \ {0}, NEW b \in Nat, b <= low
    PROVE  Fine(s, n, ev, h, q, k, b, v)
<1>0. Most \in Nat
  BY MostIsTop
<1>. QED  BY <1>0 DEF Fine, Ranges

-----------------------------------------------------------------------------
(* The queue.                                                              *)

Queues == [Keys -> Entries]

LEMMA EntryFacts ==
    ASSUME NEW e \in Entries
    PROVE  /\ e.ver \in 0..MaxVersion /\ e.hops \in Nat /\ e.hops < Most
           /\ e = Free <=> e.ver = 0
           /\ e = [ver |-> e.ver, hops |-> e.hops]
<1>1. MaxVersion \in Nat /\ Most \in Nat \ {0}
  BY MostIsTop, QueueLimitsAssumption
<1>2. Free.ver = 0 /\ Free.hops = 0 /\ Free = [ver |-> Free.ver, hops |-> Free.hops]
  BY DEF Free
<1>3. CASE e = Free
  BY <1>1, <1>2, <1>3
<1>4. CASE e \in [ver : 1..MaxVersion, hops : 0..(Most - 1)]
  BY <1>1, <1>2, <1>4
<1>. QED  BY <1>3, <1>4 DEF Entries

LEMMA QueuedFinite ==
    ASSUME NEW q
    PROVE  /\ IsFiniteSet(Queued(q)) /\ Cardinality(Queued(q)) \in Nat
           /\ Queued(q) \subseteq Keys
<1>1. Queued(q) \subseteq Keys
  BY DEF Queued
<1>2. IsFiniteSet(Queued(q))
  BY <1>1, KeysAssumption, FS_Subset
<1>. QED  BY <1>1, <1>2, FS_CardinalityType

\* The most travelled of the queued exist, and one of them has the highest key.
LEMMA VictimIsQueued ==
    ASSUME NEW q \in Queues, Queued(q) # {}
    PROVE  Victim(q) \in Queued(q)
<1>. DEFINE S == Queued(q)
            H == {q[k].hops : k \in S}
            f == [k \in S |-> q[k].hops]
<1>1. IsFiniteSet(S) /\ S \subseteq Keys /\ S \subseteq Nat
  BY QueuedFinite, KeysAssumption
<1>2. \A k \in S : q[k] \in Entries
  BY <1>1 DEF Queues
<1>3. \A k \in S : q[k].hops \in Nat
  BY <1>2, EntryFacts
<1>4. H \subseteq Nat /\ H # {}
  BY <1>3
<1>5. f \in Surjection(S, H)
  BY DEF Surjection
<1>6. IsFiniteSet(H)
  <2>. HIDE DEF f, H, S
  <2>. QED  BY <1>1, <1>5, FS_Surjection
<1>7. PICK h \in H : \A y \in H : y <= h
  <2>. HIDE DEF H
  <2>. QED  BY <1>4, <1>6, GreatestExists
<1>. DEFINE K == {k \in S : q[k].hops = h}
<1>8. K \subseteq S /\ K \subseteq Nat /\ K # {}
  BY <1>1, <1>7
<1>9. IsFiniteSet(K)
  <2>. HIDE DEF K
  <2>. QED  BY <1>1, <1>8, FS_Subset
<1>10. PICK k \in K : \A y \in K : y <= k
  <2>. HIDE DEF K
  <2>. QED  BY <1>8, <1>9, GreatestExists
<1>11. k \in S /\ k \in Nat /\ q[k].hops = h /\ h \in Nat
  BY <1>4, <1>8, <1>10
<1>12. ASSUME NEW o \in S \ {k}
       PROVE  q[k].hops > q[o].hops \/ (q[k].hops = q[o].hops /\ k > o)
  <2>1. q[o].hops \in Nat /\ q[o].hops <= h /\ o \in Nat /\ o # k
    BY <1>1, <1>3, <1>7
  <2>2. q[o].hops = h => o <= k
    BY <1>10
  <2>. QED  BY <1>11, <2>1, <2>2
<1>13. \E x \in S : \A o \in S \ {x} : q[x].hops > q[o].hops \/ (q[x].hops = q[o].hops /\ x > o)
  BY <1>11, <1>12
<1>. HIDE DEF S
<1>. QED  BY <1>13 DEF Victim, S

\* There is room for a key that was not queued, and nothing but room is made.
LEMMA RoomFacts ==
    ASSUME NEW q \in Queues, NEW k \in Keys, Cardinality(Queued(q)) <= MaxQueue,
           NEW v, v = Room(q, k)
    PROVE  /\ v \in Queues /\ v[k] = q[k]
           /\ \A j \in Keys : v[j] = q[j] \/ v[j] = Free
           /\ Cardinality(Queued(v)) <= MaxQueue
           /\ q[k] = Free => Cardinality(Queued(v)) < MaxQueue
<1>1. Free \in Entries
  BY DEF Entries
<1>2. MaxQueue \in Nat \ {0} /\ Cardinality(Queued(q)) \in Nat
  BY QueuedFinite, QueueLimitsAssumption
<1>3. CASE q[k] = Free /\ Cardinality(Queued(q)) >= MaxQueue
  <2>1. v = [q EXCEPT ![Victim(q)] = Free]
    BY <1>3 DEF Room
  <2>2. Queued(q) # {}
    BY <1>2, <1>3, FS_EmptySet
  <2>3. Victim(q) \in Queued(q) /\ Victim(q) \in Keys
    BY <2>2, VictimIsQueued, QueuedFinite
  <2>4. v \in Queues /\ \A j \in Keys : v[j] = IF j = Victim(q) THEN Free ELSE q[j]
    BY <1>1, <2>1, <2>3 DEF Queues
  <2>5. Queued(v) = Queued(q) \ {Victim(q)}
    BY <2>3, <2>4 DEF Queued
  <2>6. Cardinality(Queued(v)) = Cardinality(Queued(q)) - 1
    BY <2>3, <2>5, QueuedFinite, FS_RemoveElement
  <2>. QED  BY <1>2, <1>3, <2>4, <2>6
<1>4. CASE ~(q[k] = Free /\ Cardinality(Queued(q)) >= MaxQueue)
  <2>1. v = q
    BY <1>4 DEF Room
  <2>. QED  BY <1>2, <1>4, <2>1
<1>. QED  BY <1>3, <1>4

LEMMA EnqueueFacts ==
    ASSUME NEW q \in Queues, NEW k \in Keys, NEW ver \in 1..MaxVersion,
           Cardinality(Queued(q)) <= MaxQueue,
           NEW e, e = Enqueue(q, k, ver)
    PROVE  /\ e \in Queues /\ Cardinality(Queued(e)) <= MaxQueue
           /\ \A j \in Keys \ {k} : e[j] = q[j] \/ e[j] = Free
           /\ e[k] = IF q[k] # Free /\ q[k].ver >= ver THEN q[k] ELSE [ver |-> ver, hops |-> 0]
<1>1. CASE q[k] # Free /\ q[k].ver >= ver
  BY <1>1 DEF Enqueue
<1>2. CASE ~(q[k] # Free /\ q[k].ver >= ver)
  <2>. DEFINE x == [ver |-> ver, hops |-> 0]
  <2>1. PICK r : r = Room(q, k)
    OBVIOUS
  <2>2. /\ r \in Queues /\ r[k] = q[k]
        /\ \A j \in Keys : r[j] = q[j] \/ r[j] = Free
        /\ Cardinality(Queued(r)) <= MaxQueue
        /\ q[k] = Free => Cardinality(Queued(r)) < MaxQueue
    BY <2>1, RoomFacts
  <2>3. x \in Entries /\ x # Free
    BY MostIsTop DEF Entries, Free
  <2>4. e = [r EXCEPT ![k] = x]
    BY <1>2, <2>1 DEF Enqueue
  <2>. HIDE DEF x
  <2>5. e \in Queues /\ e[k] = x /\ \A j \in Keys \ {k} : e[j] = r[j]
    BY <2>2, <2>3, <2>4 DEF Queues
  <2>6. Queued(e) = Queued(r) \cup {k}
    BY <2>3, <2>5 DEF Queued
  <2>7. k \in Queued(r) <=> q[k] # Free
    BY <2>2 DEF Queued
  <2>8. Cardinality(Queued(e)) = IF k \in Queued(r) THEN Cardinality(Queued(r)) ELSE Cardinality(Queued(r)) + 1
    BY <2>6, QueuedFinite, FS_AddElement
  <2>9. Cardinality(Queued(e)) <= MaxQueue
    BY <2>2, <2>7, <2>8, QueuedFinite, QueueLimitsAssumption
  <2>. QED  BY <1>2, <2>2, <2>5, <2>9 DEF x
<1>. QED  BY <1>1, <1>2

LEMMA DeferFacts ==
    ASSUME NEW q \in Queues, NEW d \in Deltas, NEW max \in HopLimits,
           Cardinality(Queued(q)) <= MaxQueue, q[d.key] # Free => q[d.key].ver >= d.ver,
           NEW p, p = Defer(q, d, max)
    PROVE  /\ p \in Queues /\ Cardinality(Queued(p)) <= MaxQueue
           /\ \A j \in Keys \ {d.key} : p[j] = q[j] \/ p[j] = Free
           /\ p[d.key].ver = IF q[d.key] = Free THEN d.ver ELSE q[d.key].ver
           /\ p[d.key].hops = IF q[d.key].ver = d.ver
                              THEN IF q[d.key].hops = 0 THEN 0 ELSE q[d.key].hops - 1
                              ELSE max - 1
<1>1. d.key \in Keys /\ d.ver \in 1..MaxVersion /\ MaxVersion \in Nat
  BY QueueLimitsAssumption DEF Deltas
<1>2. PICK k : k = d.key
  OBVIOUS
<1>3. PICK e : e = Enqueue(q, k, d.ver)
  OBVIOUS
<1>4. /\ e \in Queues /\ Cardinality(Queued(e)) <= MaxQueue
      /\ \A j \in Keys \ {k} : e[j] = q[j] \/ e[j] = Free
      /\ e[k] = IF q[k] # Free /\ q[k].ver >= d.ver THEN q[k] ELSE [ver |-> d.ver, hops |-> 0]
  BY <1>1, <1>2, <1>3, EnqueueFacts
<1>5. q[k] \in Entries /\ e[k] \in Entries
  BY <1>1, <1>2, <1>4 DEF Queues
<1>6. max \in Nat \ {0} /\ max <= Most /\ Most \in Nat
  BY MostIsTop, QueueLimitsAssumption
<1>7. /\ q[k].ver \in 0..MaxVersion /\ q[k].hops \in Nat /\ q[k].hops < Most
      /\ q[k] = Free <=> q[k].ver = 0
  BY <1>5, EntryFacts
<1>8. e[k].ver = (IF q[k] = Free THEN d.ver ELSE q[k].ver) /\ e[k].ver # 0
  BY <1>1, <1>2, <1>4, <1>7
<1>9. PICK c : c = Charged(q, d, max)
  OBVIOUS
<1>10. /\ c = IF q[k].ver = d.ver THEN IF q[k].hops = 0 THEN 0 ELSE q[k].hops - 1 ELSE max - 1
       /\ c \in 0..(Most - 1)
  BY <1>2, <1>6, <1>7, <1>9 DEF Charged
<1>11. p = [e EXCEPT ![k].hops = c]
  BY <1>2, <1>3, <1>9 DEF Defer
<1>12. /\ p[k] = [e[k] EXCEPT !.hops = c]
       /\ \A j \in Keys \ {k} : p[j] = e[j]
       /\ DOMAIN p = Keys /\ p = [j \in Keys |-> p[j]]
  BY <1>1, <1>2, <1>4, <1>11 DEF Queues
<1>13. e[k] \in [ver : 1..MaxVersion, hops : 0..(Most - 1)]
  <2>1. e[k] # Free
    BY <1>1, <1>5, <1>8, EntryFacts
  <2>. QED  BY <1>5, <2>1 DEF Entries
<1>14. /\ p[k] \in [ver : 1..MaxVersion, hops : 0..(Most - 1)]
       /\ p[k].ver = e[k].ver /\ p[k].hops = c
  BY <1>8, <1>10, <1>12, <1>13
<1>15. p \in Queues
  <2>1. \A j \in Keys : p[j] \in Entries
    BY <1>4, <1>12, <1>14 DEF Entries, Queues
  <2>. QED  BY <1>12, <2>1 DEF Queues
<1>16. Queued(p) = Queued(e)
  <2>1. p[k] # Free /\ e[k] # Free
    BY <1>13, <1>14 DEF Free
  <2>. QED  BY <1>12, <2>1 DEF Queued
<1>. QED  BY <1>2, <1>4, <1>8, <1>10, <1>12, <1>14, <1>15, <1>16

LEMMA TakenFacts ==
    ASSUME NEW q \in Queues, NEW max \in HopLimits, Cardinality(Queued(q)) <= MaxQueue,
           NEW t, t = Taken(q, max)
    PROVE  /\ t \in Queues /\ Cardinality(Queued(t)) <= MaxQueue
           /\ \A k \in Keys \ Chosen(q) : t[k] = q[k]
           /\ \A k \in Chosen(q) :
                 /\ k \in Keys /\ q[k] # Free
                 /\ t[k].ver = IF q[k].hops + 1 >= max THEN 0 ELSE q[k].ver
                 /\ t[k].ver = q[k].ver => t[k].hops = q[k].hops + 1
<1>1. Chosen(q) \subseteq Keys /\ \A k \in Chosen(q) : q[k] # Free
  BY DEF Chosen, Queued
<1>2. max \in Nat \ {0} /\ max <= Most /\ Most \in Nat
  BY MostIsTop, QueueLimitsAssumption
<1>3. \A k \in Keys : t[k] = IF k \notin Chosen(q) THEN q[k]
                             ELSE IF q[k].hops + 1 >= max THEN Free
                             ELSE [q[k] EXCEPT !.hops = @ + 1]
  BY DEF Taken, Retires
<1>4. ASSUME NEW k \in Chosen(q)
      PROVE  /\ t[k] \in Entries
             /\ t[k].ver = IF q[k].hops + 1 >= max THEN 0 ELSE q[k].ver
             /\ t[k].ver = q[k].ver => t[k].hops = q[k].hops + 1
  <2>1. k \in Keys /\ q[k] \in Entries /\ q[k] # Free
    BY <1>1 DEF Queues
  <2>2. /\ q[k].ver \in 0..MaxVersion /\ q[k].hops \in Nat /\ q[k].hops < Most
        /\ q[k] = Free <=> q[k].ver = 0
        /\ q[k] \in [ver : 1..MaxVersion, hops : 0..(Most - 1)]
    BY <2>1, EntryFacts DEF Entries
  <2>3. CASE q[k].hops + 1 >= max
    <3>1. t[k] = Free
      BY <1>3, <2>1, <2>3
    <3>2. Free.ver = 0 /\ Free \in Entries
      BY DEF Free, Entries
    <3>. QED  BY <2>1, <2>2, <2>3, <3>1, <3>2
  <2>4. CASE ~(q[k].hops + 1 >= max)
    <3>1. t[k] = [q[k] EXCEPT !.hops = @ + 1]
      BY <1>3, <2>1, <2>4
    <3>2. PICK c : c = q[k].hops + 1
      OBVIOUS
    <3>3. c \in 0..(Most - 1)
      BY <1>2, <2>2, <2>4, <3>2
    <3>4. t[k] = [q[k] EXCEPT !.hops = c]
      BY <3>1, <3>2
    <3>5. /\ t[k] \in [ver : 1..MaxVersion, hops : 0..(Most - 1)]
          /\ t[k].ver = q[k].ver /\ t[k].hops = c
      BY <2>2, <3>3, <3>4
    <3>. QED  BY <2>4, <3>2, <3>5 DEF Entries
  <2>. QED  BY <2>3, <2>4
<1>5. t \in Queues
  <2>1. \A k \in Keys : t[k] \in Entries
    BY <1>3, <1>4 DEF Queues
  <2>2. t = [k \in Keys |-> t[k]]
    BY DEF Taken
  <2>. QED  BY <2>1, <2>2 DEF Queues
<1>6. Queued(t) \subseteq Queued(q)
  BY <1>1, <1>3 DEF Queued
<1>7. Cardinality(Queued(t)) <= MaxQueue
  <2>1. Cardinality(Queued(t)) <= Cardinality(Queued(q))
    BY <1>6, QueuedFinite, FS_Subset
  <2>. QED  BY <2>1, QueuedFinite, QueueLimitsAssumption
<1>. QED  BY <1>1, <1>3, <1>4, <1>5, <1>7

-----------------------------------------------------------------------------
(* Messages on their way.                                                  *)

On(S, r) == {m \in S : Carries(m.deltas, r)}

LEMMA CountFacts ==
    ASSUME NEW S, NEW r, IsFiniteSet(S)
    PROVE  /\ IsFiniteSet(On(S, r)) /\ Cardinality(On(S, r)) \in Nat
           /\ \A m \in S : Carries(m.deltas, r) => Cardinality(On(S, r)) > 0
           /\ S = {} => Cardinality(On(S, r)) = 0
<1>1. On(S, r) \subseteq S
  BY DEF On
<1>2. IsFiniteSet(On(S, r))
  BY <1>1, FS_Subset
<1>3. Cardinality(On(S, r)) \in Nat
  BY <1>2, FS_CardinalityType
<1>4. ASSUME NEW m \in S, Carries(m.deltas, r) PROVE Cardinality(On(S, r)) > 0
  <2>1. On(S, r) # {}
    BY <1>4 DEF On
  <2>2. Cardinality(On(S, r)) # 0
    BY <1>2, <2>1, FS_EmptySet
  <2>. QED  BY <1>3, <2>2
<1>5. ASSUME S = {} PROVE Cardinality(On(S, r)) = 0
  BY <1>1, <1>5, FS_EmptySet
<1>. QED  BY <1>2, <1>3, <1>4, <1>5

LEMMA MessageAdded ==
    ASSUME NEW S, NEW r, IsFiniteSet(S), NEW x, x \notin S, NEW T, T = S \cup {x}
    PROVE  /\ IsFiniteSet(T)
           /\ Carries(x.deltas, r) => Cardinality(On(T, r)) = Cardinality(On(S, r)) + 1
           /\ ~Carries(x.deltas, r) => Cardinality(On(T, r)) = Cardinality(On(S, r))
<1>1. IsFiniteSet(T)
  BY FS_AddElement
<1>2. CASE Carries(x.deltas, r)
  <2>1. On(T, r) = On(S, r) \cup {x} /\ x \notin On(S, r)
    BY <1>2 DEF On
  <2>. QED  BY <1>1, <1>2, <2>1, CountFacts, FS_AddElement
<1>3. CASE ~Carries(x.deltas, r)
  <2>1. On(T, r) = On(S, r)
    BY <1>3 DEF On
  <2>. QED  BY <1>1, <1>3, <2>1
<1>. QED  BY <1>2, <1>3

LEMMA MessageDropped ==
    ASSUME NEW S, NEW r, IsFiniteSet(S), NEW x \in S, NEW T, T = S \ {x}
    PROVE  /\ IsFiniteSet(T)
           /\ Carries(x.deltas, r) => Cardinality(On(T, r)) = Cardinality(On(S, r)) - 1
           /\ ~Carries(x.deltas, r) => Cardinality(On(T, r)) = Cardinality(On(S, r))
<1>1. IsFiniteSet(T)
  BY FS_RemoveElement
<1>2. CASE Carries(x.deltas, r)
  <2>1. On(T, r) = On(S, r) \ {x} /\ x \in On(S, r)
    BY <1>2 DEF On
  <2>. QED  BY <1>1, <1>2, <2>1, CountFacts, FS_RemoveElement
<1>3. CASE ~Carries(x.deltas, r)
  <2>1. On(T, r) = On(S, r)
    BY <1>3 DEF On
  <2>. QED  BY <1>1, <1>3, <2>1
<1>. QED  BY <1>2, <1>3

\* A message loses one delta, the only one of its key.
LEMMA MessageTrimmed ==
    ASSUME NEW S, NEW r, IsFiniteSet(S), NEW m \in S, m \in [id : Nat, deltas : SUBSET Deltas],
           \A n \in S : n.id = m.id => n = m,
           NEW d \in m.deltas, \A e \in m.deltas : e.key = d.key => e = d,
           NEW T, T = (S \ {m}) \cup Trimmed(m, d)
    PROVE  /\ IsFiniteSet(T)
           /\ r = <<d.key, d.ver>> => Cardinality(On(T, r)) = Cardinality(On(S, r)) - 1
           /\ r # <<d.key, d.ver>> => Cardinality(On(T, r)) = Cardinality(On(S, r))
<1>1. PICK R : R = S \ {m}
  OBVIOUS
<1>2. /\ IsFiniteSet(R)
      /\ Carries(m.deltas, r) => Cardinality(On(R, r)) = Cardinality(On(S, r)) - 1
      /\ ~Carries(m.deltas, r) => Cardinality(On(R, r)) = Cardinality(On(S, r))
  BY <1>1, MessageDropped
<1>3. r = <<d.key, d.ver>> => Carries(m.deltas, r) /\ ~Carries(m.deltas \ {d}, r)
  BY DEF Carries
<1>4. r # <<d.key, d.ver>> => (Carries(m.deltas, r) <=> Carries(m.deltas \ {d}, r))
  BY DEF Carries
<1>5. Cardinality(On(S, r)) \in Nat /\ Cardinality(On(R, r)) \in Nat
  BY <1>2, CountFacts
<1>6. CASE m.deltas = {d}
  <2>1. T = R
    BY <1>1, <1>6 DEF Trimmed
  <2>2. ~Carries(m.deltas \ {d}, r)
    BY <1>6 DEF Carries
  <2>. QED  BY <1>2, <1>3, <1>4, <2>1, <2>2
<1>7. CASE m.deltas # {d}
  <2>1. PICK x : x = [m EXCEPT !.deltas = @ \ {d}]
    OBVIOUS
  <2>2. T = R \cup {x}
    BY <1>1, <1>7, <2>1 DEF Trimmed
  <2>3. x.id = m.id /\ x.deltas = m.deltas \ {d}
    BY <2>1
  <2>4. x \notin R
    BY <1>1, <2>3
  <2>5. /\ IsFiniteSet(T)
        /\ Carries(x.deltas, r) => Cardinality(On(T, r)) = Cardinality(On(R, r)) + 1
        /\ ~Carries(x.deltas, r) => Cardinality(On(T, r)) = Cardinality(On(R, r))
    BY <1>2, <2>2, <2>4, MessageAdded
  <2>. QED  BY <1>2, <1>3, <1>4, <1>5, <2>3, <2>5
<1>. QED  BY <1>6, <1>7

-----------------------------------------------------------------------------
(* One record across a step.                                               *)

\* The record stays fine, and with it what is on its way before and after.
Keeps(k, v) ==
    /\ FineAt(k, v)'
    /\ \A hops \in Nat :
          /\ Outstanding(<<k, v>>) > 0 /\ Outstanding(<<k, v>>)' > 0
          /\ ChargeAt(hops, k, v)
          => ChargeAt(hops, k, v)'

LEMMA CountIsOutstanding ==
    ASSUME NEW r
    PROVE  /\ Outstanding(r) = Cardinality(On(sending, r))
           /\ Outstanding(r)' = Cardinality(On(sending', r))
BY DEF Outstanding, On

\* What the lemmas about one record ask of it.
LEMMA RangesHold ==
    ASSUME Inv, NEW k \in Keys, NEW v \in 1..MaxVersion
    PROVE  /\ Ranges(sent[<<k, v>>], Outstanding(<<k, v>>), held[k], queue[k], limit, lowest, v)
           /\ k \notin revived /\ queue[k].ver # 0 => queue[k].ver \in {held[k], -held[k]}
           /\ queue[k] \in Entries
<1>1. limit \in Nat \ {0} /\ lowest \in Nat \ {0} /\ lowest <= limit /\ limit <= Most /\ Most \in Nat
  BY MostIsTop, QueueLimitsAssumption DEF Inv, Types
<1>2. v \in Nat \ {0} /\ MaxVersion \in Nat
  BY QueueLimitsAssumption
<1>3. sent[<<k, v>>] \in Nat
  BY DEF Inv, Types, Records
<1>4. Outstanding(<<k, v>>) \in Nat
  BY CountFacts, CountIsOutstanding DEF Inv, Messages
<1>5. held[k] \in Int
  BY <1>2 DEF Inv, Types
<1>6. queue[k] \in Entries
  BY DEF Inv, Types
<1>7. queue[k].ver \in Nat /\ queue[k].hops \in Nat /\ (queue[k].ver # 0 => queue[k] # Free)
  BY <1>2, <1>6, EntryFacts
<1>8. k \notin revived /\ queue[k].ver # 0 => queue[k].ver \in {held[k], -held[k]}
  BY <1>7 DEF Inv, Matched
<1>. QED  BY <1>1, <1>2, <1>3, <1>4, <1>5, <1>6, <1>7, <1>8 DEF Ranges

\* What is on its way after the step was before.
LEMMA DeltasKeep ==
    ASSUME Inv, Messages', revived \subseteq revived',
           \A k \in Keys \ revived', v \in 1..MaxVersion : Keeps(k, v),
           NEW m \in sending', NEW d \in m.deltas, d.key \notin revived',
           NEW n \in sending, d \in n.deltas
    PROVE  ChargeAt(d.hops, d.key, d.ver)'
<1>1. d \in Deltas
  BY DEF Inv, Messages
<1>2. d.key \in Keys /\ d.ver \in 1..MaxVersion /\ d.hops \in Nat
  BY <1>1 DEF Deltas
<1>3. Carries(m.deltas, <<d.key, d.ver>>) /\ Carries(n.deltas, <<d.key, d.ver>>)
  BY DEF Carries
<1>4. Outstanding(<<d.key, d.ver>>) > 0
  BY <1>3, CountIsOutstanding, CountFacts DEF Inv, Messages
<1>5. Outstanding(<<d.key, d.ver>>)' > 0
  <2>1. IsFiniteSet(sending')
    BY DEF Messages
  <2>. QED  BY <1>3, <2>1, CountIsOutstanding, CountFacts
<1>6. ChargeAt(d.hops, d.key, d.ver)
  BY DEF Inv, ChargesAreFine
<1>7. Keeps(d.key, d.ver)
  BY <1>2
<1>. QED  BY <1>2, <1>4, <1>5, <1>6, <1>7 DEF Keeps

LEMMA AllKeep ==
    ASSUME Inv, Messages', revived \subseteq revived',
           \A k \in Keys \ revived', v \in 1..MaxVersion : Keeps(k, v),
           \A m \in sending' : \A d \in m.deltas : \E n \in sending : d \in n.deltas
    PROVE  RecordsAreFine' /\ ChargesAreFine'
<1>1. RecordsAreFine'
  BY DEF RecordsAreFine, Keeps
<1>2. ASSUME NEW m \in sending', NEW d \in m.deltas, d.key \notin revived'
      PROVE  ChargeAt(d.hops, d.key, d.ver)'
  <2>1. PICK n \in sending : d \in n.deltas
    OBVIOUS
  <2>. QED  BY <1>2, <2>1, DeltasKeep
<1>3. ChargesAreFine'
  BY <1>2 DEF ChargesAreFine
<1>. QED  BY <1>1, <1>3

LEMMA PushedOutFacts ==
    ASSUME NEW q, NEW j \in Keys, NEW w
    PROVE  <<j, w>> \in PushedOut(q) <=> queue[j] # Free /\ q[j] = Free /\ w = queue[j].ver
BY DEF PushedOut, Queued

LEMMA PushedOutTypes ==
    ASSUME Inv, NEW q
    PROVE  PushedOut(q) \subseteq Records
<1>1. ASSUME NEW r \in PushedOut(q) PROVE r \in Records
  <2>1. PICK j \in Keys : queue[j] # Free /\ r = <<j, queue[j].ver>>
    BY DEF PushedOut, Queued
  <2>2. queue[j] \in Entries /\ MaxVersion \in Nat
    BY QueueLimitsAssumption DEF Inv, Types
  <2>3. queue[j].ver \in 1..MaxVersion
    BY <2>1, <2>2, EntryFacts
  <2>. QED  BY <2>1, <2>3 DEF Records
<1>. QED  BY <1>1

\* Nothing happens to a record.
LEMMA Untouched ==
    ASSUME Inv, NEW k \in Keys \ revived, NEW v \in 1..MaxVersion,
           sent'[<<k, v>>] = sent[<<k, v>>], Outstanding(<<k, v>>)' = Outstanding(<<k, v>>),
           <<k, v>> \in evicted' <=> <<k, v>> \in evicted, held'[k] = held[k],
           queue'[k] = queue[k] \/ (queue'[k].ver # v /\ queue[k].ver # v),
           limit' = limit, lowest' = lowest
    PROVE  Keeps(k, v)
<1>1. Ranges(sent[<<k, v>>], Outstanding(<<k, v>>), held[k], queue[k], limit, lowest, v)
  BY RangesHold
<1>2. FineAt(k, v)
  BY DEF Inv, RecordsAreFine
<1>3. FineAt(k, v)'
  BY <1>2 DEF FineAt, Fine
<1>4. ASSUME NEW hops \in Nat, ChargeAt(hops, k, v) PROVE ChargeAt(hops, k, v)'
  BY <1>4 DEF ChargeAt, Charge
<1>. QED  BY <1>3, <1>4 DEF Keeps

\* A record of a key whose entry stays, or is pushed out for another.
LEMMA BystanderKeeps ==
    ASSUME Inv, NEW j \in Keys \ revived, NEW w \in 1..MaxVersion,
           sent' = sent, Outstanding(<<j, w>>)' = Outstanding(<<j, w>>), held'[j] = held[j],
           limit' = limit, lowest' = lowest,
           queue'[j] = queue[j] \/ queue'[j] = Free,
           evicted' = evicted \cup PushedOut(queue')
    PROVE  Keeps(j, w)
<1>1. /\ Ranges(sent[<<j, w>>], Outstanding(<<j, w>>), held[j], queue[j], limit, lowest, w)
      /\ queue[j].ver # 0 => queue[j].ver \in {held[j], -held[j]}
      /\ queue[j] \in Entries
  BY RangesHold
<1>2. <<j, w>> \in PushedOut(queue') <=> queue[j] # Free /\ queue'[j] = Free /\ w = queue[j].ver
  BY PushedOutFacts
<1>3. Fine(sent[<<j, w>>], Outstanding(<<j, w>>), <<j, w>> \in evicted, held[j], queue[j],
           limit, lowest, w)
  BY DEF Inv, RecordsAreFine, FineAt
<1>4. CASE queue'[j] = queue[j]
  BY <1>2, <1>4, Untouched
<1>5. CASE queue'[j] = Free /\ queue[j] # Free
  <2>1. PICK ev : ev = (<<j, w>> \in evicted)
    OBVIOUS
  <2>2. PICK e : e = (<<j, w>> \in evicted')
    OBVIOUS
  <2>. ev \in BOOLEAN /\ e \in BOOLEAN
    BY <2>1, <2>2
  <2>3. (ev => e) /\ (e /\ ~ev => queue[j].ver = w) /\ (queue[j].ver = w => e)
    BY <1>2, <1>5, <2>1, <2>2
  <2>4. Fine(sent[<<j, w>>], Outstanding(<<j, w>>), ev, held[j], queue[j], limit, lowest, w)
    BY <1>3, <2>1
  <2>5. /\ Fine(sent[<<j, w>>], Outstanding(<<j, w>>), e, held[j], Free, limit, lowest, w)
        /\ \A hops \in Nat :
              Charge(hops, sent[<<j, w>>], Outstanding(<<j, w>>), ev, held[j], queue[j], limit, w) =>
              Charge(hops, sent[<<j, w>>], Outstanding(<<j, w>>), e, held[j], Free, limit, w)
    BY <1>1, <2>3, <2>4, EntryGoes
  <2>6. FineAt(j, w)'
    BY <1>5, <2>2, <2>5 DEF FineAt
  <2>7. ASSUME NEW hops \in Nat, ChargeAt(hops, j, w) PROVE ChargeAt(hops, j, w)'
    <3>1. Charge(hops, sent[<<j, w>>], Outstanding(<<j, w>>), ev, held[j], queue[j], limit, w)
      BY <2>1, <2>7 DEF ChargeAt
    <3>2. Charge(hops, sent[<<j, w>>], Outstanding(<<j, w>>), e, held[j], Free, limit, w)
      BY <2>5, <3>1
    <3>. QED  BY <1>5, <2>2, <3>2 DEF ChargeAt
  <2>. QED  BY <2>6, <2>7 DEF Keeps
<1>. QED  BY <1>4, <1>5

-----------------------------------------------------------------------------
(* The steps.                                                              *)

LEMMA InitHolds == Init => Inv
<1>. SUFFICES ASSUME Init PROVE Inv
  OBVIOUS
<1>1. {MaxVersion, MaxChanges, MaxTakes} \subseteq Nat /\ MaxQueue \in Nat
  BY QueueLimitsAssumption
<1>2. HopLimits \subseteq Nat
  BY QueueLimitsAssumption
<1>3. Queued(queue) = {} /\ queue \in [Keys -> Entries]
  BY DEF Init, Queued, Entries
<1>4. Types
  BY <1>1, <1>2, <1>3, FS_EmptySet DEF Init, Types
<1>5. Messages /\ ChargesAreFine /\ QueueIsCurrent /\ Matched
  BY FS_EmptySet DEF Init, Messages, ChargesAreFine, QueueIsCurrent, Matched
<1>6. ASSUME NEW k \in Keys, NEW v \in 1..MaxVersion PROVE FineAt(k, v)
  <2>1. Outstanding(<<k, v>>) = 0
    BY CountIsOutstanding, CountFacts, FS_EmptySet DEF Init
  <2>2. sent[<<k, v>>] = 0 /\ <<k, v>> \notin evicted /\ held[k] = 0 /\ queue[k] = Free
    BY DEF Init, Records
  <2>3. Free.ver = 0 /\ Most \in Nat
    BY MostIsTop DEF Free
  <2>. QED  BY <2>1, <2>2, <2>3 DEF FineAt, Fine
<1>. QED  BY <1>4, <1>5, <1>6 DEF Inv, RecordsAreFine

\* Version a of a record comes to be held, by a change of it or by its return.
LEMMA ComesHolds ==
    ASSUME Inv, NEW k \in Keys, NEW a \in 1..MaxVersion, Change,
           held' = [held EXCEPT ![k] = a], queue' = Enqueue(queue, k, a),
           evicted' = evicted \cup PushedOut(queue'),
           UNCHANGED <<limit, sending, takes, sent, lowest>>,
           revived \subseteq revived', revived' \subseteq revived \cup {k},
           k \notin revived' => a > held[k] /\ a > -held[k]
    PROVE  Inv'
<1>1. MaxVersion \in Nat /\ MaxChanges \in Nat /\ a \in Nat \ {0} /\ held[k] \in Int
  BY QueueLimitsAssumption DEF Inv, Types
<1>2. revived' \subseteq Keys
  BY DEF Inv, Types
<1>3. /\ held' \in [Keys -> (-MaxVersion)..MaxVersion] /\ held'[k] = a
      /\ \A j \in Keys \ {k} : held'[j] = held[j]
  BY <1>1 DEF Inv, Types
<1>5. queue \in Queues /\ Cardinality(Queued(queue)) <= MaxQueue
  BY DEF Inv, Types, Queues
<1>6. /\ queue' \in Queues /\ Cardinality(Queued(queue')) <= MaxQueue
      /\ \A j \in Keys \ {k} : queue'[j] = queue[j] \/ queue'[j] = Free
      /\ queue'[k] = IF queue[k] # Free /\ queue[k].ver >= a THEN queue[k] ELSE [ver |-> a, hops |-> 0]
  BY <1>5, EnqueueFacts
<1>7. /\ queue'[k] # Free /\ queue'[k].ver >= a
      /\ k \notin revived' => queue'[k] = [ver |-> a, hops |-> 0]
  <2>1. queue[k] \in Entries /\ queue'[k] \in Entries
    BY <1>5, <1>6 DEF Queues
  <2>2. queue[k].ver \in Nat /\ (queue'[k] = Free <=> queue'[k].ver = 0)
    BY <2>1, EntryFacts
  <2>3. queue'[k].ver >= a
    BY <1>1, <1>6, <2>2
  <2>4. ASSUME k \notin revived' PROVE queue'[k] = [ver |-> a, hops |-> 0]
    <3>1. queue[k] # Free => queue[k].ver \in {held[k], -held[k]}
      BY <2>4 DEF Inv, Matched
    <3>. QED  BY <1>1, <1>6, <2>2, <2>4, <3>1
  <2>. QED  BY <1>1, <2>2, <2>3, <2>4
<1>8. ASSUME NEW j \in Keys, NEW w
      PROVE  <<j, w>> \in PushedOut(queue') <=> queue[j] # Free /\ queue'[j] = Free /\ w = queue[j].ver
  BY PushedOutFacts
<1>9. evicted' \subseteq Records
  BY PushedOutTypes DEF Inv, Types
<1>10. Types'
  <2>1. changes' \in 0..MaxChanges
    BY <1>1 DEF Change, Inv, Types
  <2>. QED  BY <1>2, <1>3, <1>6, <1>9, <2>1 DEF Inv, Types, Queues
<1>11. Messages'
  BY DEF Inv, Messages
<1>12. QueueIsCurrent' /\ Matched'
  <2>1. ASSUME NEW j \in Keys, queue'[j] # Free
        PROVE  /\ held'[j] >= 0 => /\ queue'[j].ver >= held'[j]
                                   /\ j \notin revived' => queue'[j].ver = held'[j]
               /\ j \notin revived' => queue'[j].ver \in {held'[j], -held'[j]}
    <3>1. CASE j = k
      BY <1>1, <1>3, <1>7, <3>1
    <3>2. CASE j # k
      <4>1. queue'[j] = queue[j] /\ held'[j] = held[j] /\ (j \in revived' <=> j \in revived)
        BY <1>3, <1>6, <2>1, <3>2
      <4>. QED  BY <2>1, <4>1 DEF Inv, QueueIsCurrent, Matched
    <3>. QED  BY <3>1, <3>2
  <2>. QED  BY <2>1 DEF QueueIsCurrent, Matched
<1>13. ASSUME NEW j \in Keys \ revived', NEW w \in 1..MaxVersion PROVE Keeps(j, w)
  <2>1. Outstanding(<<j, w>>)' = Outstanding(<<j, w>>) /\ j \in Keys \ revived
    BY DEF Outstanding
  <2>2. CASE j # k
    BY <1>3, <1>6, <2>1, <2>2, BystanderKeeps
  <2>3. CASE j = k
    <3>1. Ranges(sent[<<k, w>>], Outstanding(<<k, w>>), held[k], queue[k], limit, lowest, w)
      BY <2>3, RangesHold
    <3>2. Fine(sent[<<k, w>>], Outstanding(<<k, w>>), <<k, w>> \in evicted, held[k], queue[k],
               limit, lowest, w)
      BY <2>1, <2>3 DEF Inv, RecordsAreFine, FineAt
    <3>3. queue'[k].ver = a /\ queue'[k].hops = 0 /\ queue'[k] # Free
      BY <1>7, <1>13, <2>3
    <3>4. <<k, w>> \in evicted' <=> <<k, w>> \in evicted
      BY <1>8, <3>3
    <3>5. PICK p : p = queue'[k]
      OBVIOUS
    <3>6. (<<k, w>> \in evicted) \in BOOLEAN /\ a \in Nat /\ a > held[k] /\ a > -held[k]
      BY <1>1, <1>13, <2>3
    <3>7. /\ Fine(sent[<<k, w>>], Outstanding(<<k, w>>), <<k, w>> \in evicted, a, p,
                  limit, lowest, w)
          /\ \A hops \in Nat :
                /\ Outstanding(<<k, w>>) > 0
                /\ Charge(hops, sent[<<k, w>>], Outstanding(<<k, w>>), <<k, w>> \in evicted, held[k],
                          queue[k], limit, w)
                => Charge(hops, sent[<<k, w>>], Outstanding(<<k, w>>), <<k, w>> \in evicted,
                          a, p, limit, w)
      BY <3>1, <3>2, <3>3, <3>5, <3>6, VersionComes
    <3>8. FineAt(k, w)'
      BY <1>3, <2>1, <2>3, <3>4, <3>5, <3>7 DEF FineAt
    <3>9. ASSUME NEW hops \in Nat, Outstanding(<<k, w>>) > 0, ChargeAt(hops, k, w)
          PROVE  ChargeAt(hops, k, w)'
      BY <1>3, <2>1, <2>3, <3>4, <3>5, <3>7, <3>9 DEF ChargeAt
    <3>. QED  BY <2>3, <3>8, <3>9 DEF Keeps
  <2>. QED  BY <2>2, <2>3
<1>14. RecordsAreFine' /\ ChargesAreFine'
  BY <1>11, <1>13, AllKeep
<1>. QED  BY <1>10, <1>11, <1>12, <1>14 DEF Inv

LEMMA AdoptHolds ==
    ASSUME Inv, NEW k \in Keys, Adopt(k)
    PROVE  Inv'
<1>1. PICK a : a = held[k] + 1
  OBVIOUS
<1>2. /\ held[k] \in Nat /\ MaxVersion \in Nat /\ a \in 1..MaxVersion /\ a > held[k] /\ a > -held[k]
      /\ held' = [held EXCEPT ![k] = a] /\ held'[k] = a
  BY <1>1, QueueLimitsAssumption DEF Adopt, Inv, Types
<1>3. /\ Change /\ queue' = Enqueue(queue, k, a)
      /\ evicted' = evicted \cup PushedOut(queue')
      /\ UNCHANGED <<limit, sending, takes, sent, revived, lowest>>
  BY <1>2 DEF Adopt
<1>. QED  BY <1>2, <1>3, ComesHolds

LEMMA ReturnHolds ==
    ASSUME Inv, NEW k \in Keys, NEW v \in 1..MaxVersion, Return(k, v)
    PROVE  Inv'
<1>1. v \in Nat /\ held[k] \in Int
  BY QueueLimitsAssumption DEF Inv, Types
<1>2. /\ held[k] < 0 /\ Change /\ held' = [held EXCEPT ![k] = v] /\ queue' = Enqueue(queue, k, v)
      /\ evicted' = evicted \cup PushedOut(queue')
      /\ revived' = IF v > -held[k] THEN revived ELSE revived \cup {k}
      /\ UNCHANGED <<limit, sending, takes, sent, lowest>>
  BY DEF Return
<1>3. /\ revived \subseteq revived' /\ revived' \subseteq revived \cup {k}
      /\ k \notin revived' => v > held[k] /\ v > -held[k]
  BY <1>1, <1>2
<1>. QED  BY <1>2, <1>3, ComesHolds

LEMMA RemoveHolds ==
    ASSUME Inv, NEW k \in Keys, Remove(k)
    PROVE  Inv'
<1>1. /\ MaxVersion \in Nat /\ MaxChanges \in Nat
      /\ held[k] > 0 /\ held' = [held EXCEPT ![k] = -held[k]]
      /\ UNCHANGED <<queue, limit, sending, takes, sent, evicted, revived, lowest>>
  BY QueueLimitsAssumption DEF Remove
<1>2. /\ held' \in [Keys -> (-MaxVersion)..MaxVersion] /\ held'[k] = -held[k] /\ held[k] \in Int
      /\ \A j \in Keys \ {k} : held'[j] = held[j]
  BY <1>1 DEF Inv, Types
<1>3. Types'
  <2>1. changes' \in 0..MaxChanges
    BY <1>1 DEF Remove, Change, Inv, Types
  <2>. QED  BY <1>1, <1>2, <2>1 DEF Inv, Types
<1>4. Messages'
  BY <1>1 DEF Inv, Messages
<1>5. QueueIsCurrent' /\ Matched'
  <2>1. ~(held'[k] >= 0) /\ -held'[k] = held[k]
    BY <1>1, <1>2
  <2>. QED  BY <1>1, <1>2, <2>1 DEF Inv, QueueIsCurrent, Matched
<1>6. ASSUME NEW j \in Keys \ revived', NEW w \in 1..MaxVersion PROVE Keeps(j, w)
  <2>1. Outstanding(<<j, w>>)' = Outstanding(<<j, w>>)
    BY <1>1 DEF Outstanding
  <2>. j \notin revived
    BY <1>1
  <2>2. CASE j # k
    BY <1>1, <1>2, <2>1, <2>2, Untouched
  <2>3. CASE j = k
    <3>1. Ranges(sent[<<k, w>>], Outstanding(<<k, w>>), held[k], queue[k], limit, lowest, w)
      BY <2>3, RangesHold
    <3>2. Fine(sent[<<k, w>>], Outstanding(<<k, w>>), <<k, w>> \in evicted, held[k], queue[k],
               limit, lowest, w)
      BY <2>3 DEF Inv, RecordsAreFine, FineAt
    <3>3. (<<k, w>> \in evicted) \in BOOLEAN
      OBVIOUS
    <3>. PICK g : g = -held[k]
      OBVIOUS
    <3>4. /\ Fine(sent[<<k, w>>], Outstanding(<<k, w>>), <<k, w>> \in evicted, g, queue[k],
                  limit, lowest, w)
          /\ \A hops \in Nat :
                Charge(hops, sent[<<k, w>>], Outstanding(<<k, w>>), <<k, w>> \in evicted, held[k],
                       queue[k], limit, w)
                => Charge(hops, sent[<<k, w>>], Outstanding(<<k, w>>), <<k, w>> \in evicted,
                          g, queue[k], limit, w)
      BY <1>1, <3>1, <3>2, <3>3, VersionGoes
    <3>5. FineAt(k, w)'
      BY <1>1, <1>2, <2>1, <2>3, <3>4 DEF FineAt
    <3>6. ASSUME NEW hops \in Nat, ChargeAt(hops, k, w) PROVE ChargeAt(hops, k, w)'
      BY <1>1, <1>2, <2>1, <2>3, <3>4, <3>6 DEF ChargeAt
    <3>. QED  BY <2>3, <3>5, <3>6 DEF Keeps
  <2>. QED  BY <2>2, <2>3
<1>7. RecordsAreFine' /\ ChargesAreFine'
  BY <1>1, <1>4, <1>6, AllKeep
<1>. QED  BY <1>3, <1>4, <1>5, <1>7 DEF Inv

LEMMA BuildHolds ==
    ASSUME Inv, Build
    PROVE  Inv'
<1>. DEFINE D == {[key |-> k, ver |-> queue[k].ver, hops |-> queue[k].hops + 1] : k \in Chosen(queue)}
            x == [id |-> takes, deltas |-> D]
<1>1. /\ MaxTakes \in Nat /\ takes \in Nat /\ takes' = takes + 1 /\ takes' \in 0..MaxTakes
      /\ MaxVersion \in Nat
      /\ sending' = sending \cup {x}
      /\ queue' = Taken(queue, limit)
      /\ UNCHANGED <<held, changes, limit, sent, evicted, revived, lowest>>
  BY QueueLimitsAssumption DEF Build, Inv, Types
<1>2. queue \in Queues /\ Cardinality(Queued(queue)) <= MaxQueue /\ limit \in HopLimits
  BY DEF Inv, Types, Queues
<1>3. /\ queue' \in Queues /\ Cardinality(Queued(queue')) <= MaxQueue
      /\ \A k \in Keys \ Chosen(queue) : queue'[k] = queue[k]
      /\ \A k \in Chosen(queue) :
            /\ k \in Keys /\ queue[k] # Free
            /\ queue'[k].ver = IF queue[k].hops + 1 >= limit THEN 0 ELSE queue[k].ver
            /\ queue'[k].ver = queue[k].ver => queue'[k].hops = queue[k].hops + 1
  BY <1>1, <1>2, TakenFacts
<1>4. \A k \in Keys : /\ queue[k] \in Entries /\ queue'[k] \in Entries
                      /\ queue[k].ver \in 0..MaxVersion /\ queue[k].hops \in Nat /\ queue[k].hops < Most
                      /\ queue[k] = Free <=> queue[k].ver = 0
                      /\ queue'[k] = Free <=> queue'[k].ver = 0
  <2>1. \A k \in Keys : queue[k] \in Entries /\ queue'[k] \in Entries
    BY <1>2, <1>3 DEF Queues
  <2>. QED  BY <2>1, EntryFacts
<1>5. x.id = takes /\ x.deltas = D
  OBVIOUS
<1>6. \A d \in D : /\ d \in Deltas /\ d.key \in Chosen(queue)
                   /\ d.ver = queue[d.key].ver /\ d.hops = queue[d.key].hops + 1
  BY <1>1, <1>3, <1>4 DEF Deltas
<1>7. \A k \in Keys, v \in 1..MaxVersion :
         Carries(D, <<k, v>>) <=> k \in Chosen(queue) /\ queue[k].ver = v
  <2>1. ASSUME NEW k, NEW v, Carries(D, <<k, v>>) PROVE k \in Chosen(queue) /\ queue[k].ver = v
    <3>1. PICK d \in D : <<d.key, d.ver>> = <<k, v>>
      BY <2>1 DEF Carries
    <3>. QED  BY <1>6, <3>1
  <2>2. ASSUME NEW k \in Chosen(queue) PROVE Carries(D, <<k, queue[k].ver>>)
    <3>1. PICK d \in D : d = [key |-> k, ver |-> queue[k].ver, hops |-> queue[k].hops + 1]
      OBVIOUS
    <3>. QED  BY <3>1 DEF Carries
  <2>. QED  BY <2>1, <2>2
<1>8. \A d, e \in D : d.key = e.key => d = e
  OBVIOUS
<1>9. x \in [id : Nat, deltas : SUBSET Deltas]
  BY <1>1, <1>6
<1>. HIDE DEF D, x
<1>10. x \notin sending /\ \A m \in sending : m.id # x.id
  BY <1>1, <1>5 DEF Inv, Messages
<1>11. IsFiniteSet(sending)
  BY DEF Inv, Messages
<1>12. IsFiniteSet(sending')
  BY <1>1, <1>11, FS_AddElement
<1>13. Messages'
  <2>1. ASSUME NEW m \in sending'
        PROVE  /\ m \in [id : Nat, deltas : SUBSET Deltas] /\ m.id < takes'
               /\ \A n \in sending' : n.id = m.id => n = m
               /\ \A d, e \in m.deltas : d.key = e.key => d = e
    <3>1. CASE m = x
      BY <1>1, <1>5, <1>8, <1>9, <1>10, <3>1
    <3>2. CASE m \in sending
      <4>1. /\ m \in [id : Nat, deltas : SUBSET Deltas] /\ m.id < takes
            /\ \A n \in sending : n.id = m.id => n = m
            /\ \A d, e \in m.deltas : d.key = e.key => d = e
        BY <3>2 DEF Inv, Messages
      <4>2. m.id < takes'
        BY <1>1, <4>1
      <4>3. \A n \in sending' : n.id = m.id => n = m
        BY <1>1, <1>10, <3>2, <4>1
      <4>. QED  BY <4>1, <4>2, <4>3
    <3>. QED  BY <1>1, <3>1, <3>2
  <2>. QED  BY <1>12, <2>1 DEF Messages
<1>14. Types'
  BY <1>1, <1>3 DEF Inv, Types, Queues
<1>15. QueueIsCurrent' /\ Matched'
  <2>1. ASSUME NEW k \in Keys, queue'[k] # Free PROVE queue'[k].ver = queue[k].ver /\ queue[k] # Free
    BY <1>3, <1>4, <2>1
  <2>. QED  BY <1>1, <2>1 DEF Inv, QueueIsCurrent, Matched
<1>16. ASSUME NEW k \in Chosen(queue), k \notin revived, NEW v, v = queue[k].ver, NEW c, c = queue[k].hops + 1
       PROVE  /\ k \in Keys /\ v \in 1..MaxVersion
              /\ Keeps(k, v)
              /\ ChargeAt(c, k, v)'
  <2>1. k \in Keys /\ v \in 1..MaxVersion
    BY <1>1, <1>3, <1>4, <1>16
  <2>2. Outstanding(<<k, v>>)' = Outstanding(<<k, v>>) + 1
    <3>1. Carries(x.deltas, <<k, v>>)
      BY <1>5, <1>7, <1>16, <2>1
    <3>. QED  BY <1>1, <1>10, <1>11, <3>1, MessageAdded, CountIsOutstanding
  <2>3. /\ Ranges(sent[<<k, v>>], Outstanding(<<k, v>>), held[k], queue[k], limit, lowest, v)
        /\ queue[k].ver # 0 => queue[k].ver \in {held[k], -held[k]}
    BY <1>16, <2>1, RangesHold
  <2>4. Fine(sent[<<k, v>>], Outstanding(<<k, v>>), <<k, v>> \in evicted, held[k], queue[k],
             limit, lowest, v)
    BY <1>16, <2>1 DEF Inv, RecordsAreFine, FineAt
  <2>5. PICK p : p = queue'[k]
    OBVIOUS
  <2>6. /\ p.ver = IF queue[k].hops + 1 >= limit THEN 0 ELSE v
        /\ p.ver = v => p.hops = queue[k].hops + 1
        /\ queue[k].hops < Most
    BY <1>3, <1>4, <1>16, <2>1, <2>5
  <2>7. (<<k, v>> \in evicted) \in BOOLEAN
    OBVIOUS
  <2>8. PICK n : n = Outstanding(<<k, v>>)
    OBVIOUS
  <2>9. /\ Fine(sent[<<k, v>>], n + 1, <<k, v>> \in evicted, held[k], p, limit, lowest, v)
        /\ Charge(c, sent[<<k, v>>], n + 1, <<k, v>> \in evicted, held[k], p, limit, v)
        /\ \A hops \in Nat :
              n > 0 /\ Charge(hops, sent[<<k, v>>], n, <<k, v>> \in evicted, held[k], queue[k],
                              limit, v)
              => Charge(hops, sent[<<k, v>>], n + 1, <<k, v>> \in evicted, held[k], p, limit, v)
    BY <1>16, <2>3, <2>4, <2>6, <2>7, <2>8, RecordCharged, ZenonT(120)
  <2>10. FineAt(k, v)' /\ ChargeAt(c, k, v)'
    BY <1>1, <2>2, <2>5, <2>8, <2>9 DEF FineAt, ChargeAt
  <2>11. ASSUME NEW hops \in Nat, Outstanding(<<k, v>>) > 0, ChargeAt(hops, k, v)
         PROVE  ChargeAt(hops, k, v)'
    BY <1>1, <2>2, <2>5, <2>8, <2>9, <2>11 DEF ChargeAt
  <2>. QED  BY <2>1, <2>10, <2>11 DEF Keeps
<1>17. ASSUME NEW k \in Keys \ revived', NEW v \in 1..MaxVersion PROVE Keeps(k, v)
  <2>. k \notin revived
    BY <1>1
  <2>1. CASE k \in Chosen(queue) /\ queue[k].ver = v
    BY <1>16, <2>1
  <2>2. CASE ~(k \in Chosen(queue) /\ queue[k].ver = v)
    <3>1. Outstanding(<<k, v>>)' = Outstanding(<<k, v>>)
      <4>1. ~Carries(x.deltas, <<k, v>>)
        BY <1>5, <1>7, <2>2
      <4>. QED  BY <1>1, <1>10, <1>11, <4>1, MessageAdded, CountIsOutstanding
    <3>2. queue'[k] = queue[k] \/ (queue'[k].ver # v /\ queue[k].ver # v)
      BY <1>1, <1>3, <2>2
    <3>. QED  BY <1>1, <3>1, <3>2, Untouched
  <2>. QED  BY <2>1, <2>2
<1>18. RecordsAreFine'
  BY <1>17 DEF RecordsAreFine, Keeps
<1>19. ASSUME NEW m \in sending', NEW d \in m.deltas, d.key \notin revived' PROVE ChargeAt(d.hops, d.key, d.ver)'
  <2>1. CASE m = x
    <3>1. d \in D /\ d.key \in Chosen(queue) /\ d.ver = queue[d.key].ver /\ d.hops = queue[d.key].hops + 1
      BY <1>5, <1>6, <2>1
    <3>. QED  BY <1>1, <1>16, <1>19, <3>1
  <2>2. CASE m \in sending
    BY <1>1, <1>13, <1>17, <1>19, <2>2, DeltasKeep
  <2>. QED  BY <1>1, <2>1, <2>2
<1>20. ChargesAreFine'
  BY <1>19 DEF ChargesAreFine
<1>. QED  BY <1>13, <1>14, <1>15, <1>18, <1>20 DEF Inv

LEMMA SentHolds ==
    ASSUME Inv, NEW m \in sending, Sent(m)
    PROVE  Inv'
<1>1. /\ sending' = sending \ {m}
      /\ sent' = [r \in Records |-> sent[r] + IF Carries(m.deltas, r) THEN 1 ELSE 0]
      /\ UNCHANGED <<held, changes, queue, limit, takes, evicted, revived, lowest>>
  BY DEF Sent
<1>2. /\ IsFiniteSet(sending) /\ sent \in [Records -> Nat]
  BY DEF Inv, Types, Messages
<1>3. IsFiniteSet(sending')
  BY <1>1, <1>2, FS_RemoveElement
<1>4. \A r \in Records :
         /\ Carries(m.deltas, r) => sent'[r] = sent[r] + 1
         /\ ~Carries(m.deltas, r) => sent'[r] = sent[r]
  BY <1>1, <1>2
<1>5. sent' \in [Records -> Nat]
  BY <1>1, <1>2
<1>6. Types'
  BY <1>1, <1>5 DEF Inv, Types
<1>7. Messages'
  BY <1>1, <1>3 DEF Inv, Messages
<1>8. QueueIsCurrent' /\ Matched'
  BY <1>1 DEF Inv, QueueIsCurrent, Matched
<1>9. ASSUME NEW k \in Keys \ revived', NEW v \in 1..MaxVersion PROVE Keeps(k, v)
  <2>. k \notin revived
    BY <1>1
  <2>1. <<k, v>> \in Records
    BY DEF Records
  <2>2. CASE ~Carries(m.deltas, <<k, v>>)
    <3>1. Outstanding(<<k, v>>)' = Outstanding(<<k, v>>)
      BY <1>1, <1>2, <2>2, MessageDropped, CountIsOutstanding
    <3>. QED  BY <1>1, <1>4, <2>1, <2>2, <3>1, Untouched
  <2>3. CASE Carries(m.deltas, <<k, v>>)
    <3>1. /\ Outstanding(<<k, v>>)' = Outstanding(<<k, v>>) - 1
          /\ Outstanding(<<k, v>>) > 0
      BY <1>1, <1>2, <2>3, MessageDropped, CountFacts, CountIsOutstanding
    <3>2. Ranges(sent[<<k, v>>], Outstanding(<<k, v>>), held[k], queue[k], limit, lowest, v)
      BY RangesHold
    <3>3. Fine(sent[<<k, v>>], Outstanding(<<k, v>>), <<k, v>> \in evicted, held[k], queue[k],
               limit, lowest, v)
      BY DEF Inv, RecordsAreFine, FineAt
    <3>4. (<<k, v>> \in evicted) \in BOOLEAN
      OBVIOUS
    <3>5. PICK n, s : n = Outstanding(<<k, v>>) /\ s = sent[<<k, v>>]
      OBVIOUS
    <3>6. /\ Fine(s + 1, n - 1, <<k, v>> \in evicted, held[k], queue[k], limit, lowest, v)
          /\ \A hops \in Nat :
                n - 1 > 0 /\ Charge(hops, s, n, <<k, v>> \in evicted, held[k], queue[k], limit, v)
                => Charge(hops, s + 1, n - 1, <<k, v>> \in evicted, held[k], queue[k], limit, v)
      BY <3>1, <3>2, <3>3, <3>4, <3>5, RecordSent
    <3>7. sent'[<<k, v>>] = s + 1 /\ Outstanding(<<k, v>>)' = n - 1
      BY <1>4, <2>1, <2>3, <3>1, <3>5
    <3>8. FineAt(k, v)'
      BY <1>1, <3>6, <3>7 DEF FineAt
    <3>9. ASSUME NEW hops \in Nat, Outstanding(<<k, v>>)' > 0, ChargeAt(hops, k, v)
          PROVE  ChargeAt(hops, k, v)'
      BY <1>1, <3>5, <3>6, <3>7, <3>9 DEF ChargeAt
    <3>. QED  BY <3>8, <3>9 DEF Keeps
  <2>. QED  BY <2>2, <2>3
<1>10. RecordsAreFine' /\ ChargesAreFine'
  BY <1>1, <1>7, <1>9, AllKeep
<1>. QED  BY <1>6, <1>7, <1>8, <1>10 DEF Inv

LEMMA DeferredHolds ==
    ASSUME Inv, NEW m \in sending, NEW d \in m.deltas, Deferred(m, d)
    PROVE  Inv'
<1>1. /\ sending' = (sending \ {m}) \cup Trimmed(m, d)
      /\ queue' = IF d.hops <= limit /\ held[d.key] = d.ver THEN Defer(queue, d, limit) ELSE queue
      /\ evicted' = evicted \cup PushedOut(queue')
      /\ UNCHANGED <<held, changes, limit, takes, sent, revived, lowest>>
  BY DEF Deferred, StillCurrent
<1>2. /\ IsFiniteSet(sending)
      /\ m \in [id : Nat, deltas : SUBSET Deltas] /\ m.id < takes
      /\ \A n \in sending : n.id = m.id => n = m
      /\ \A e, f \in m.deltas : e.key = f.key => e = f
  BY DEF Inv, Messages
<1>3. /\ d \in Deltas /\ d.key \in Keys /\ d.ver \in 1..MaxVersion /\ d.hops \in Nat
      /\ MaxVersion \in Nat
  BY <1>2, QueueLimitsAssumption DEF Deltas
<1>4. queue \in Queues /\ Cardinality(Queued(queue)) <= MaxQueue /\ limit \in HopLimits
  BY DEF Inv, Types, Queues
<1>5. PICK k, v : k = d.key /\ v = d.ver
  OBVIOUS
<1>6. held[k] = v => /\ queue[k] # Free => queue[k].ver >= v
                     /\ queue[k] # Free /\ k \notin revived => queue[k].ver = v
  BY <1>3, <1>5 DEF Inv, QueueIsCurrent
<1>7. /\ queue' \in Queues /\ Cardinality(Queued(queue')) <= MaxQueue
      /\ \A j \in Keys \ {k} : queue'[j] = queue[j] \/ queue'[j] = Free
      /\ d.hops <= limit /\ held[k] = v =>
            /\ queue'[k].ver = IF queue[k] = Free THEN v ELSE queue[k].ver
            /\ queue'[k].hops = IF queue[k].ver = v
                                THEN IF queue[k].hops = 0 THEN 0 ELSE queue[k].hops - 1
                                ELSE limit - 1
      /\ ~(d.hops <= limit /\ held[k] = v) => queue' = queue
  <2>1. CASE d.hops <= limit /\ held[k] = v
    <3>1. queue' = Defer(queue, d, limit)
      BY <1>1, <1>5, <2>1
    <3>. QED  BY <1>3, <1>4, <1>5, <1>6, <2>1, <3>1, DeferFacts
  <2>2. CASE ~(d.hops <= limit /\ held[k] = v)
    BY <1>1, <1>4, <1>5, <2>2
  <2>. QED  BY <2>1, <2>2
<1>8. \A j \in Keys : /\ queue[j] \in Entries /\ queue'[j] \in Entries
                      /\ queue[j] = Free <=> queue[j].ver = 0
                      /\ queue'[j] = Free <=> queue'[j].ver = 0
  <2>1. \A j \in Keys : queue[j] \in Entries /\ queue'[j] \in Entries
    BY <1>4, <1>7 DEF Queues
  <2>. QED  BY <2>1, EntryFacts
<1>9. evicted' \subseteq Records
  BY <1>1, PushedOutTypes DEF Inv, Types
<1>10. Types'
  BY <1>1, <1>7, <1>9 DEF Inv, Types, Queues
<1>11. ASSUME NEW n \in sending' PROVE n \in sending \/ (n = [m EXCEPT !.deltas = @ \ {d}])
  BY <1>1 DEF Trimmed
<1>12. IsFiniteSet(sending')
  BY <1>1, <1>2, MessageTrimmed
<1>13. Messages'
  <2>1. PICK x : x = [m EXCEPT !.deltas = @ \ {d}]
    OBVIOUS
  <2>2. x \in [id : Nat, deltas : SUBSET Deltas] /\ x.id = m.id /\ x.deltas = m.deltas \ {d}
    BY <1>2, <2>1
  <2>3. \A n \in sending' : (n \in sending /\ n # m) \/ n = x
    <3>1. Trimmed(m, d) \subseteq {x}
      BY <2>1 DEF Trimmed
    <3>. QED  BY <1>1, <3>1
  <2>4. \A n \in sending : n # m => n.id # m.id
    BY <1>2
  <2>5. ASSUME NEW n \in sending'
        PROVE  /\ n \in [id : Nat, deltas : SUBSET Deltas] /\ n.id < takes'
               /\ \A o \in sending' : o.id = n.id => o = n
               /\ \A e, f \in n.deltas : e.key = f.key => e = f
    <3>1. CASE n = x
      <4>1. \A o \in sending' : o.id = n.id => o = n
        BY <2>2, <2>3, <2>4, <3>1
      <4>. QED  BY <1>1, <1>2, <2>2, <3>1, <4>1
    <3>2. CASE n \in sending /\ n # m
      <4>1. /\ n \in [id : Nat, deltas : SUBSET Deltas] /\ n.id < takes
            /\ \A o \in sending : o.id = n.id => o = n
            /\ \A e, f \in n.deltas : e.key = f.key => e = f
        BY <3>2 DEF Inv, Messages
      <4>2. \A o \in sending' : o.id = n.id => o = n
        BY <2>2, <2>3, <2>4, <3>2, <4>1
      <4>. QED  BY <1>1, <4>1, <4>2
    <3>. QED  BY <2>3, <3>1, <3>2
  <2>. QED  BY <1>12, <2>5 DEF Messages
<1>14. QueueIsCurrent' /\ Matched'
  <2>1. ASSUME NEW j \in Keys, queue'[j] # Free
        PROVE  \/ queue[j] # Free /\ queue'[j].ver = queue[j].ver
               \/ queue'[j].ver = held[j]
    <3>1. CASE queue'[j] = queue[j]
      BY <2>1, <3>1
    <3>2. CASE j = k /\ d.hops <= limit /\ held[k] = v
      BY <1>7, <3>2
    <3>. QED  BY <1>7, <2>1, <3>1, <3>2
  <2>2. \A j \in Keys : held[j] \in Int
    BY <1>3 DEF Inv, Types
  <2>. QED  BY <1>1, <2>1, <2>2 DEF Inv, QueueIsCurrent, Matched
<1>15. ASSUME NEW w \in 1..MaxVersion PROVE <<k, w>> \in evicted' <=> <<k, w>> \in evicted
  <2>1. <<k, w>> \in PushedOut(queue') <=> queue[k] # Free /\ queue'[k] = Free /\ w = queue[k].ver
    BY <1>3, <1>5, PushedOutFacts
  <2>2. ~(queue[k] # Free /\ queue'[k] = Free)
    BY <1>3, <1>5, <1>7, <1>8
  <2>. QED  BY <1>1, <2>1, <2>2
<1>16. ASSUME NEW j \in Keys \ revived', NEW w \in 1..MaxVersion, <<j, w>> # <<k, v>>
       PROVE  Keeps(j, w)
  <2>. j \notin revived
    BY <1>1
  <2>1. Outstanding(<<j, w>>)' = Outstanding(<<j, w>>)
    BY <1>1, <1>2, <1>5, <1>16, MessageTrimmed, CountIsOutstanding
  <2>2. CASE j # k
    BY <1>1, <1>7, <2>1, <2>2, BystanderKeeps
  <2>3. CASE j = k
    <3>1. w # v
      BY <1>16, <2>3
    <3>2. queue'[k] = queue[k] \/ (queue'[k].ver # w /\ queue[k].ver # w)
      BY <1>3, <1>5, <1>6, <1>7, <1>8, <2>3, <3>1
    <3>. QED  BY <1>1, <1>15, <2>1, <2>3, <3>2, Untouched
  <2>. QED  BY <2>2, <2>3
<1>17. ASSUME k \notin revived PROVE Keeps(k, v)
  <2>1. Outstanding(<<k, v>>)' = Outstanding(<<k, v>>) - 1
    BY <1>1, <1>2, <1>5, MessageTrimmed, CountIsOutstanding
  <2>2. Outstanding(<<k, v>>) > 0
    <3>1. Carries(m.deltas, <<k, v>>)
      BY <1>5 DEF Carries
    <3>. QED  BY <1>2, <3>1, CountFacts, CountIsOutstanding
  <2>3. /\ Ranges(sent[<<k, v>>], Outstanding(<<k, v>>), held[k], queue[k], limit, lowest, v)
        /\ queue[k].ver # 0 => queue[k].ver \in {held[k], -held[k]}
    BY <1>3, <1>5, <1>17, RangesHold
  <2>4. Fine(sent[<<k, v>>], Outstanding(<<k, v>>), <<k, v>> \in evicted, held[k], queue[k],
             limit, lowest, v)
    BY <1>3, <1>5, <1>17 DEF Inv, RecordsAreFine, FineAt
  <2>5. Charge(d.hops, sent[<<k, v>>], Outstanding(<<k, v>>), <<k, v>> \in evicted, held[k],
               queue[k], limit, v)
    BY <1>5, <1>17 DEF Inv, ChargesAreFine, ChargeAt
  <2>6. (<<k, v>> \in evicted) \in BOOLEAN
    OBVIOUS
  <2>7. PICK n, p : n = Outstanding(<<k, v>>) /\ p = queue'[k]
    OBVIOUS
  <2>8. IF d.hops <= limit /\ held[k] = v
        THEN /\ p.ver = v
             /\ p.hops = IF queue[k].ver = v
                         THEN IF queue[k].hops = 0 THEN 0 ELSE queue[k].hops - 1
                         ELSE limit - 1
        ELSE p = queue[k]
    BY <1>6, <1>7, <1>17, <2>7
  <2>9. /\ Fine(sent[<<k, v>>], n - 1, <<k, v>> \in evicted, held[k], p, limit, lowest, v)
        /\ \A x \in Nat :
              n - 1 > 0 /\ Charge(x, sent[<<k, v>>], n, <<k, v>> \in evicted, held[k], queue[k],
                                  limit, v)
              => Charge(x, sent[<<k, v>>], n - 1, <<k, v>> \in evicted, held[k], p, limit, v)
    BY <1>3, <2>2, <2>3, <2>4, <2>5, <2>6, <2>7, <2>8, RecordDeferred, ZenonT(40)
  <2>10. <<k, v>> \in evicted' <=> <<k, v>> \in evicted
    BY <1>3, <1>5, <1>15
  <2>11. FineAt(k, v)'
    BY <1>1, <2>1, <2>7, <2>9, <2>10 DEF FineAt
  <2>12. ASSUME NEW x \in Nat, Outstanding(<<k, v>>)' > 0, ChargeAt(x, k, v)
         PROVE  ChargeAt(x, k, v)'
    BY <1>1, <2>1, <2>7, <2>9, <2>10, <2>12 DEF ChargeAt
  <2>. QED  BY <2>11, <2>12 DEF Keeps
<1>18. \A j \in Keys \ revived', w \in 1..MaxVersion : Keeps(j, w)
  BY <1>1, <1>16, <1>17
<1>19. \A n \in sending' : \A e \in n.deltas : \E o \in sending : e \in o.deltas
  <2>1. ASSUME NEW n \in sending', NEW e \in n.deltas PROVE \E o \in sending : e \in o.deltas
    <3>1. CASE n = [m EXCEPT !.deltas = @ \ {d}]
      <4>1. n.deltas = m.deltas \ {d}
        BY <1>2, <3>1
      <4>. QED  BY <4>1
    <3>. QED  BY <1>11, <3>1
  <2>. QED  BY <2>1
<1>20. RecordsAreFine' /\ ChargesAreFine'
  BY <1>1, <1>13, <1>18, <1>19, AllKeep
<1>. QED  BY <1>10, <1>13, <1>14, <1>20 DEF Inv

LEMMA ResizeHolds ==
    ASSUME Inv, NEW n \in HopLimits, Resize(n)
    PROVE  Inv'
<1>1. /\ sending = {} /\ limit' = n /\ lowest' = IF n < lowest THEN n ELSE lowest
      /\ UNCHANGED <<held, changes, queue, sending, takes, sent, evicted, revived>>
  BY DEF Resize
<1>2. /\ n \in Nat \ {0} /\ lowest \in Nat \ {0} /\ limit \in Nat \ {0} /\ lowest <= limit
  BY QueueLimitsAssumption DEF Inv, Types
<1>3. lowest' \in HopLimits /\ lowest' \in Nat /\ lowest' <= n /\ lowest' <= lowest
  BY <1>1, <1>2 DEF Inv, Types
<1>4. Types'
  BY <1>1, <1>3 DEF Inv, Types
<1>5. Messages' /\ QueueIsCurrent' /\ Matched' /\ ChargesAreFine'
  BY <1>1 DEF Inv, Messages, QueueIsCurrent, Matched, ChargesAreFine
<1>6. ASSUME NEW k \in Keys \ revived, NEW v \in 1..MaxVersion PROVE FineAt(k, v)'
  <2>1. Outstanding(<<k, v>>) = 0 /\ Outstanding(<<k, v>>)' = Outstanding(<<k, v>>)
    BY <1>1, CountIsOutstanding, CountFacts, FS_EmptySet
  <2>2. Ranges(sent[<<k, v>>], Outstanding(<<k, v>>), held[k], queue[k], limit, lowest, v)
    BY RangesHold
  <2>3. Fine(sent[<<k, v>>], Outstanding(<<k, v>>), <<k, v>> \in evicted, held[k], queue[k],
             limit, lowest, v)
    BY DEF Inv, RecordsAreFine, FineAt
  <2>4. (<<k, v>> \in evicted) \in BOOLEAN
    OBVIOUS
  <2>5. PICK b : b = lowest'
    OBVIOUS
  <2>6. Fine(sent[<<k, v>>], Outstanding(<<k, v>>), <<k, v>> \in evicted, held[k], queue[k], n, b, v)
    BY <1>2, <1>3, <2>1, <2>2, <2>3, <2>4, <2>5, LimitChanges
  <2>. QED  BY <1>1, <2>1, <2>5, <2>6 DEF FineAt
<1>. QED  BY <1>1, <1>4, <1>5, <1>6 DEF Inv, RecordsAreFine

LEMMA NextHolds == Inv /\ [Next]_vars => Inv'
<1>. SUFFICES ASSUME Inv, [Next]_vars PROVE Inv'
  OBVIOUS
<1>1. CASE UNCHANGED vars
  <2>1. \A r : Outstanding(r)' = Outstanding(r)
    BY <1>1 DEF vars, Outstanding
  <2>. QED  BY <1>1, <2>1 DEF vars, Inv, Types, Messages, QueueIsCurrent, Matched, RecordsAreFine,
                              ChargesAreFine, FineAt, ChargeAt
<1>2. ASSUME NEW k \in Keys, Adopt(k) PROVE Inv'
  BY <1>2, AdoptHolds
<1>3. ASSUME NEW k \in Keys, Remove(k) PROVE Inv'
  BY <1>3, RemoveHolds
<1>4. CASE Build
  BY <1>4, BuildHolds
<1>5. ASSUME NEW m \in sending, Sent(m) PROVE Inv'
  BY <1>5, SentHolds
<1>6. ASSUME NEW m \in sending, NEW d \in m.deltas, Deferred(m, d) PROVE Inv'
  BY <1>6, DeferredHolds
<1>7. ASSUME NEW n \in HopLimits, Resize(n) PROVE Inv'
  BY <1>7, ResizeHolds
<1>8. ASSUME NEW k \in Keys, NEW v \in 1..MaxVersion, Return(k, v) PROVE Inv'
  BY <1>8, ReturnHolds
<1>. QED  BY <1>1, <1>2, <1>3, <1>4, <1>5, <1>6, <1>7, <1>8 DEF Next

LEMMA Invariance == Spec => []Inv
BY InitHolds, NextHolds, PTL DEF Spec

-----------------------------------------------------------------------------
(* The theorems.                                                           *)

\* The queue never holds more than max_gossip_queue entries, none of them charged
\* the hop limit, whatever enqueue, take and defer do in turn (gossip.rs).
THEOREM TypeCorrect == Spec => []TypeOK
<1>1. Inv => TypeOK
  <2>. SUFFICES ASSUME Inv PROVE TypeOK
    OBVIOUS
  <2>1. Entries \subseteq [ver : 1..MaxVersion, hops : 0..Top(HopLimits)] \cup {Free}
    <3>1. Top(HopLimits) \in Nat /\ 0..(Top(HopLimits) - 1) \subseteq 0..Top(HopLimits)
      BY MostIsTop DEF Most
    <3>. QED  BY <3>1 DEF Entries, Most
  <2>2. queue \in [Keys -> [ver : 1..MaxVersion, hops : 0..Top(HopLimits)] \cup {Free}]
    BY <2>1 DEF Inv, Types
  <2>3. \A m \in sending : m.deltas \subseteq Deltas
    BY DEF Inv, Messages
  <2>. QED  BY <2>2, <2>3 DEF Inv, Types, TypeOK, Queued
<1>. QED  BY <1>1, Invariance, PTL

\* What waits in the queue is the record the replica holds: a deferral that comes
\* back late never puts back a replaced one (GossipDeferred in handle_outcome).
\* Beside a record revived at an older version a newer one may wait, never an older.
THEOREM QueueStaysCurrent == Spec => []QueueIsCurrent
<1>1. Inv => QueueIsCurrent
  BY DEF Inv
<1>. QED  BY <1>1, Invariance, PTL

\* A record is transmitted at most as often as the hop limit allows, and one that has
\* left the queue, other than by eviction, replacement or removal, as often as the
\* lowest limit asked, however take and defer interleave and whatever other records
\* are removed and revived.
THEOREM GossipIsDisseminated == Spec => []DisseminatedAsAsked
<1>1. Inv => DisseminatedAsAsked
  <2>. SUFFICES ASSUME Inv PROVE DisseminatedAsAsked
    OBVIOUS
  <2>1. ASSUME NEW k \in Keys \ revived, NEW v \in 1..MaxVersion
        PROVE  sent[<<k, v>>] + Outstanding(<<k, v>>) <= Top(HopLimits)
    BY DEF Inv, RecordsAreFine, FineAt, Fine, Most
  <2>2. ASSUME NEW k \in Keys \ revived, held[k] > 0, queue[k] = Free, <<k, held[k]>> \notin evicted
        PROVE  sent[<<k, held[k]>>] + Outstanding(<<k, held[k]>>) >= lowest
    <3>1. held[k] \in 1..MaxVersion /\ MaxVersion \in Nat
      BY <2>2, QueueLimitsAssumption DEF Inv, Types
    <3>2. FineAt(k, held[k])
      BY <3>1 DEF Inv, RecordsAreFine
    <3>3. queue[k].ver # held[k]
      BY <2>2, <3>1 DEF Free
    <3>. QED  BY <2>2, <3>2, <3>3 DEF FineAt, Fine
  <2>. QED  BY <2>1, <2>2 DEF DisseminatedAsAsked
<1>. QED  BY <1>1, Invariance, PTL


-----------------------------------------------------------------------------
(* A round of anti-entropy.                                                *)

\* Messages carry the numbers of rounds that have begun.
Numbered ==
    /\ \A q \in requests : q.round < corr
    /\ \A r \in replies : r.round < corr
    /\ round # NoRound => round.id < corr

\* The peer holds what it owes the round.
PeerOwes == \A l \in Leaves : owed[l] <= theirs[l]

\* What a request of this round describes is held here or no longer owed, and so
\* is all the peer owes up to the cursor.
RequestsAreCovered ==
    \A q \in requests : \A l \in Leaves : q.round = round.id =>
       /\ q.digest[l] <= ours[l] \/ owed[l] = 0
       /\ l <= q.cursor => owed[l] <= ours[l]

\* What the peer owes up to the cursor of a reply is in its page or held here.
RepliesAreCovered ==
    \A r \in replies : \A l \in Leaves :
       r.round = round.id /\ (r.cursor = Done \/ l <= r.cursor)
          => owed[l] <= ours[l] \/ owed[l] <= r.page[l]

PullInv == PullTypeOK /\ Numbered /\ PeerOwes /\ RequestsAreCovered /\ RepliesAreCovered

\* A page is the first leaves of those wanted, at least one of them.
LEMMA PageFacts ==
    ASSUME NEW W, W \subseteq Leaves
    PROVE  /\ PageOf(W) \subseteq W
           /\ PageOf(W) # W => /\ Last(PageOf(W)) \in PageOf(W)
                               /\ \A l \in W : l <= Last(PageOf(W)) => l \in PageOf(W)
<1>1. PageOf(W) \subseteq W
  BY DEF PageOf
<1>2. W \subseteq Nat /\ IsFiniteSet(W) /\ Page \in Nat \ {0}
  BY LeavesAssumption, PagingAssumption, FS_Subset
<1>. SUFFICES ASSUME PageOf(W) # W
              PROVE  /\ Last(PageOf(W)) \in PageOf(W)
                     /\ \A l \in W : l <= Last(PageOf(W)) => l \in PageOf(W)
  BY <1>1
<1>3. PageOf(W) # {}
  <2>1. PICK m \in W : \A y \in W : m <= y
    BY <1>1, <1>2, LeastExists
  <2>2. {k \in W : k <= m} = {m}
    <3>1. ASSUME NEW k \in W PROVE k <= m <=> k = m
      <4>1. k \in Nat /\ m \in Nat /\ m <= k
        BY <1>2, <2>1
      <4>. QED  BY <4>1
    <3>. QED  BY <2>1, <3>1
  <2>3. Cardinality({m}) = 1
    BY FS_Singleton
  <2>. QED  BY <1>2, <2>1, <2>2, <2>3 DEF PageOf
<1>4. Last(PageOf(W)) \in PageOf(W)
  <2>1. IsFiniteSet(PageOf(W)) /\ PageOf(W) \subseteq Nat
    BY <1>1, <1>2, FS_Subset
  <2>2. \E x \in PageOf(W) : \A y \in PageOf(W) : y <= x
    BY <1>3, <2>1, GreatestExists
  <2>. QED  BY <2>2 DEF Last
<1>5. ASSUME NEW l \in W, NEW x \in PageOf(W), l <= x PROVE l \in PageOf(W)
  <2>. DEFINE A == {k \in W : k <= l}
              B == {k \in W : k <= x}
  <2>1. A \subseteq B
    <3>1. ASSUME NEW k \in W, k <= l PROVE k <= x
      <4>1. k \in Nat /\ l \in Nat /\ x \in Nat
        BY <1>1, <1>2
      <4>. QED  BY <1>5, <3>1, <4>1
    <3>. QED  BY <3>1
  <2>2. IsFiniteSet(B)
    BY <1>2, FS_Subset
  <2>3. Cardinality(A) <= Cardinality(B) /\ Cardinality(A) \in Nat /\ Cardinality(B) \in Nat
    BY <2>1, <2>2, FS_Subset, FS_CardinalityType
  <2>4. Cardinality(B) <= Page
    BY DEF PageOf
  <2>5. Cardinality(A) <= Page
    BY <1>2, <2>3, <2>4
  <2>. QED  BY <2>5 DEF PageOf
<1>. QED  BY <1>4, <1>5

\* Up to the cursor of the reply, what the page leaves out is not held, not
\* different or before the cursor of the request.
LEMMA PageReaches ==
    ASSUME NEW mine \in Maps, NEW digest \in Maps, NEW cursor \in Leaves \cup {Start},
           NEW W, W = Wanted(mine, digest, cursor)
    PROVE  /\ CursorAfter(W) \in Leaves \cup {Done}
           /\ \A l \in Leaves : CursorAfter(W) = Done \/ l <= CursorAfter(W) =>
                 l \in PageOf(W) \/ mine[l] = 0 \/ mine[l] = digest[l] \/ l <= cursor
<1>1. W \subseteq Leaves
  BY DEF Wanted
<1>2. CursorAfter(W) \in Leaves \cup {Done}
  BY <1>1, PageFacts DEF CursorAfter
<1>3. ASSUME NEW l \in Leaves, CursorAfter(W) = Done \/ l <= CursorAfter(W), l \in W
      PROVE  l \in PageOf(W)
  <2>1. CASE PageOf(W) = W
    BY <1>3, <2>1
  <2>2. CASE PageOf(W) # W
    <3>1. Last(PageOf(W)) \in Leaves /\ CursorAfter(W) = Last(PageOf(W))
      BY <1>1, <2>2, PageFacts DEF CursorAfter
    <3>2. CursorAfter(W) # Done
      BY <3>1, LeavesAssumption DEF Done
    <3>. QED  BY <1>1, <1>3, <2>2, <3>1, <3>2, PageFacts
  <2>. QED  BY <2>1, <2>2
<1>4. ASSUME NEW l \in Leaves, l \notin W
      PROVE  mine[l] = 0 \/ mine[l] = digest[l] \/ l <= cursor
  <2>1. l \in Nat /\ cursor \in Nat
    BY LeavesAssumption DEF Start
  <2>2. mine[l] # digest[l] => Bucket(l) \in Divergent(mine, digest)
    BY DEF Divergent
  <2>. QED  BY <1>4, <2>1, <2>2 DEF Wanted, Resumes
<1>. QED  BY <1>2, <1>3, <1>4

LEMMA MapValues == ASSUME NEW m \in Maps, NEW l \in Leaves PROVE m[l] \in Nat /\ m[l] <= MaxLeafVersion
BY PagingAssumption DEF Maps

LEMMA RequestFacts ==
    ASSUME PullTypeOK, NEW q \in requests
    PROVE  q.round \in Nat /\ q.digest \in Maps /\ q.cursor \in Leaves \cup {Start}
BY DEF PullTypeOK

LEMMA ReplyFacts ==
    ASSUME PullTypeOK, NEW r \in replies
    PROVE  r.round \in Nat /\ r.page \in Maps /\ r.cursor \in Leaves \cup {Done}
BY DEF PullTypeOK

\* Messages stay covered while the peer owes less and the node keeps what is owed,
\* in the same round or when it is over.
LEMMA StillCovered ==
    ASSUME PullInv, ours' \in Maps, owed' \in Maps,
           \A l \in Leaves : (ours[l] <= ours'[l] \/ owed'[l] = 0) /\ owed'[l] <= owed[l],
           round' = NoRound \/ round'.id = round.id
    PROVE  /\ \A q \in requests : \A l \in Leaves : q.round = round'.id =>
                 /\ q.digest[l] <= ours'[l] \/ owed'[l] = 0
                 /\ l <= q.cursor => owed'[l] <= ours'[l]
           /\ \A r \in replies : \A l \in Leaves :
                 r.round = round'.id /\ (r.cursor = Done \/ l <= r.cursor)
                    => owed'[l] <= ours'[l] \/ owed'[l] <= r.page[l]
<1>1. ASSUME NEW l \in Leaves
      PROVE  /\ ours[l] \in Nat /\ ours'[l] \in Nat /\ owed[l] \in Nat /\ owed'[l] \in Nat
             /\ ours[l] <= ours'[l] \/ owed'[l] = 0
             /\ owed'[l] <= owed[l]
  BY MapValues DEF PullInv, PullTypeOK
<1>2. ASSUME NEW n \in Nat, n = round'.id PROVE n = round.id
  BY <1>2 DEF NoRound
<1>3. ASSUME NEW q \in requests, NEW l \in Leaves, q.round = round'.id
      PROVE  /\ q.digest[l] <= ours'[l] \/ owed'[l] = 0
             /\ l <= q.cursor => owed'[l] <= ours'[l]
  <2>1. q.round \in Nat /\ q.digest[l] \in Nat
    BY RequestFacts, MapValues DEF PullInv
  <2>2. q.round = round.id
    BY <1>2, <1>3, <2>1
  <2>3. /\ q.digest[l] <= ours[l] \/ owed[l] = 0
        /\ l <= q.cursor => owed[l] <= ours[l]
    BY <2>2 DEF PullInv, RequestsAreCovered
  <2>. QED  BY <1>1, <2>1, <2>3
<1>4. ASSUME NEW r \in replies, NEW l \in Leaves, r.round = round'.id, r.cursor = Done \/ l <= r.cursor
      PROVE  owed'[l] <= ours'[l] \/ owed'[l] <= r.page[l]
  <2>1. r.round \in Nat /\ r.page[l] \in Nat
    BY ReplyFacts, MapValues DEF PullInv
  <2>2. r.round = round.id
    BY <1>2, <1>4, <2>1
  <2>3. owed[l] <= ours[l] \/ owed[l] <= r.page[l]
    BY <1>4, <2>2 DEF PullInv, RepliesAreCovered
  <2>. QED  BY <1>1, <2>1, <2>3
<1>. QED  BY <1>3, <1>4

\* The node loses nothing that is owed, no more is owed, and the peer can pay it.
NothingLost ==
    \A l \in Leaves : /\ ours[l] <= ours'[l] \/ owed'[l] = 0
                      /\ owed'[l] <= owed[l] /\ owed'[l] <= theirs'[l]

\* The round goes on or ends.
GoesOn == round' = NoRound \/ (round'.id = round.id /\ round # NoRound)

LEMMA QuietStep ==
    ASSUME PullInv, PullTypeOK', UNCHANGED <<requests, replies>>, corr <= corr', NothingLost, GoesOn
    PROVE  PullInv'
<1>1. ours' \in Maps /\ owed' \in Maps
  BY DEF PullTypeOK
<1>2. RequestsAreCovered' /\ RepliesAreCovered'
  BY <1>1, StillCovered DEF NothingLost, GoesOn, RequestsAreCovered, RepliesAreCovered
<1>3. PeerOwes'
  BY DEF NothingLost, PeerOwes
<1>4. Numbered'
  <2>1. corr \in Nat /\ corr' \in Nat
    BY DEF PullInv, PullTypeOK
  <2>2. ASSUME NEW n \in Nat, n < corr PROVE n < corr'
    BY <2>1, <2>2
  <2>3. \A q \in requests : q.round < corr'
    BY <2>2, RequestFacts DEF PullInv, Numbered
  <2>4. \A r \in replies : r.round < corr'
    BY <2>2, ReplyFacts DEF PullInv, Numbered
  <2>5. round' # NoRound => round'.id < corr'
    <3>. SUFFICES ASSUME round' # NoRound PROVE round'.id < corr'
      OBVIOUS
    <3>1. round.id \in Nat /\ round.id < corr
      BY DEF GoesOn, PullInv, PullTypeOK, Numbered
    <3>. QED  BY <2>2, <3>1 DEF GoesOn
  <2>. QED  BY <2>3, <2>4, <2>5 DEF Numbered
<1>. QED  BY <1>2, <1>3, <1>4 DEF PullInv

LEMMA PullInitInv == PullInit => PullInv
<1>. SUFFICES ASSUME PullInit PROVE PullInv
  OBVIOUS
<1>1. 0..1 \subseteq 0..MaxLeafVersion /\ 0 \in 0..MaxLeafVersion /\ 0 \in 0..MaxRounds /\ 0 \in 0..MaxEdits
  BY PagingAssumption
<1>2. ours \in Maps /\ theirs \in Maps /\ owed \in Maps
  BY <1>1 DEF PullInit, Maps, Empty
<1>3. PullTypeOK
  BY <1>1, <1>2 DEF PullInit, PullTypeOK
<1>4. PeerOwes
  BY <1>2, MapValues DEF PullInit, PeerOwes, Empty
<1>5. Numbered /\ RequestsAreCovered /\ RepliesAreCovered
  BY DEF PullInit, Numbered, RequestsAreCovered, RepliesAreCovered
<1>. QED  BY <1>3, <1>4, <1>5 DEF PullInv

LEMMA StartRoundInv == ASSUME PullInv, StartRound PROVE PullInv'
<1>1. PullTypeOK'
  BY PagingAssumption DEF StartRound, PullInv, PullTypeOK
<1>2. NothingLost /\ GoesOn
  <2>1. \A l \in Leaves : ours[l] <= ours[l] /\ owed[l] <= owed[l] /\ owed[l] <= theirs[l]
    BY MapValues DEF PullInv, PullTypeOK, PeerOwes
  <2>2. NothingLost
    BY <2>1 DEF NothingLost, StartRound
  <2>3. GoesOn
    BY DEF GoesOn, StartRound
  <2>. QED  BY <2>2, <2>3
<1>3. corr <= corr'
  BY DEF StartRound, PullInv, PullTypeOK
<1>. QED  BY <1>1, <1>2, <1>3, QuietStep DEF StartRound

LEMMA PeerSelectedInv == ASSUME PullInv, NEW s \in selections, PeerSelected(s) PROVE PullInv'
<1>. DEFINE q0 == [round |-> corr, digest |-> ours, cursor |-> Start]
<1>0. corr \in Nat /\ ours \in Maps /\ theirs \in Maps
  BY DEF PullInv, PullTypeOK
<1>1. /\ requests' = requests \cup {q0} /\ replies' = replies
      /\ ours' = ours /\ owed' = theirs /\ theirs' = theirs /\ corr' = corr + 2
      /\ round' = [id |-> corr, exchanges |-> 0, timer |-> corr + 1]
  BY DEF PeerSelected, Request
<1>2. q0 \in [round : Nat, digest : Maps, cursor : Leaves \cup {Start}]
  BY <1>0
<1>3. q0.round = corr /\ q0.digest = ours /\ q0.cursor = Start
  OBVIOUS
<1>. HIDE DEF q0
<1>4. round' \in [id : Nat, exchanges : 0..(MaxExchanges - 1), timer : Nat] /\ round'.id = corr
  BY <1>0, <1>1, PagingAssumption
<1>5. PullTypeOK'
  BY <1>0, <1>1, <1>2, <1>4 DEF PeerSelected, PullInv, PullTypeOK
<1>6. PeerOwes'
  BY <1>0, <1>1, MapValues DEF PeerOwes
<1>7. \A q \in requests : q.round < corr /\ q.round \in Nat
  BY RequestFacts DEF PullInv, Numbered
<1>8. \A r \in replies : r.round < corr /\ r.round \in Nat
  BY ReplyFacts DEF PullInv, Numbered
<1>9. Numbered'
  BY <1>0, <1>1, <1>3, <1>4, <1>7, <1>8 DEF Numbered
<1>10. RequestsAreCovered'
  <2>. SUFFICES ASSUME NEW q \in requests', NEW l \in Leaves, q.round = corr
                PROVE  q.digest[l] <= ours[l] /\ (l <= q.cursor => theirs[l] <= ours[l])
    BY <1>1, <1>4 DEF RequestsAreCovered
  <2>1. q = q0
    BY <1>0, <1>1, <1>7
  <2>2. ~(l <= Start)
    BY LeavesAssumption DEF Start
  <2>. QED  BY <1>0, <1>3, <2>1, <2>2, MapValues
<1>11. RepliesAreCovered'
  BY <1>0, <1>1, <1>4, <1>8 DEF RepliesAreCovered
<1>. QED  BY <1>5, <1>6, <1>9, <1>10, <1>11 DEF PullInv

LEMMA NobodySelectedInv == ASSUME PullInv, NEW s \in selections, NobodySelected(s) PROVE PullInv'
<1>1. PullTypeOK'
  BY DEF NobodySelected, PullInv, PullTypeOK
<1>2. NothingLost /\ GoesOn
  <2>1. \A l \in Leaves : ours[l] <= ours[l] /\ owed[l] <= owed[l] /\ owed[l] <= theirs[l]
    BY MapValues DEF PullInv, PullTypeOK, PeerOwes
  <2>2. NothingLost
    BY <2>1 DEF NothingLost, NobodySelected
  <2>3. GoesOn
    BY DEF GoesOn, NobodySelected
  <2>. QED  BY <2>2, <2>3
<1>3. corr <= corr
  BY DEF PullInv, PullTypeOK
<1>. QED  BY <1>1, <1>2, <1>3, QuietStep DEF NobodySelected

LEMMA TimerInv == ASSUME PullInv, NEW t \in armed, Timer(t) PROVE PullInv'
<1>1. PullTypeOK'
  BY DEF Timer, PullInv, PullTypeOK
<1>2. NothingLost /\ GoesOn
  <2>1. \A l \in Leaves : ours[l] <= ours[l] /\ owed[l] <= owed[l] /\ owed[l] <= theirs[l]
    BY MapValues DEF PullInv, PullTypeOK, PeerOwes
  <2>2. NothingLost
    BY <2>1 DEF NothingLost, Timer
  <2>3. GoesOn
    BY DEF GoesOn, Timer
  <2>. QED  BY <2>2, <2>3
<1>3. corr <= corr
  BY DEF PullInv, PullTypeOK
<1>. QED  BY <1>1, <1>2, <1>3, QuietStep DEF Timer

\* One leaf of a map moves on.
LEMMA LeafMoves ==
    ASSUME NEW m \in Maps, NEW l \in Leaves, m[l] < MaxLeafVersion, NEW n, n = [m EXCEPT ![l] = @ + 1]
    PROVE  n \in Maps /\ \A k \in Leaves : m[k] <= n[k]
<1>1. m[l] + 1 \in 0..MaxLeafVersion
  BY MapValues, PagingAssumption
<1>2. \A k \in Leaves : n[k] = IF k = l THEN m[l] + 1 ELSE m[k]
  BY DEF Maps
<1>3. \A k \in Leaves : m[k] <= n[k]
  BY <1>2, MapValues
<1>. QED  BY <1>1, <1>3 DEF Maps

LEMMA AdoptsInv == ASSUME PullInv, NEW l \in Leaves, Adopts(l) PROVE PullInv'
<1>1. ours' \in Maps /\ \A k \in Leaves : ours[k] <= ours'[k]
  BY LeafMoves DEF Adopts, PullInv, PullTypeOK
<1>2. PullTypeOK'
  BY <1>1, PagingAssumption DEF Adopts, PullInv, PullTypeOK
<1>3. \A k \in Leaves : owed[k] <= owed[k] /\ owed[k] <= theirs[k]
  BY MapValues DEF PullInv, PullTypeOK, PeerOwes
<1>4. NothingLost /\ GoesOn
  <2>1. NothingLost
    BY <1>1, <1>3 DEF NothingLost, Adopts
  <2>2. GoesOn
    BY DEF GoesOn, Adopts
  <2>. QED  BY <2>1, <2>2
<1>5. corr <= corr
  BY DEF PullInv, PullTypeOK
<1>. QED  BY <1>2, <1>4, <1>5, QuietStep DEF Adopts

LEMMA PeerAdoptsInv == ASSUME PullInv, NEW l \in Leaves, PeerAdopts(l) PROVE PullInv'
<1>1. theirs' \in Maps /\ \A k \in Leaves : theirs[k] <= theirs'[k]
  BY LeafMoves DEF PeerAdopts, PullInv, PullTypeOK
<1>2. PullTypeOK'
  BY <1>1, PagingAssumption DEF PeerAdopts, PullInv, PullTypeOK
<1>3. ASSUME NEW k \in Leaves PROVE ours[k] <= ours[k] /\ owed[k] <= owed[k] /\ owed[k] <= theirs'[k]
  <2>1. ours[k] \in Nat /\ owed[k] \in Nat /\ theirs[k] \in Nat /\ theirs'[k] \in Nat
    BY <1>1, MapValues DEF PullInv, PullTypeOK
  <2>2. owed[k] <= theirs[k] /\ theirs[k] <= theirs'[k]
    BY <1>1 DEF PullInv, PeerOwes
  <2>. QED  BY <2>1, <2>2
<1>4. NothingLost /\ GoesOn
  <2>1. NothingLost
    BY <1>3 DEF NothingLost, PeerAdopts
  <2>2. GoesOn
    BY DEF GoesOn, PeerAdopts
  <2>. QED  BY <2>1, <2>2
<1>5. corr <= corr
  BY DEF PullInv, PullTypeOK
<1>. QED  BY <1>2, <1>4, <1>5, QuietStep DEF PeerAdopts

LEMMA PeerDropsInv == ASSUME PullInv, NEW l \in Leaves, PeerDrops(l) PROVE PullInv'
<1>0. ours \in Maps /\ theirs \in Maps /\ owed \in Maps /\ 0 \in 0..MaxLeafVersion
  BY PagingAssumption DEF PullInv, PullTypeOK
<1>1. theirs' \in Maps /\ owed' \in Maps
  BY <1>0 DEF PeerDrops, Excused, Maps
<1>2. PullTypeOK'
  BY <1>1, PagingAssumption DEF PeerDrops, PullInv, PullTypeOK
<1>3. ASSUME NEW k \in Leaves PROVE ours[k] <= ours[k] /\ owed'[k] <= owed[k] /\ owed'[k] <= theirs'[k]
  <2>1. ours[k] \in Nat /\ owed[k] \in Nat /\ theirs[k] \in Nat
    BY <1>0, MapValues
  <2>2. owed'[k] = (IF k = l THEN 0 ELSE owed[k]) /\ theirs'[k] = (IF k = l THEN 0 ELSE theirs[k])
    BY <1>0 DEF PeerDrops, Excused, Maps
  <2>3. owed[k] <= theirs[k]
    BY DEF PullInv, PeerOwes
  <2>. QED  BY <2>1, <2>2, <2>3
<1>4. NothingLost /\ GoesOn
  <2>1. NothingLost
    BY <1>3 DEF NothingLost, PeerDrops
  <2>2. GoesOn
    BY DEF GoesOn, PeerDrops
  <2>. QED  BY <2>1, <2>2
<1>5. corr <= corr
  BY DEF PullInv, PullTypeOK
<1>. QED  BY <1>2, <1>4, <1>5, QuietStep DEF PeerDrops

LEMMA DropsInv == ASSUME PullInv, NEW l \in Leaves, Drops(l) PROVE PullInv'
<1>0. ours \in Maps /\ theirs \in Maps /\ owed \in Maps /\ 0 \in 0..MaxLeafVersion
  BY PagingAssumption DEF PullInv, PullTypeOK
<1>1. ours' \in Maps /\ owed' \in Maps
  BY <1>0 DEF Drops, Excused, Maps
<1>2. PullTypeOK'
  BY <1>1, PagingAssumption DEF Drops, PullInv, PullTypeOK
<1>3. ASSUME NEW k \in Leaves
      PROVE  /\ ours[k] <= ours'[k] \/ owed'[k] = 0
             /\ owed'[k] <= owed[k] /\ owed'[k] <= theirs[k]
  <2>1. ours[k] \in Nat /\ owed[k] \in Nat /\ theirs[k] \in Nat
    BY <1>0, MapValues
  <2>2. owed'[k] = (IF k = l THEN 0 ELSE owed[k]) /\ (k # l => ours'[k] = ours[k])
    BY <1>0 DEF Drops, Excused, Maps
  <2>3. owed[k] <= theirs[k]
    BY DEF PullInv, PeerOwes
  <2>. QED  BY <2>1, <2>2, <2>3
<1>4. NothingLost /\ GoesOn
  <2>1. NothingLost
    BY <1>3 DEF NothingLost, Drops
  <2>2. GoesOn
    BY DEF GoesOn, Drops
  <2>. QED  BY <2>1, <2>2
<1>5. corr <= corr
  BY DEF PullInv, PullTypeOK
<1>. QED  BY <1>2, <1>4, <1>5, QuietStep DEF Drops

\* What handle_pull_reply merges is kept and what it held is not lost, except where
\* a record was refused or removed.
LEMMA MergeFacts ==
    ASSUME NEW m \in Maps, NEW page \in Maps, NEW refused, NEW removed,
           NEW n, n = Merge(m, page, refused, removed)
    PROVE  n \in Maps /\ \A l \in Leaves \ (refused \cup removed) : m[l] <= n[l] /\ page[l] <= n[l]
<1>1. \A l \in Leaves \ (refused \cup removed) : n[l] = IF page[l] > m[l] THEN page[l] ELSE m[l]
  BY DEF Merge, News
<1>2. n \in Maps
  BY PagingAssumption DEF Merge, Maps
<1>. QED  BY <1>1, <1>2, MapValues

\* A page of this round has arrived: what is owed up to its cursor is held.
LEMMA ReplyCatchesUp ==
    ASSUME PullInv, NEW r \in replies, NEW refused, NEW removed, ReplyMerged(r, refused, removed)
    PROVE  /\ ours' \in Maps /\ owed' \in Maps
           /\ \A l \in Leaves : /\ ours[l] <= ours'[l] \/ owed'[l] = 0
                                /\ owed'[l] <= owed[l]
                                /\ r.cursor = Done \/ l <= r.cursor => owed'[l] <= ours'[l]
<1>1. ours \in Maps /\ owed \in Maps /\ r.page \in Maps
  BY ReplyFacts DEF PullInv, PullTypeOK
<1>2. /\ ours' \in Maps
      /\ \A l \in Leaves \ (refused \cup removed) : ours[l] <= ours'[l] /\ r.page[l] <= ours'[l]
  BY <1>1, MergeFacts DEF ReplyMerged
<1>3. owed' \in Maps /\ \A l \in Leaves : owed'[l] = IF l \in refused \cup removed THEN 0 ELSE owed[l]
  BY <1>1, PagingAssumption DEF ReplyMerged, Excused, Maps
<1>4. ASSUME NEW l \in Leaves
      PROVE  /\ ours[l] <= ours'[l] \/ owed'[l] = 0
             /\ owed'[l] <= owed[l]
             /\ r.cursor = Done \/ l <= r.cursor => owed'[l] <= ours'[l]
  <2>1. r.cursor = Done \/ l <= r.cursor => owed[l] <= ours[l] \/ owed[l] <= r.page[l]
    BY DEF PullInv, RepliesAreCovered, ReplyMerged, Answers
  <2>2. ours[l] \in Nat /\ ours'[l] \in Nat /\ owed[l] \in Nat /\ r.page[l] \in Nat
    BY <1>1, <1>2, MapValues
  <2>. QED  BY <1>2, <1>3, <2>1, <2>2
<1>. QED  BY <1>2, <1>3, <1>4

LEMMA PullReplyInv ==
    ASSUME PullInv, NEW r \in replies, NEW refused, NEW removed, ReplyMerged(r, refused, removed)
    PROVE  PullInv'
<1>1. /\ ours' \in Maps /\ owed' \in Maps
      /\ \A l \in Leaves : (ours[l] <= ours'[l] \/ owed'[l] = 0) /\ owed'[l] <= owed[l]
  BY ReplyCatchesUp
<1>2. UNCHANGED <<theirs, selections, asked, replies>> /\ edits' \in 0..MaxEdits
  BY PagingAssumption DEF ReplyMerged, Takes, PullInv, PullTypeOK
<1>3. NothingLost
  <2>1. ASSUME NEW l \in Leaves PROVE owed'[l] <= theirs[l]
    <3>1. owed'[l] \in Nat /\ owed[l] \in Nat /\ theirs[l] \in Nat
      BY <1>1, MapValues DEF PullInv, PullTypeOK
    <3>2. owed[l] <= theirs[l] /\ owed'[l] <= owed[l]
      BY <1>1 DEF PullInv, PeerOwes
    <3>. QED  BY <3>1, <3>2
  <2>. QED  BY <1>1, <1>2, <2>1 DEF NothingLost
<1>4. /\ round # NoRound /\ round.id = r.round
      /\ round \in [id : Nat, exchanges : 0..(MaxExchanges - 1), timer : Nat]
  BY DEF ReplyMerged, Answers, PullInv, PullTypeOK
<1>5. CASE r.cursor = Done \/ Spent(round.exchanges + 1)
  <2>1. round' = NoRound /\ armed' = armed \ {round.timer} /\ UNCHANGED <<corr, requests>>
    BY <1>5 DEF ReplyMerged
  <2>2. PullTypeOK'
    BY <1>1, <1>2, <2>1 DEF PullInv, PullTypeOK
  <2>3. GoesOn /\ corr <= corr'
    BY <2>1 DEF GoesOn, PullInv, PullTypeOK
  <2>. QED  BY <1>2, <1>3, <2>1, <2>2, <2>3, QuietStep
<1>6. CASE ~(r.cursor = Done \/ Spent(round.exchanges + 1))
  <2>. DEFINE q0 == [round |-> round.id, digest |-> ours', cursor |-> r.cursor]
  <2>1. /\ round' = [round EXCEPT !.exchanges = @ + 1, !.timer = corr]
        /\ armed' = (armed \ {round.timer}) \cup {corr} /\ corr' = corr + 1
        /\ requests' = requests \cup {q0}
    BY <1>6 DEF ReplyMerged, Request, Rearm
  <2>2. corr \in Nat /\ r.cursor \in Leaves
    BY <1>6, ReplyFacts DEF PullInv, PullTypeOK
  <2>3. q0 \in [round : Nat, digest : Maps, cursor : Leaves \cup {Start}]
    BY <1>1, <1>4, <2>2
  <2>4. q0.round = round.id /\ q0.digest = ours' /\ q0.cursor = r.cursor
    OBVIOUS
  <2>. HIDE DEF q0
  <2>5. round' \in [id : Nat, exchanges : 0..(MaxExchanges - 1), timer : Nat] /\ round'.id = round.id
    <3>1. round.exchanges + 1 \in 0..(MaxExchanges - 1)
      BY <1>4, <1>6, PagingAssumption DEF Spent
    <3>. QED  BY <1>4, <2>1, <2>2, <3>1
  <2>6. PullTypeOK'
    <3>1. armed' \subseteq Nat /\ corr' \in Nat
      BY <2>1, <2>2 DEF PullInv, PullTypeOK
    <3>2. requests' \subseteq [round : Nat, digest : Maps, cursor : Leaves \cup {Start}]
      BY <2>1, <2>3 DEF PullInv, PullTypeOK
    <3>. QED  BY <1>1, <1>2, <2>5, <3>1, <3>2 DEF PullInv, PullTypeOK
  <2>7. Numbered'
    <3>1. \A q \in requests : q.round < corr + 1
      BY <2>2, RequestFacts DEF PullInv, Numbered
    <3>2. \A q \in replies : q.round < corr + 1
      BY <2>2, ReplyFacts DEF PullInv, Numbered
    <3>3. round.id < corr + 1
      BY <1>4, <2>2 DEF PullInv, Numbered
    <3>. QED  BY <1>2, <2>1, <2>4, <2>5, <3>1, <3>2, <3>3 DEF Numbered
  <2>8. PeerOwes'
    BY <1>3 DEF NothingLost, PeerOwes
  <2>9. owed' \in Maps
    BY <2>6 DEF PullTypeOK
  <2>10. RepliesAreCovered'
    BY <1>1, <1>2, <1>3, <2>5, <2>9, StillCovered DEF NothingLost, RepliesAreCovered
  <2>11. RequestsAreCovered'
    <3>. SUFFICES ASSUME NEW q \in requests', NEW l \in Leaves, q.round = round'.id
                  PROVE  /\ q.digest[l] <= ours'[l] \/ owed'[l] = 0
                         /\ l <= q.cursor => owed'[l] <= ours'[l]
      BY DEF RequestsAreCovered
    <3>1. CASE q \in requests
      BY <1>1, <1>2, <1>3, <2>5, <2>9, <3>1, StillCovered DEF NothingLost
    <3>2. CASE q = q0
      <4>1. q.digest[l] <= ours'[l]
        BY <1>1, <2>4, <3>2, MapValues
      <4>2. l <= q.cursor => owed'[l] <= ours'[l]
        BY <2>4, <3>2, ReplyCatchesUp
      <4>. QED  BY <4>1, <4>2
    <3>. QED  BY <2>1, <3>1, <3>2
  <2>. QED  BY <2>6, <2>7, <2>8, <2>10, <2>11 DEF PullInv
<1>. QED  BY <1>5, <1>6

LEMMA PullRequestInv == ASSUME PullInv, NEW q \in requests, PullRequest(q) PROVE PullInv'
<1>. DEFINE W == Wanted(theirs, q.digest, q.cursor)
            p == [l \in Leaves |-> IF l \in PageOf(W) THEN theirs[l] ELSE 0]
            r0 == [round |-> q.round, page |-> p, cursor |-> CursorAfter(W)]
<1>1. /\ replies' = replies \cup {r0}
      /\ UNCHANGED <<ours, theirs, round, selections, asked, corr, armed, requests, edits, owed>>
  BY DEF PullRequest
<1>2. q.round \in Nat /\ q.digest \in Maps /\ q.cursor \in Leaves \cup {Start}
  BY RequestFacts DEF PullInv
<1>3. theirs \in Maps /\ ours \in Maps /\ owed \in Maps
  BY DEF PullInv, PullTypeOK
<1>4. p \in Maps /\ \A l \in Leaves : l \in PageOf(W) => p[l] = theirs[l]
  BY <1>3, PagingAssumption DEF Maps
<1>5. /\ CursorAfter(W) \in Leaves \cup {Done}
      /\ \A l \in Leaves : CursorAfter(W) = Done \/ l <= CursorAfter(W) =>
            l \in PageOf(W) \/ theirs[l] = 0 \/ theirs[l] = q.digest[l] \/ l <= q.cursor
  BY <1>2, <1>3, PageReaches
<1>. HIDE DEF W, p
<1>6. r0 \in [round : Nat, page : Maps, cursor : Leaves \cup {Done}]
  BY <1>2, <1>4, <1>5
<1>7. r0.round = q.round /\ r0.page = p /\ r0.cursor = CursorAfter(W)
  OBVIOUS
<1>. HIDE DEF r0
<1>8. PullTypeOK'
  BY <1>1, <1>6 DEF PullInv, PullTypeOK
<1>9. Numbered'
  BY <1>1, <1>7 DEF PullInv, Numbered
<1>10. PeerOwes' /\ RequestsAreCovered'
  BY <1>1 DEF PullInv, PeerOwes, RequestsAreCovered
<1>11. RepliesAreCovered'
  <2>. SUFFICES ASSUME NEW r \in replies', NEW l \in Leaves, r.round = round.id,
                       r.cursor = Done \/ l <= r.cursor
                PROVE  owed[l] <= ours[l] \/ owed[l] <= r.page[l]
    BY <1>1 DEF RepliesAreCovered
  <2>1. CASE r \in replies
    BY <2>1 DEF PullInv, RepliesAreCovered
  <2>2. CASE r = r0
    <3>1. q.round = round.id /\ (CursorAfter(W) = Done \/ l <= CursorAfter(W)) /\ r.page = p
      BY <1>7, <2>2
    <3>2. owed[l] <= theirs[l]
      BY DEF PullInv, PeerOwes
    <3>3. /\ q.digest[l] <= ours[l] \/ owed[l] = 0
          /\ l <= q.cursor => owed[l] <= ours[l]
      BY <3>1 DEF PullInv, RequestsAreCovered
    <3>4. /\ theirs[l] \in Nat /\ ours[l] \in Nat /\ owed[l] \in Nat /\ q.digest[l] \in Nat
      BY <1>2, <1>3, MapValues
    <3>5. CASE l \in PageOf(W)
      BY <1>4, <3>1, <3>2, <3>5
    <3>6. CASE theirs[l] = 0 \/ theirs[l] = q.digest[l] \/ l <= q.cursor
      BY <3>2, <3>3, <3>4, <3>6
    <3>. QED  BY <1>5, <3>1, <3>5, <3>6
  <2>. QED  BY <1>1, <2>1, <2>2
<1>. QED  BY <1>8, <1>9, <1>10, <1>11 DEF PullInv

LEMMA PullNextInv == PullInv /\ [PullNext]_pullVars => PullInv'
<1>. SUFFICES ASSUME PullInv, [PullNext]_pullVars PROVE PullInv'
  OBVIOUS
<1>1. CASE UNCHANGED pullVars
  BY <1>1 DEF pullVars, PullInv, PullTypeOK, Numbered, PeerOwes, RequestsAreCovered, RepliesAreCovered
<1>2. CASE PullNext
  BY <1>2, StartRoundInv, PeerSelectedInv, NobodySelectedInv, PullReplyInv, TimerInv, PullRequestInv,
     AdoptsInv, DropsInv, PeerAdoptsInv, PeerDropsInv DEF PullNext, PullReply
<1>. QED  BY <1>1, <1>2

\* Both sides of a round keep their types; a round never runs past the exchanges
\* max_anti_entropy_rounds allows and a cursor always names a leaf.
THEOREM PullTypeCorrect == PullSpec => []PullTypeOK
<1>1. PullInv => PullTypeOK
  BY DEF PullInv
<1>. QED  BY PullInitInv, PullNextInv, <1>1, PTL DEF PullSpec

\* A round that ends complete has caught up with the peer, except for what either
\* side dropped or the merge refused meanwhile, for every number of leaves, bucket
\* size and page limit: a page is a prefix of what differs and handle_pull_request
\* resumes strictly after the cursor.
THEOREM CompleteMeansCaughtUp == PullSpec => CompleteRoundCatchesUp
<1>. DEFINE CaughtUp == \A r \in replies : r.cursor = Done /\ PullReply(r) =>
                           \A l \in Leaves : ours'[l] >= owed'[l]
<1>1. ASSUME PullInv PROVE CaughtUp
  <2>. SUFFICES ASSUME NEW r \in replies, r.cursor = Done, PullReply(r), NEW l \in Leaves
                PROVE  ours'[l] >= owed'[l]
    OBVIOUS
  <2>1. owed'[l] <= ours'[l] /\ ours' \in Maps /\ owed' \in Maps
    BY <1>1, ReplyCatchesUp DEF PullReply
  <2>2. owed'[l] \in Nat /\ ours'[l] \in Nat
    BY <2>1, MapValues
  <2>. QED  BY <2>1, <2>2
<1>2. PullInv => [CaughtUp]_pullVars
  BY <1>1
<1>. HIDE DEF CaughtUp
<1>3. PullSpec => [][CaughtUp]_pullVars
  BY PullInitInv, PullNextInv, <1>2, PTL DEF PullSpec
<1>. QED  BY <1>3 DEF CompleteRoundCatchesUp, CaughtUp
=============================================================================
