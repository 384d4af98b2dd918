----------------------------- MODULE Decisions -----------------------------
(***************************************************************************)
(* What a formation promises about what its operators decide, whatever     *)
(* becomes of messages and nodes.  The policy is a register and so is the  *)
(* tombstone of every node.  A decision can be made at any node, on what   *)
(* that node knows; it is newer than anything the node knew and carries a  *)
(* version that no other decision on the register ever has.  A node holds  *)
(* nothing but decisions that were made, and goes from one to the next     *)
(* only forwards, until it leaves.                                         *)
(*                                                                         *)
(* Formation is shown to implement this.                                   *)
(***************************************************************************)
EXTENDS Integers

CONSTANTS
    Holders,    \* the nodes
    Registers   \* what is decided on

VARIABLES
    made,       \* register -> the decisions made
    held        \* node -> register -> the decision it holds, as a set of at most one

decisionVars == <<made, held>>

\* VersionTuple's derived order.
Older(v, w) ==
    \/ v.counter < w.counter
    \/ v.counter = w.counter /\ v.actor < w.actor

\* A node that holds H goes on to decision d, a record with a version.
MovesOn(H, d) == \A e \in H : Older(e.ver, d.ver)

Nothing == [k \in Registers |-> {}]

DecisionsInit ==
    /\ made = Nothing
    /\ held = [n \in Holders |-> Nothing]

Hold(n, k, d) == held' = [held EXCEPT ![n][k] = {d}]

\* An operator decides at node n.
Decide(n, k, d) ==
    /\ \A e \in made[k] : e.ver # d.ver
    /\ MovesOn(held[n][k], d)
    /\ made' = [made EXCEPT ![k] = @ \cup {d}]
    /\ Hold(n, k, d)

\* merge_policy, merge_tombstone: node n is told of a decision.
Learn(n, k, d) ==
    /\ d \in made[k]
    /\ MovesOn(held[n][k], d)
    /\ Hold(n, k, d)
    /\ UNCHANGED made

\* baseline::merge: node n takes over all that src holds and n does not yet.
CatchUp(n, src) ==
    /\ held' = [held EXCEPT ![n] =
                  [k \in Registers |-> IF \E d \in held[src][k] : MovesOn(held[n][k], d)
                                       THEN held[src][k] ELSE held[n][k]]]
    /\ UNCHANGED made

\* Node n is gone.
Forget(n) ==
    /\ held' = [held EXCEPT ![n] = Nothing]
    /\ UNCHANGED made

\* A decision is among those made when the step is over, whatever it says.
DecisionsNext ==
    \E n \in Holders :
       \/ \E k \in Registers : \E d \in made'[k] : Decide(n, k, d) \/ Learn(n, k, d)
       \/ \E src \in Holders : CatchUp(n, src)
       \/ Forget(n)

DecisionsSpec == DecisionsInit /\ [][DecisionsNext]_decisionVars

\* Two decisions on one register never share a version, so no record that a node
\* is told of ever contradicts the one it holds (Diagnostic::VersionConflict).
OneDecisionPerVersion ==
    \A k \in Registers : \A d, e \in made[k] : d.ver = e.ver => d = e
=============================================================================
