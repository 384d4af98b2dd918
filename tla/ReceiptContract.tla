--------------------------- MODULE ReceiptContract ---------------------------
(***************************************************************************)
(* What a worker promises about identified operations, whatever happens to *)
(* it: an operation is recorded before it can take effect, takes effect at *)
(* most once, and a recorded outcome is true for ever.  "Applied" is said  *)
(* only of what happened and "refused" only of what did not and never will.*)
(* "Indeterminate" says nothing about the past and rules out the future.   *)
(*                                                                         *)
(* RunService is shown to implement this, and RunClient is written against *)
(* it.                                                                     *)
(***************************************************************************)
CONSTANTS
    Keys,       \* the namespace of operations: formation and operation ID
    Requests,   \* complete immutable requests
    KeyOf(_)    \* the key of a request

VARIABLES
    log,        \* per key, the durable receipt or Absent
    done        \* the requests that have taken effect

contractVars == <<log, done>>

Absent == [st |-> "absent"]

Receipt(r, s) == [st |-> s, req |-> r]

Outcomes == {"applied", "refused", "indeterminate"}

ContractInit ==
    /\ log = [k \in Keys |-> Absent]
    /\ done = {}

\* The intent of a request is recorded under a key nobody has used.
Reserve(r) ==
    /\ log[KeyOf(r)] = Absent
    /\ log' = [log EXCEPT ![KeyOf(r)] = Receipt(r, "pending")]
    /\ UNCHANGED done

\* A recorded request takes effect, once, and before its outcome is recorded.
Perform(r) ==
    /\ log[KeyOf(r)] = Receipt(r, "pending")
    /\ r \notin done
    /\ done' = done \cup {r}
    /\ UNCHANGED log

\* An outcome is recorded, and is true.
Settle(r, s) ==
    /\ log[KeyOf(r)] = Receipt(r, "pending")
    /\ s = "applied" => r \in done
    /\ s = "refused" => r \notin done
    /\ log' = [log EXCEPT ![KeyOf(r)] = Receipt(r, s)]
    /\ UNCHANGED done

\* A restart settles everything unfinished at once, and claims nothing.
Recover ==
    /\ log' = [k \in Keys |-> IF log[k].st = "pending"
                              THEN Receipt(log[k].req, "indeterminate")
                              ELSE log[k]]
    /\ UNCHANGED done

ContractNext ==
    \/ \E r \in Requests : Reserve(r) \/ Perform(r) \/ \E s \in Outcomes : Settle(r, s)
    \/ Recover

ContractSpec == ContractInit /\ [][ContractNext]_contractVars

=============================================================================
