---------------------------- MODULE MCRunClient ----------------------------
(* Small instances of RunClient.                                           *)
EXTENDS RunClient

MCLoads == {[lane |-> "load", id |-> 1, work |-> "w"], [lane |-> "load", id |-> 2, work |-> "v"]}
MCCommands == {[lane |-> "cmd", id |-> i] : i \in {1, 2}}

=============================================================================
