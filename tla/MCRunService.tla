---------------------------- MODULE MCRunService ----------------------------
(* Small instances of RunService.                                          *)
EXTENDS RunService

Load(i, f) == [lane |-> "load", id |-> i, form |-> f, what |-> "w"]
Command(i, f, k, n) == [lane |-> "cmd", id |-> i, form |-> f, epoch |-> 1, kind |-> k, at |-> n]

MCLoads == {Load(1, 1), Load(2, 1), Load(3, 1)}
MCCommands == {Command(i, 1, k, 0) : i \in {1, 2}, k \in {"step", "finish"}}

=============================================================================
