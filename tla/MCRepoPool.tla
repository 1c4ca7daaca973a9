------------------------------ MODULE MCRepoPool ------------------------------
(***************************************************************************)
(* The two adapters: a connection for every worker, and one for all.       *)
(***************************************************************************)
EXTENDS RepoPool, TLC

CONSTANTS w1, w2, client

TwoWorkers == {w1, w2}
OneConnection == {client}

Own == [w \in Workers |-> w]
Shared == [w \in Workers |-> client]
=============================================================================
