------------------------------- MODULE MCTables -------------------------------
(***************************************************************************)
(* PendingApprovals and AgentCache on small instances.  The two share no   *)
(* state: a behaviour is about one of them, and the other stays where it   *)
(* started.                                                                *)
(***************************************************************************)
EXTENDS PendingApprovals, AgentCache, TLC

VARIABLE subject

TablesInit ==
    /\ Init
    /\ AgentInit
    /\ subject \in {"approvals", "agent"}

TablesNext ==
    /\ UNCHANGED subject
    /\ \/ subject = "approvals" /\ Next /\ UNCHANGED agentVars
       \/ subject = "agent" /\ AgentNext /\ UNCHANGED vars

TablesSpec == TablesInit /\ [][TablesNext]_<<vars, agentVars, subject>>

Concurrent == Permutations(Requests)
===============================================================================
