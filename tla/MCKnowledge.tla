---------------------------- MODULE MCKnowledge ----------------------------
(***************************************************************************)
(* TLC instance of KnowledgeIndex.  Either no agent is deleted, and a job  *)
(* meets two faults or two jobs meet one; or an agent is, with a job and a *)
(* fault or with two jobs and none.                                        *)
(***************************************************************************)
EXTENDS KnowledgeIndex

CONSTANT Doomed   \* the agent that may be deleted

VARIABLE kept     \* the agents that are not

KnowledgeInit ==
    /\ Init
    /\ kept \in {Agents, Agents \ {Doomed}}
    /\ row.agent \in {None, Doomed}

KnowledgeNext ==
    /\ Next
    /\ \A a \in kept : agents'[a] = "here"
    /\ Len(jobs') + faults' =< IF Doomed \in kept THEN 3 ELSE 2
    /\ UNCHANGED kept

KnowledgeSpec == KnowledgeInit /\ [][KnowledgeNext]_<<vars, kept>> /\ Fairness
=============================================================================
