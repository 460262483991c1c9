------------------------------- MODULE MCParts -------------------------------
(* Model checking of four modules that share no variable: MemberInteractions,   *)
(* AbuseLimits, DraftCreation and SandboxSupervisor.  A behaviour follows one   *)
(* of them.  Pages are interchangeable.                                         *)
EXTENDS MemberInteractions, AbuseLimits, DraftCreation, SandboxSupervisor, TLC

CONSTANTS n1, a1, i1

VARIABLE part

TwoPerNetwork == [s \in Subjects |-> IF s \in Networks THEN 2 ELSE 1]

PartsInit == /\ Init /\ LimitsInit /\ CreationInit /\ SupervisorInit
             /\ part \in {"interactions", "limits", "creation", "sandbox"}

PartsNext ==
    \/ part = "interactions" /\ Next /\ UNCHANGED <<limitVars, creationVars, supervisorVars, part>>
    \/ part = "limits" /\ LimitsNext /\ UNCHANGED <<vars, creationVars, supervisorVars, part>>
    \/ part = "creation" /\ CreationNext /\ UNCHANGED <<vars, limitVars, supervisorVars, part>>
    \/ part = "sandbox" /\ SupervisorNext /\ UNCHANGED <<vars, limitVars, creationVars, part>>

PartsSpec == PartsInit /\ [][PartsNext]_<<vars, limitVars, creationVars, supervisorVars, part>>

Symmetry == Permutations(Pages)
=============================================================================
