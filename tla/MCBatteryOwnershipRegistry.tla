--------------------- MODULE MCBatteryOwnershipRegistry ---------------------
(* Finite instance of BatteryOwnershipRegistry for TLC.                     *)
EXTENDS BatteryOwnershipRegistry, TLC, FiniteSets

Symmetric == Permutations(OrganizationIds) \cup Permutations(ProposalIds) \cup Permutations(SubjectIds)

(* Two batteries in depth, one of them changing hands, or all subjects in   *)
(* breadth, without proposals and changes of hands.                         *)
Mentioned ==
    {s \in SubjectIds : subjects[s].registered}
        \cup ({initialOwnershipProposals[p].batteryId : p \in ProposalIds} \ {Zero})

DepthOrBreadth ==
    \/ /\ Cardinality(Mentioned) <= 2
       /\ Cardinality({b \in SubjectIds : Len(ownershipTransitions[b]) > 1}) <= 1
    \/ /\ \A p \in ProposalIds : initialOwnershipProposals[p] = NoProposal
       /\ \A b \in SubjectIds : Len(ownershipTransitions[b]) <= 1
       /\ \A b, c \in SubjectIds : batteries[b].registered /\ batteries[c].registered =>
             batteries[b].recordedOwner = batteries[c].recordedOwner
============================================================================
