------------------------ MODULE MCKnowledgeMembership ------------------------
(* TLC instances of the membership of a knowledge base. *)
EXTENDS KnowledgeMembership, TLC

CallSymmetry == Permutations(Calls) \cup Permutations(Streams)

AllOps == {"accept", "revokeInvite", "create", "decide", "revoke", "changeRole",
           "updateUserRole", "assign", "provision", "deleteStream", "toggle"}

=============================================================================
