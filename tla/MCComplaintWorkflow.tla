---------------------------- MODULE MCComplaintWorkflow ----------------------------
(* Instances of ComplaintWorkflow for TLC. *)
EXTENDS ComplaintWorkflow, TLC

CONSTANTS admin, officer, lead, root, w1, w2

(* lead is an officer who also reviews: with the seeded roles a reviewer    *)
(* needs an officer's role as well to pass the route guard.                 *)
RoleTable == (admin    :> {"ComplaintsAdmin"})
          @@ (officer  :> {"CaseOfficer"})
          @@ (lead     :> {"CaseOfficer", "ReviewerApprover"})
          @@ (root     :> {"SuperAdmin"})

MCRoleOf == [u \in Users |-> RoleTable[u]]

WorkerSymmetry == Permutations(Workers)
====
