------------------------------ MODULE ComplaintPolicy ------------------------------
(***************************************************************************)
(* Who may do what to a complaint: the status graph, the transition rules  *)
(* and the seeded role catalogue, as pure operators.  Translated from      *)
(* packages/shared/src/workflow and apps/api/src/modules/auth/rbac.        *)
(*                                                                         *)
(* A complaint, as far as the policy sees it, is a record with fields      *)
(* status and assignee; assignee = NoUser stands for SQL NULL.  Permission *)
(* codes no complaint operation asks for (case, document, report, admin)   *)
(* are left out of the catalogue.                                          *)
(***************************************************************************)
CONSTANTS
    Users,      \* staff accounts
    NoUser,     \* the null assignee
    RoleOf      \* the set of roles each account holds

Role == {"SuperAdmin", "ComplaintsAdmin", "CaseOfficer", "ReviewerApprover",
         "Ombudsperson", "ReadOnlyObserver"}

ASSUME NoUserAssumption == NoUser \notin Users
ASSUME RoleAssumption   == RoleOf \in [Users -> SUBSET Role]

Status == {"SUBMITTED", "TRIAGE", "ASSIGNED", "IN_INVESTIGATION",
           "DRAFT_RESPONSE", "QA_LEGAL_REVIEW", "RESPONSE_ISSUED",
           "AWAITING_FEEDBACK", "CLOSED", "APPEAL"}

(* The edges a status change may follow.                                   *)
Graph == { <<"SUBMITTED", "TRIAGE">>,
           <<"TRIAGE", "ASSIGNED">>,
           <<"ASSIGNED", "IN_INVESTIGATION">>,
           <<"IN_INVESTIGATION", "DRAFT_RESPONSE">>,
           <<"DRAFT_RESPONSE", "QA_LEGAL_REVIEW">>,
           <<"QA_LEGAL_REVIEW", "DRAFT_RESPONSE">>,
           <<"QA_LEGAL_REVIEW", "RESPONSE_ISSUED">>,
           <<"RESPONSE_ISSUED", "AWAITING_FEEDBACK">>,
           <<"AWAITING_FEEDBACK", "CLOSED">>,
           <<"AWAITING_FEEDBACK", "APPEAL">>,
           <<"APPEAL", "ASSIGNED">> }

(* The two statuses an assignment may start from.  (Variant: a third one.) *)
AssignableAtOnce == {"SUBMITTED", "TRIAGE", "APPEAL"}

Assignable == {"TRIAGE", "APPEAL"}

Alternative(from, to, permission, assigneeOnly) ==
    [from |-> from, to |-> to, permission |-> permission,
     assigneeOnly |-> assigneeOnly]

(* One record per alternative of a rule: any one that passes is enough.    *)
TransitionRules ==
    { Alternative("SUBMITTED", "TRIAGE", "complaint:triage", FALSE),
      Alternative("ASSIGNED", "IN_INVESTIGATION", "complaint:investigate", TRUE),
      Alternative("IN_INVESTIGATION", "DRAFT_RESPONSE", "complaint:investigate", TRUE),
      Alternative("DRAFT_RESPONSE", "QA_LEGAL_REVIEW", "complaint:investigate", TRUE),
      Alternative("QA_LEGAL_REVIEW", "DRAFT_RESPONSE", "complaint:review", FALSE),
      Alternative("QA_LEGAL_REVIEW", "RESPONSE_ISSUED", "complaint:approve", FALSE),
      Alternative("RESPONSE_ISSUED", "AWAITING_FEEDBACK", "complaint:publish", FALSE),
      Alternative("RESPONSE_ISSUED", "AWAITING_FEEDBACK", "complaint:investigate", TRUE),
      Alternative("AWAITING_FEEDBACK", "CLOSED", "complaint:close", FALSE),
      Alternative("AWAITING_FEEDBACK", "APPEAL", "complaint:escalate", FALSE) }

-----------------------------------------------------------------------------
(* Permissions.  An alias is a pair <<canonical code, legacy code>>; either *)
(* one stands for the other.  The route guard and the workflow policy each  *)
(* have a table of their own.                                               *)

LegacyReads == {"complaints:list", "complaints:detail", "complaints:history",
                "complaint:read:own"}

GuardAliases ==
    ({"complaint:read"} \X LegacyReads)
      \cup {<<"complaint:assign", "complaints:assign">>}
      \cup ({"workflow:transition"} \X {"complaints:transition", "complaints:assign",
                                        "complaint:assign:self", "complaint:investigate"})

WorkflowAliases ==
    ({"complaint:read"} \X LegacyReads)
      \cup {<<"complaint:assign", "complaints:assign">>}
      \cup ({"workflow:transition"} \X {"complaints:transition", "complaints:assign"})

Satisfies(granted, required, aliases) ==
    \/ required \in granted
    \/ \E a \in aliases : \/ a[1] = required /\ a[2] \in granted
                          \/ a[2] = required /\ a[1] \in granted

RolePermissions == [
    ComplaintsAdmin |->
        {"complaint:read", "complaint:triage", "complaint:assign", "complaint:close",
         "complaint:publish", "workflow:transition", "complaint:escalate",
         "complaints:list", "complaint:update"},
    CaseOfficer |->
        {"complaint:read:own", "complaints:list", "complaint:assign:self",
         "complaint:investigate", "complaint:escalate", "complaint:update"},
    ReviewerApprover |->
        {"complaint:read", "complaint:review", "complaint:approve", "complaints:list"},
    Ombudsperson |->
        {"complaint:read", "complaint:escalate", "complaints:list"},
    ReadOnlyObserver |->
        {"complaint:read", "complaints:list"} ]

AllPermissions ==
    UNION {RolePermissions[r] : r \in DOMAIN RolePermissions}

IsSuperAdmin(u) == "SuperAdmin" \in RoleOf[u]

(* The codes in an account's token: the union over its roles.              *)
Granted(u) ==
    IF IsSuperAdmin(u) THEN AllPermissions
    ELSE UNION {RolePermissions[r] : r \in RoleOf[u] \cap DOMAIN RolePermissions}

GuardAllows(u, required)  == Satisfies(Granted(u), required, GuardAliases)
PolicyGrants(u, required) == Satisfies(Granted(u), required, WorkflowAliases)

-----------------------------------------------------------------------------
(* Row access: everything for a reader of all complaints, otherwise one's  *)
(* own cases and the unassigned queue.                                     *)

ReadsAll(u) == IsSuperAdmin(u) \/ "complaint:read" \in Granted(u)

IsScoped(u) ==
    ~ReadsAll(u) /\ {"complaint:read:own", "complaints:list"} \cap Granted(u) # {}

CanAccess(u, c) ==
    \/ ReadsAll(u)
    \/ IsScoped(u) /\ \/ c.assignee = u
                      \/ c.assignee = NoUser /\ c.status \in {"SUBMITTED", "TRIAGE"}

-----------------------------------------------------------------------------
(* The workflow policy.                                                    *)

IsAssignee(u, c) == c.assignee # NoUser /\ c.assignee = u

(* Variant: assigneeOnly is ignored.                                       *)
AlternativePassesAnyone(u, c, alt) == PolicyGrants(u, alt.permission)

AlternativePasses(u, c, alt) ==
    /\ PolicyGrants(u, alt.permission)
    /\ (alt.assigneeOnly /\ ~PolicyGrants(u, "complaint:assign")) => IsAssignee(u, c)

RulesFor(from, to) == {r \in TransitionRules : r.from = from /\ r.to = to}

EvaluateTransition(u, c, from, to) ==
    \/ IsSuperAdmin(u)
    \/ /\ <<from, to>> \in Graph
       /\ \E alt \in RulesFor(from, to) : AlternativePasses(u, c, alt)

(* Variant: an officer may take his own or a free case wherever one may    *)
(* assign.                                                                 *)
EvaluateAssignOwn(u, c, assignee) ==
    \/ IsSuperAdmin(u)
    \/ /\ c.status \in Assignable
       /\ \/ PolicyGrants(u, "complaint:assign")
          \/ /\ PolicyGrants(u, "complaint:assign:self")
             /\ c.assignee \in {NoUser, u}
             /\ assignee = u

EvaluateAssign(u, c, assignee) ==
    \/ IsSuperAdmin(u)
    \/ /\ c.status \in Assignable
       /\ \/ PolicyGrants(u, "complaint:assign")
          \/ /\ c.status = "TRIAGE"
             /\ PolicyGrants(u, "complaint:assign:self")
             /\ c.assignee = NoUser
             /\ assignee = u
====
