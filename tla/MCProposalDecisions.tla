------------------------ MODULE MCProposalDecisions ------------------------
(* Instance of ProposalDecisions for TLC, and - sharing nothing with it -  *)
(* of WorkspaceReports: small structures of islands under every edit, with *)
(* a diagnostics run overtaken by edits and by another document.  No       *)
(* symmetry: the run checks liveness.                                      *)
EXTENDS ProposalDecisions, WorkspaceReports

CONSTANTS r1, r2, r3, p1, k1, k2

VARIABLE explored   \* the component this behaviour is about

Edge(a, b, t) == [from |-> a, to |-> b, type |-> t]

(* Cards 1 to 3, islands 11 and 12. *)
SampleRelations ==
    {Edge(11, 12, "related"), Edge(1, 2, "related"), Edge(1, 3, "related"),
     Edge(11, 11, "related"), Edge(12, 3, "negate")}

(* Structures of any kind with one edit left; one structure with all.      *)
SampleReports ==
    /\ ReportsInit
    /\ summary = [i \in Islands |-> IF i = 11 THEN "draft" ELSE "reviewed"]
    /\ edits = MaxEdits - 1 \/ (edits = 0 /\ edges = {} /\ member = <<11, 11, Nothing>>)

DecisionsInit ==
    /\ explored \in {"decisions", "reports"}
    /\ SampleReports
    /\ explored = "decisions" => edits = 0
    /\ Init
    /\ explored = "reports" => lockRows

DecisionsNext ==
    /\ UNCHANGED explored
    /\ \/ explored = "decisions" /\ Next /\ UNCHANGED reportVars
       \/ explored = "reports" /\ (IslandNext \/ ReportNext) /\ UNCHANGED vars

(* Requests are carried on as in FairSpec.                                 *)
DecisionsSpec ==
    /\ DecisionsInit /\ [][DecisionsNext]_<<explored, vars, reportVars>>
    /\ \A r \in Requests : WF_vars(explored = "decisions" /\ Handle(r) /\ UNCHANGED <<explored, reportVars>>)
=============================================================================
