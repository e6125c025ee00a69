------------------------------ MODULE Proposals ------------------------------
(***************************************************************************)
(* Approval of tool calls: proposals.rs, tool_calls.rs, the trust check of *)
(* tools/registry.rs and execute_tool_call of chat/tools.rs.               *)
(*                                                                         *)
(*   Chats       conversations whose model calls tools; a refused call     *)
(*               becomes a proposal                                        *)
(*   the user    lists the pending proposals, approves and rejects ids     *)
(*   Executors   the desktop command and the CLI that execute a proposal   *)
(*                                                                         *)
(* No call takes a transaction: an actor is cut at its statements on the   *)
(* table action_proposals and at the tool's own run.  Statements on rows   *)
(* only the actor knows (its row of tool_calls) are left out.              *)
(* Ids are those of one day (p-<date>-<n> is n), and a row is never        *)
(* deleted, so the table is a sequence.                                    *)
(***************************************************************************)
EXTENDS Integers, Sequences, FiniteSets, SequencesExt, Functions

CONSTANTS
    Chats, Executors,
    ToolRequests,        \* tool, arguments and workspace of a refused call
    WriteRequests,   \* those refused by the trust level of the workspace; the
                     \* others name a path outside of it
    NoRequest,
    MaxProposals,    \* bound: rows of action_proposals
    MaxApprovals,    \* bound: approvals, counting each row there is as one
    MaxInterrupted   \* bound: proposals whose execution dies

ASSUME ProposalsAssumption ==
    /\ IsFiniteSet(Executors)
    /\ WriteRequests \subseteq ToolRequests /\ NoRequest \notin ToolRequests
    /\ MaxProposals \in Nat /\ MaxApprovals \in Nat /\ MaxInterrupted \in Nat

VARIABLES
    proposals,   \* action_proposals: rows in the order of their ids
    toolRuns,    \* tool_runs: ids of the proposals with a row tr-<date>-<id>
    asking,      \* asking[c]: what a chat's call to execute_tool_call is doing
    executing,   \* executing[e]: what a call of execute_proposal is doing
    shown,       \* shown[i]: the request the user's list last showed for id i
    agreed,      \* history: agreed[i]: requests the user has approved as id i
    approvals,   \* history: approvals[i]: how often id i was approved
    attempts,    \* history: attempts[i]: how often id i's tool was executed
    overlapped,  \* history: two chats held the same new id at once
    interrupted  \* history: ids whose execution died

proposalVars == <<proposals, toolRuns, asking, executing, shown, agreed,
                  approvals, attempts, overlapped, interrupted>>

ProposalIds == 1 .. MaxProposals
Undecided == {"pending", "approved", "running"}
ProposalStatuses == Undecided \cup {"succeeded", "failed", "rejected"}
ProposalRows == [status : ProposalStatuses, request : ToolRequests]

Doing(place, r, i) == [at |-> place, request |-> r, id |-> i]
AskPlaces == {"idle", "unproposed", "numbered"}
ExecutePlaces == {"idle", "read", "running", "succeeded", "failed"}
AtIdle == Doing("idle", NoRequest, 0)

ProposalsTypeOK ==
    /\ proposals \in Seq(ProposalRows) /\ Len(proposals) <= MaxProposals
    /\ toolRuns \subseteq ProposalIds
    /\ asking \in [Chats -> [at : AskPlaces, request : ToolRequests \cup {NoRequest},
                             id : 0 .. MaxProposals]]
    /\ executing \in [Executors -> [at : ExecutePlaces,
                                    request : ToolRequests \cup {NoRequest},
                                    id : 0 .. MaxProposals]]
    /\ shown \in [ProposalIds -> ToolRequests \cup {NoRequest}]
    /\ agreed \in [ProposalIds -> SUBSET ToolRequests]
    /\ approvals \in [ProposalIds -> Nat]
    /\ attempts \in [ProposalIds -> Nat]
    /\ overlapped \in BOOLEAN
    /\ interrupted \subseteq ProposalIds

ProposalsInit ==
    /\ proposals = <<>>
    /\ toolRuns = {}
    /\ asking = [c \in Chats |-> AtIdle]
    /\ executing = [e \in Executors |-> AtIdle]
    /\ shown = [i \in ProposalIds |-> NoRequest]
    /\ agreed = [i \in ProposalIds |-> {}]
    /\ approvals = [i \in ProposalIds |-> 0]
    /\ attempts = [i \in ProposalIds |-> 0]
    /\ overlapped = FALSE
    /\ interrupted = {}

Ids == DOMAIN proposals
StatusSet(i, s) == proposals' = [proposals EXCEPT ![i].status = s]
historyOfUser == <<shown, agreed, approvals>>

----------------------------------------------------------------------------
(* execute_tool_call (chat/tools.rs:559-960)                               *)

AskGoes(c, place, r, i) ==
    /\ asking' = [asking EXCEPT ![c] = Doing(place, r, i)]
    /\ UNCHANGED <<toolRuns, executing, historyOfUser, attempts, interrupted>>

OpenFor(r) == {i \in Ids : proposals[i].request = r /\ proposals[i].status \in Undecided}

\* A call the workspace refuses.  find_open_by_tool_request: an open proposal
\* for the same request answers it (mark_approval_required, nothing else
\* changes); without one a proposal is made.  Other calls make no proposal.
\* Bound: nobody asks once the table is full.
ChatIsRefused(c, r) ==
    /\ asking[c].at = "idle" /\ Len(proposals) < MaxProposals
    /\ OpenFor(r) = {}
    /\ AskGoes(c, "unproposed", r, 0)
    /\ UNCHANGED <<proposals, overlapped>>

\* Faulty: the largest id in use, not the one after it.
ReusesId(c) ==
    /\ asking[c].at = "unproposed" /\ Len(proposals) < MaxProposals
    /\ AskGoes(c, "numbered", asking[c].request, IF proposals = <<>> THEN 1 ELSE Len(proposals))
    /\ UNCHANGED <<proposals, overlapped>>

\* next_id: MAX(id) + 1.
ChatNumbers(c) ==
    /\ asking[c].at = "unproposed" /\ Len(proposals) < MaxProposals
    /\ AskGoes(c, "numbered", asking[c].request, Len(proposals) + 1)
    /\ overlapped' = (overlapped \/ \E d \in Chats \ {c} :
                                       /\ asking[d].at = "numbered"
                                       /\ asking[d].id = Len(proposals) + 1)
    /\ UNCHANGED proposals

\* create: INSERT .. ON CONFLICT(id) DO UPDATE, status pending again; then
\* mark_approval_required ends the call.
ChatProposes(c) ==
    /\ asking[c].at = "numbered"
    /\ LET i == asking[c].id
           row == [status |-> "pending", request |-> asking[c].request]
       IN /\ proposals' = IF i \in Ids THEN [proposals EXCEPT ![i] = row]
                                       ELSE Append(proposals, row)
          /\ AskGoes(c, "idle", NoRequest, 0)
    /\ UNCHANGED overlapped

ChatStep(c) == ChatNumbers(c) \/ ChatProposes(c)

----------------------------------------------------------------------------
(* The user's panel and commands: list_pending, approve, reject            *)

UserLists ==
    /\ shown' = [i \in ProposalIds |->
                    IF i \in Ids /\ proposals[i].status = "pending"
                       THEN proposals[i].request ELSE shown[i]]
    /\ shown' # shown
    /\ UNCHANGED <<proposals, toolRuns, asking, executing, agreed,
                   approvals, attempts, overlapped, interrupted>>

\* approve and reject write by id, whatever the status is by now.
UserApproves(i) ==
    /\ i \in Ids /\ shown[i] # NoRequest
    /\ SumFunction(approvals) + Len(proposals) < MaxApprovals
    /\ StatusSet(i, "approved")
    /\ agreed' = [agreed EXCEPT ![i] = @ \cup {shown[i]}]
    /\ approvals' = [approvals EXCEPT ![i] = @ + 1]
    /\ UNCHANGED <<toolRuns, asking, executing, shown, attempts,
                   overlapped, interrupted>>

UserRejects(i) ==
    /\ i \in Ids /\ shown[i] # NoRequest /\ proposals[i].status # "rejected"
    /\ StatusSet(i, "rejected")
    /\ UNCHANGED <<toolRuns, asking, executing, historyOfUser, attempts,
                   overlapped, interrupted>>

----------------------------------------------------------------------------
(* execute_proposal (proposals.rs:383-570)                                 *)

ExecutionGoes(e, place) ==
    /\ executing' = [executing EXCEPT ![e].at = place]
    /\ UNCHANGED <<asking, historyOfUser, overlapped, interrupted>>

ExecutionEnds(e) ==
    /\ executing' = [executing EXCEPT ![e] = AtIdle]
    /\ UNCHANGED <<asking, historyOfUser, overlapped, interrupted>>

\* get and the check of the status.
ExecutionReads(e, i) ==
    /\ executing[e].at = "idle"
    /\ i \in Ids /\ proposals[i].status = "approved"
    /\ executing' = [executing EXCEPT ![e] = Doing("read", proposals[i].request, i)]
    /\ UNCHANGED <<proposals, toolRuns, asking, historyOfUser, attempts,
                   overlapped, interrupted>>

\* Faulty: the proposal stays approved while its tool runs.
RunsUnmarked(e) ==
    /\ executing[e].at = "read"
    /\ ExecutionGoes(e, "running")
    /\ UNCHANGED <<proposals, toolRuns, attempts>>

\* mark_running by id.
ExecutionMarks(e) ==
    /\ executing[e].at = "read"
    /\ StatusSet(executing[e].id, "running")
    /\ ExecutionGoes(e, "running")
    /\ UNCHANGED <<toolRuns, attempts>>

\* The tool is asked through the same checks as the chat's call was.  No
\* caller changes the trust level of a workspace; where a path leads is the
\* file system's affair.  log_tool_run inserts tr-<date>-<id>: a second row for the same proposal
\* violates the primary key, and the error leaves execute_proposal.
ExecutionRuns(e) ==
    /\ executing[e].at = "running"
    /\ LET i == executing[e].id
       IN /\ IF i \in toolRuns
                THEN ExecutionEnds(e)
                ELSE \/ /\ executing[e].request \notin WriteRequests
                        /\ ExecutionGoes(e, "succeeded")
                     \/ ExecutionGoes(e, "failed")
          /\ toolRuns' = toolRuns \cup {i}
          /\ attempts' = [attempts EXCEPT ![i] = @ + 1]
    /\ UNCHANGED proposals

\* mark_succeeded or mark_failed by id.
ExecutionSettles(e) ==
    /\ executing[e].at \in {"succeeded", "failed"}
    /\ StatusSet(executing[e].id, executing[e].at)
    /\ ExecutionEnds(e)
    /\ UNCHANGED <<toolRuns, attempts>>

ExecutionStep(e) == ExecutionMarks(e) \/ ExecutionRuns(e) \/ ExecutionSettles(e)

\* The process of an executor ends; nothing resumes an execution.
ExecutionDies(e) ==
    /\ executing[e].at # "idle"
    /\ Cardinality(interrupted \cup {executing[e].id}) <= MaxInterrupted
    /\ interrupted' = interrupted \cup {executing[e].id}
    /\ executing' = [executing EXCEPT ![e] = AtIdle]
    /\ UNCHANGED <<proposals, toolRuns, asking, historyOfUser, attempts,
                   overlapped>>

ProposalsNext ==
    \/ \E c \in Chats : \/ \E r \in ToolRequests : ChatIsRefused(c, r)
                        \/ ChatStep(c)
    \/ UserLists
    \/ \E i \in Ids : UserApproves(i) \/ UserRejects(i)
    \/ \E e \in Executors : \/ \E i \in Ids : ExecutionReads(e, i)
                            \/ ExecutionStep(e) \/ ExecutionDies(e)

ProposalsSpec == ProposalsInit /\ [][ProposalsNext]_proposalVars

----------------------------------------------------------------------------
(* Properties                                                              *)

(***************************************************************************)
(* execute_proposal reads "approved" and writes "running" in two unguarded *)
(* statements, and approve has no guard at all.  Still, every approval     *)
(* buys at most one execution per executor: an approval is a window that   *)
(* the first mark_running closes, however the statements interleave.  And  *)
(* a proposal is left running by nobody only if an execution of it died or *)
(* it was executed before: the second row of tool_runs with its id is      *)
(* refused after the tool has run (proposals.rs:430,620) and the proposal  *)
(* is never settled.  What is executed under an id is a request the user   *)
(* was shown and approved under this id, as long as no two chats took the  *)
(* same new id at once (next_id and create's upsert are two statements).   *)
(***************************************************************************)
ApprovalsBoundExecutions ==
    /\ \A i \in ProposalIds : attempts[i] <= approvals[i] * Cardinality(Executors)
    /\ \A i \in Ids :
          (/\ proposals[i].status = "running"
           /\ \A e \in Executors : executing[e].id # i)
          => (i \in interrupted \/ attempts[i] >= 2)
    /\ overlapped \/ \A e \in Executors : executing[e].at # "idle" =>
                        executing[e].request \in agreed[executing[e].id]
=============================================================================
