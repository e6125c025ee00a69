-------------------------- MODULE PermissionGrants --------------------------
(***************************************************************************)
(* Permission grants: permissions.rs behind the handlers of runtime_api.rs *)
(* that request, approve and deny a grant, and its own revoke, mark_used   *)
(* and mark_expired.                                                       *)
(*                                                                         *)
(*   Askers     calls that request a grant: number, then upsert            *)
(*   Deciders   calls of set_status: read and check, then update by id     *)
(*                                                                         *)
(* Ids are those of one day (pg-<date>-<n> is n); rows are never deleted.  *)
(***************************************************************************)
EXTENDS Integers, Sequences

CONSTANTS
    Askers, Deciders,
    MaxGrants       \* bound: rows of permission_grants

ASSUME GrantsAssumption == MaxGrants \in Nat

VARIABLES
    grants,      \* statuses of the rows, in the order of their ids
    requesting,  \* requesting[a]: the id a has taken, 0 when it has none
    deciding     \* deciding[d]: the status d has found allowed for an id

grantVars == <<grants, requesting, deciding>>

GrantIds == 1 .. MaxGrants
ActiveGrant == {"approved_once", "approved_session"}
TerminalGrant == {"denied", "expired", "revoked", "used"}
GrantStatuses == {"requested"} \cup ActiveGrant \cup TerminalGrant

\* PermissionGrantStatus::valid_transitions.
GrantTargets(status) ==
    CASE status = "requested" -> ActiveGrant \cup {"denied"}
      [] status = "approved_once" -> {"used", "expired", "revoked"}
      [] status = "approved_session" -> {"expired", "revoked"}
      [] OTHER -> {}

Undeciding == [id |-> 0, target |-> "requested"]

GrantsTypeOK ==
    /\ grants \in Seq(GrantStatuses) /\ Len(grants) <= MaxGrants
    /\ requesting \in [Askers -> 0 .. MaxGrants]
    /\ deciding \in [Deciders -> [id : 0 .. MaxGrants, target : GrantStatuses]]
    /\ \A d \in Deciders : deciding[d].id \in 0 .. Len(grants)

GrantsInit ==
    /\ grants = <<>>
    /\ requesting = [a \in Askers |-> 0]
    /\ deciding = [d \in Deciders |-> Undeciding]

---------------------------------------------------------------------------
\* next_id: MAX(id) + 1.
NumbersGrant(a) ==
    /\ requesting[a] = 0 /\ Len(grants) < MaxGrants
    /\ requesting' = [requesting EXCEPT ![a] = Len(grants) + 1]
    /\ UNCHANGED <<grants, deciding>>

\* request: INSERT .. ON CONFLICT(id) DO UPDATE, requested again.  Of two
\* requests with one number the second takes over the row of the first.
RequestsGrant(a) ==
    /\ requesting[a] # 0
    /\ grants' = IF requesting[a] \in DOMAIN grants
                 THEN [grants EXCEPT ![requesting[a]] = "requested"]
                 ELSE Append(grants, "requested")
    /\ requesting' = [requesting EXCEPT ![a] = 0]
    /\ UNCHANGED deciding

\* Faulty: the transition is not checked.
ReadsUnsettledGrant(d, i, target) ==
    /\ deciding[d] = Undeciding
    /\ grants[i] # target /\ target # "requested"
    /\ deciding' = [deciding EXCEPT ![d] = [id |-> i, target |-> target]]
    /\ UNCHANGED <<grants, requesting>>

\* set_status: get and can_transition_to.
ReadsGrant(d, i, target) ==
    /\ deciding[d] = Undeciding
    /\ target \in GrantTargets(grants[i])
    /\ deciding' = [deciding EXCEPT ![d] = [id |-> i, target |-> target]]
    /\ UNCHANGED <<grants, requesting>>

\* set_status: the UPDATE names the row by id only.
DecidesGrant(d) ==
    /\ deciding[d] # Undeciding
    /\ grants' = [grants EXCEPT ![deciding[d].id] = deciding[d].target]
    /\ deciding' = [deciding EXCEPT ![d] = Undeciding]
    /\ UNCHANGED requesting

\* The call is dropped between its statements.
GrantCallDies ==
    /\ UNCHANGED grants
    /\ \/ \E a \in Askers : /\ requesting[a] # 0
                            /\ requesting' = [requesting EXCEPT ![a] = 0]
                            /\ UNCHANGED deciding
       \/ \E d \in Deciders : /\ deciding[d] # Undeciding
                              /\ deciding' = [deciding EXCEPT ![d] = Undeciding]
                              /\ UNCHANGED requesting

GrantsNext ==
    \/ \E a \in Askers : NumbersGrant(a) \/ RequestsGrant(a)
    \/ \E d \in Deciders :
          \/ \E i \in DOMAIN grants, target \in GrantStatuses : ReadsGrant(d, i, target)
          \/ DecidesGrant(d)
    \/ GrantCallDies

GrantsSpec == GrantsInit /\ [][GrantsNext]_grantVars

---------------------------------------------------------------------------
(***************************************************************************)
(* A grant that was denied, used, revoked or has expired is worth nothing  *)
(* again, whatever calls follow: only a decision that had read the grant   *)
(* before, or a request that took the same number, can still change it     *)
(* (permissions.rs:404-429, 300-334, 556-576).                             *)
(***************************************************************************)
GrantUndisturbed(i) ==
    /\ \A d \in Deciders : deciding[d].id # i
    /\ \A a \in Askers : requesting[a] # i

SettledGrantsStay(i) ==
    grants[i] \in TerminalGrant /\ GrantUndisturbed(i) =>
        i \in DOMAIN grants' /\ grants'[i] = grants[i] /\ GrantUndisturbed(i)'

DecisionsStand == [][\A i \in DOMAIN grants : SettledGrantsStay(i)]_grantVars

=============================================================================
