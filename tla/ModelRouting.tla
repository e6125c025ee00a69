----------------------------- MODULE ModelRouting ---------------------------
(***************************************************************************)
(* Which model a call uses: routing policies name a profile, a profile     *)
(* names an endpoint, a key and a model, and the configuration fills in    *)
(* what is missing (routing.rs, llm_profiles.rs, model_resolver.rs and     *)
(* from_resolved_with_fallback in llm.rs).  A resolution reads the         *)
(* policies, the profile and the configuration one after the other, while  *)
(* the settings window and the runtime API change all three.               *)
(*                                                                         *)
(* The configuration is a file that every save and every load rewrites     *)
(* (ConfigFile): a load may meet it emptied or half written, and a load    *)
(* may write back what an earlier save had put there.                      *)
(*                                                                         *)
(*   Profiles      ids of profiles, none used twice                        *)
(*   PolicyInputs  what the API asks create_policy for                     *)
(***************************************************************************)
EXTENDS Integers, FiniteSets

CONSTANTS
    Profiles,
    PolicyInputs,
    NoProfile,
    DefaultConfig, \* the configuration that load makes of an empty file
    BuiltInModel,  \* the model that is used when load fails
    MaxPolicies,   \* bound: policies ever created
    MaxSaves       \* bound: how often the configuration is saved

\* Work kinds in the order in which the database sorts them.
WorkKinds == {"coding", "planning"}
KindRank == [coding |-> 1, planning |-> 2]
OodaPhases == {"reason", "explore"}

\* What create_policy is given.
CreateRoutingPolicyInput ==
    [kind : WorkKinds, phase : OodaPhases \cup {"none"}, profile : Profiles \cup {NoProfile},
     priority : Int, enabled : BOOLEAN]

ASSUME RoutingAssumption ==
    /\ NoProfile \notin Profiles /\ MaxPolicies \in Nat /\ MaxSaves \in Nat
    /\ DefaultConfig \notin Profiles \cup {NoProfile, BuiltInModel}
    /\ BuiltInModel \notin Profiles \cup {NoProfile}
    /\ (Profiles \cup {NoProfile, DefaultConfig, BuiltInModel}) \cap (0 .. MaxSaves) = {}
    /\ PolicyInputs \subseteq CreateRoutingPolicyInput

VARIABLES
    profiles,    \* profiles[p]: whether there is a row, and what it holds
    policies,    \* the rows of routing_policies
    created,     \* policies created so far
    draft,       \* the input of a create_policy that has validated its profile
    saves,       \* saves of the configuration so far
    llmConfig,   \* which of them the file holds when no write is under way
    resolution   \* one call of a model, from its policies to its request

configurationVars == <<saves, llmConfig>>
routingVars == <<profiles, policies, created, draft, configurationVars, resolution>>

\* Who resolves a model: a chat, summarizer or monitor; the goal loop; a
\* subagent.
Contexts ==
    { [kind |-> "planning", phase |-> "none"], [kind |-> "planning", phase |-> "reason"],
      [kind |-> "coding", phase |-> "none"] }

Row(enabled, keyed) == [there |-> "yes", enabled |-> enabled, keyed |-> keyed]
NoRowYet == [there |-> "not yet", enabled |-> FALSE, keyed |-> FALSE]
Deleted == [NoRowYet EXCEPT !.there = "deleted"]
ProfileRows == {Row(e, k) : e \in BOOLEAN, k \in BOOLEAN} \cup {NoRowYet, Deleted}
NoPolicy == [profile |-> NoProfile, made |-> 0]
\* held: the configuration the caller had loaded before.  seen and disturbed
\* are history: the enabled rows the profile had since it was chosen; and a
\* load met a write, or the file got another content after the first load.
NotResolving ==
    [at |-> "idle", context |-> CHOOSE c \in Contexts : TRUE, policy |-> NoPolicy, seen |-> {},
     held |-> NoProfile, disturbed |-> FALSE, fallback |-> FALSE,
     model |-> NoProfile, endpoint |-> NoProfile, key |-> NoProfile]

\* Where a value of a request comes from: a profile, a save of the
\* configuration, its defaults or the code.
Sources == Profiles \cup {NoProfile, DefaultConfig, BuiltInModel} \cup 0 .. MaxSaves

RoutingTypeOK ==
    /\ profiles \in [Profiles -> ProfileRows]
    /\ \A p \in policies : p.kind \in WorkKinds /\ p.profile \in Profiles \cup {NoProfile}
                           /\ p.phase \in OodaPhases \cup {"none"} /\ p.made \in 1 .. created
    /\ created \in 0 .. MaxPolicies /\ draft \in PolicyInputs \cup {NoPolicy}
    /\ saves \in 0 .. MaxSaves /\ llmConfig \in 0 .. saves
    /\ resolution.at \in {"idle", "loaded", "profile", "model", "request", "sent"}
    /\ resolution.context \in Contexts /\ resolution.seen \subseteq ProfileRows
    /\ {resolution.held, resolution.model, resolution.endpoint, resolution.key} \subseteq Sources

RoutingInit ==
    /\ profiles = [p \in Profiles |-> NoRowYet] /\ policies = {} /\ created = 0
    /\ draft = NoPolicy /\ saves = 0 /\ llmConfig = 0 /\ resolution = NotResolving

\* History: a resolution that has taken its policy sees the enabled rows that
\* its profile has from then on.
Witnessed(p, row) ==
    resolution' = IF resolution.at = "profile" /\ resolution.policy.profile = p /\ row.enabled
                  THEN [resolution EXCEPT !.seen = @ \cup {row}]
                  ELSE resolution

PutProfile(p, row) == profiles' = [profiles EXCEPT ![p] = row] /\ Witnessed(p, row)

CreateProfile(p) ==
    /\ profiles[p] = NoRowYet
    /\ \E keyed \in BOOLEAN : PutProfile(p, Row(TRUE, keyed))
    /\ UNCHANGED <<policies, created, draft, configurationVars>>

\* update_profile binds the new key or NULL: an update that names no key
\* erases the one in the row.
UpdateProfile(p) ==
    /\ profiles[p].there = "yes"
    /\ \E enabled \in BOOLEAN, keyed \in BOOLEAN : PutProfile(p, Row(enabled, keyed))
    /\ UNCHANGED <<policies, created, draft, configurationVars>>

DeleteProfile(p) ==
    /\ profiles[p].there = "yes" /\ PutProfile(p, Deleted)
    /\ UNCHANGED <<policies, created, draft, configurationVars>>

\* The file gets another content, under the eyes of the call.
Rewritten(content) ==
    /\ llmConfig' = content
    /\ resolution' = [resolution EXCEPT
           !.disturbed = @ \/ resolution.held # NoProfile \/ resolution.at = "request"]

SaveConfig ==
    /\ saves < MaxSaves /\ saves' = saves + 1
    /\ Rewritten(saves + 1)
    /\ UNCHANGED <<profiles, policies, created, draft>>

\* Another load ends, with the write of what it had read.
WritesBack ==
    /\ \E content \in (0 .. saves) \ {llmConfig} : Rewritten(content)
    /\ UNCHANGED <<profiles, policies, created, draft, saves>>

\* create_policy looks at the profile and inserts in two statements.
ValidProfile(p) == p # NoProfile => profiles[p].enabled

ValidatePolicy ==
    /\ draft = NoPolicy /\ created < MaxPolicies
    /\ \E input \in PolicyInputs : ValidProfile(input.profile) /\ draft' = input
    /\ UNCHANGED <<profiles, policies, created, configurationVars, resolution>>

InsertPolicy ==
    /\ draft # NoPolicy /\ draft' = NoPolicy /\ created' = created + 1
    /\ policies' = policies \cup
           {[kind |-> draft.kind, phase |-> draft.phase, profile |-> draft.profile,
             priority |-> draft.priority, enabled |-> draft.enabled, made |-> created + 1]}
    /\ UNCHANGED <<profiles, configurationVars, resolution>>

DeletePolicy ==
    /\ \E p \in policies : policies' = policies \ {p}
    /\ UNCHANGED <<profiles, created, draft, configurationVars, resolution>>

\* ORDER BY task_kind, priority DESC, created_at.
Precedes(p, q) ==
    \/ KindRank[p.kind] < KindRank[q.kind]
    \/ p.kind = q.kind /\ p.priority > q.priority
    \/ p.kind = q.kind /\ p.priority = q.priority /\ p.made < q.made

\* A policy without a phase fits every phase, and a caller without one takes
\* policies of any phase.
Applies(policy, context) ==
    /\ policy.kind = context.kind /\ policy.enabled
    /\ \/ context.phase = "none"
       \/ policy.phase \in {"none", context.phase}

\* The limit is put on the whole table, the filter on what it leaves.
FirstRows(limit) == {p \in policies : Cardinality({q \in policies : Precedes(q, p)}) < limit}
ListPolicies(context, limit) == {p \in FirstRows(limit) : Applies(p, context)}

\* What load returns when it returns: of the file, or of an empty one.
Loadable == {llmConfig, DefaultConfig}

\* The summarizer and the monitor load the configuration first and keep it.
CallerLoads ==
    /\ resolution = NotResolving
    /\ \E content \in Loadable :
          resolution' = [resolution EXCEPT !.at = "loaded", !.held = content,
                             !.disturbed = content # llmConfig]
    /\ UNCHANGED <<profiles, policies, created, draft, configurationVars>>

\* Nothing is selected also when the query fails.
SelectPolicy ==
    /\ resolution.at \in {"idle", "loaded"}
    /\ \E context \in Contexts :
       /\ resolution.at = "loaded" => context = [kind |-> "planning", phase |-> "none"]
       /\ LET begun == [resolution EXCEPT !.context = context, !.at = "model"]
          IN \/ resolution' = begun
             \/ \E p \in ListPolicies(context, 1) :
                   resolution' = [begun EXCEPT !.at = "profile", !.policy = p,
                       !.seen = {profiles[q] : q \in {v \in Profiles :
                                    v = p.profile /\ profiles[v].enabled}}]
    /\ UNCHANGED <<profiles, policies, created, draft, configurationVars>>

\* Faulty: a profile that is switched off is used all the same.
UsableAlways(p) == p # NoProfile /\ profiles[p].there = "yes"

\* The profile of the policy can be used: it is there and enabled.
Usable(p) == p # NoProfile /\ profiles[p].enabled

\* get_profile.  A key that the row lacks is left open.
ReadProfile ==
    LET p == resolution.policy.profile
    IN /\ resolution.at = "profile"
       /\ resolution' =
              IF Usable(p)
              THEN [resolution EXCEPT !.at = "request", !.model = p, !.endpoint = p,
                        !.key = IF profiles[p].keyed THEN p ELSE NoProfile]
              ELSE [resolution EXCEPT !.at = "model", !.seen = {}]
       /\ UNCHANGED <<profiles, policies, created, draft, configurationVars>>

\* default_model_for_backend and config_default_model: the model of a
\* configuration loaded for it alone, or the one in the code when that fails.
TakeDefaultModel ==
    /\ resolution.at = "model"
    /\ \E source \in Loadable \cup {BuiltInModel} :
          resolution' = [resolution EXCEPT !.at = "request", !.model = source,
                             !.fallback = TRUE, !.disturbed = @ \/ source # llmConfig]
    /\ UNCHANGED <<profiles, policies, created, draft, configurationVars>>

\* What a request takes from the configuration when the profile lacks it.
Given(source, configuration) == IF source = NoProfile THEN configuration ELSE source

\* The request is built of the model and a configuration: the one the caller
\* holds, or one it loads now.  A load that fails ends the call, or gives the
\* defaults (decide.rs:215, send_v2.rs:1156, 1292).
BuildRequest ==
    LET r == resolution
        built(configuration, met) ==
            [r EXCEPT !.at = "sent", !.disturbed = @ \/ met,
                      !.endpoint = Given(@, configuration), !.key = Given(@, configuration)]
    IN /\ r.at = "request"
       /\ \/ r.held # NoProfile /\ resolution' = built(r.held, FALSE)
          \/ r.held = NoProfile
             /\ \/ resolution' = NotResolving
                \/ \E content \in Loadable : resolution' = built(content, content # llmConfig)
       /\ UNCHANGED <<profiles, policies, created, draft, configurationVars>>

Answered ==
    /\ resolution.at = "sent" /\ resolution' = NotResolving
    /\ UNCHANGED <<profiles, policies, created, draft, configurationVars>>

RoutingNext ==
    \/ \E p \in Profiles : CreateProfile(p) \/ UpdateProfile(p) \/ DeleteProfile(p)
    \/ SaveConfig \/ WritesBack \/ ValidatePolicy \/ InsertPolicy \/ DeletePolicy
    \/ CallerLoads \/ SelectPolicy \/ ReadProfile \/ TakeDefaultModel \/ BuildRequest \/ Answered

RoutingSpec == RoutingInit /\ [][RoutingNext]_routingVars

---------------------------------------------------------------------------
\* A request is made of one source, whatever changes while it is prepared:
\* model and endpoint of the one profile that its policy names and that was
\* enabled at a time since the policy was read, with the key of the profile
\* or, when that had none, of the configuration; or all of the configuration,
\* and then marked as a fallback.  The model of one configuration goes to the
\* endpoint of another only when the file got another content in between or
\* a load met a write and made defaults of it (routing.rs:281-314,
\* model_resolver.rs:184-280, llm.rs:70-85, config.rs:402-437).
RequestsHaveOneSource ==
    LET r == resolution
        row == Row(TRUE, r.key = r.endpoint)
    IN r.at = "sent" =>
          /\ r.policy # NoPolicy => Applies(r.policy, r.context)
          /\ r.endpoint \in Profiles =>
                r.model = r.endpoint /\ r.policy.profile = r.endpoint /\ row \in r.seen
          /\ r.endpoint \notin Profiles =>
                r.fallback /\ r.key = r.endpoint
                /\ (r.model # r.endpoint => r.disturbed)

=============================================================================
