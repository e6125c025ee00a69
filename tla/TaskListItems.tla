---------------------------- MODULE TaskListItems ----------------------------
(***************************************************************************)
(* The task lists agents share: tasklist.rs behind the tools task.create,  *)
(* task.update and task.claim, and the writeback of a finished agent run.  *)
(*                                                                         *)
(*   TaskLists  lists; each numbers its own items from 1                   *)
(*   Agents     callers of the tools, one call at a time each              *)
(*                                                                         *)
(* A claim is one transaction (BEGIN IMMEDIATE).  Every other operation is *)
(* a sequence of statements on its own: a creation numbers, inserts and    *)
(* then links the item, an update reads the row and writes all of it back. *)
(***************************************************************************)
EXTENDS Integers, FiniteSets

CONSTANTS
    TaskLists, Agents, NoAgent,
    MaxItems,       \* bound: items of a list
    GivenStatuses,  \* bound: statuses an update may ask for
    GivenBlockers   \* bound: items a dependency may name

ASSUME TaskListAssumption ==
    /\ NoAgent \notin Agents /\ MaxItems \in Nat
    /\ GivenStatuses \subseteq {"pending", "in_progress", "completed"}
    /\ GivenBlockers \subseteq 1 .. MaxItems

VARIABLES
    items,       \* items[l][i]: status and owner of item i of list l
    blockers,    \* blockers[l][i]: the items that item i waits for
    working,     \* working[a]: the call agent a is in
    claimants,   \* history: claimants[l][i] were told they claimed the item
    clobbered,   \* history: items whose owner an update wrote over
    asked        \* history: asked[l][i]: what the creator of i makes it wait for

itemVars == <<items, blockers, working, claimants, clobbered, asked>>

Numbers == 1 .. MaxItems
ItemStatuses == {"pending", "in_progress", "completed"}
ItemRows == [status : ItemStatuses \cup {"absent"}, owner : Agents \cup {NoAgent}]
AbsentItem == [status |-> "absent", owner |-> NoAgent]
NewItem == [status |-> "pending", owner |-> NoAgent]

Resting == [at |-> "rest"]
Works ==
    {Resting}
    \cup [at : {"numbered"}, list : TaskLists, item : Numbers, waitsFor : SUBSET Numbers]
    \cup [at : {"linking"}, list : TaskLists, item : Numbers, waitsFor : SUBSET Numbers]
    \cup [at : {"updating"}, list : TaskLists, item : Numbers, waitsFor : SUBSET Numbers,
          row : ItemRows]

ItemsTypeOK ==
    /\ items \in [TaskLists -> [Numbers -> ItemRows]]
    /\ blockers \in [TaskLists -> [Numbers -> SUBSET Numbers]]
    /\ working \in [Agents -> Works]
    /\ claimants \in [TaskLists -> [Numbers -> SUBSET Agents]]
    /\ asked \in [TaskLists -> [Numbers -> SUBSET Numbers]]
    /\ clobbered \subseteq TaskLists \X Numbers

ItemsInit ==
    /\ items = [l \in TaskLists |-> [i \in Numbers |-> AbsentItem]]
    /\ blockers = [l \in TaskLists |-> [i \in Numbers |-> {}]]
    /\ working = [a \in Agents |-> Resting]
    /\ claimants = [l \in TaskLists |-> [i \in Numbers |-> {}]]
    /\ asked = [l \in TaskLists |-> [i \in Numbers |-> {}]]
    /\ clobbered = {}

Present(l) == {i \in Numbers : items[l][i].status # "absent"}
WorkGoes(a, next) == working' = [working EXCEPT ![a] = next]

\* Faulty: an item waits for the blockers that exist and are pending only.
ReadyIfNotPending(l, i) ==
    /\ items[l][i] = NewItem
    /\ \A b \in blockers[l][i] : items[l][b].status # "pending"

\* is_available_with_statuses: a blocker that does not exist blocks.
Ready(l, i) ==
    /\ items[l][i] = NewItem
    /\ \A b \in blockers[l][i] : items[l][b].status = "completed"

---------------------------------------------------------------------------
\* Faulty: a claim does not look at the owner.
ClaimsPending(a, l, i) ==
    /\ working[a] = Resting
    /\ items[l][i].status = "pending"
    /\ \A b \in blockers[l][i] : items[l][b].status = "completed"
    /\ items' = [items EXCEPT ![l][i].owner = a]
    /\ claimants' = [claimants EXCEPT ![l][i] = @ \cup {a}]
    /\ UNCHANGED <<blockers, working, clobbered, asked>>

\* claim_task; the status stays pending.
ClaimsItem(a, l, i) ==
    /\ working[a] = Resting
    /\ Ready(l, i)
    /\ items' = [items EXCEPT ![l][i].owner = a]
    /\ claimants' = [claimants EXCEPT ![l][i] = @ \cup {a}]
    /\ UNCHANGED <<blockers, working, clobbered, asked>>

\* create_task: next_task_id is MAX + 1.
NumbersItem(a, l, waits) ==
    /\ working[a] = Resting
    /\ Cardinality(Present(l)) < MaxItems
    /\ WorkGoes(a, [at |-> "numbered", list |-> l, item |-> Cardinality(Present(l)) + 1,
                    waitsFor |-> waits \ {Cardinality(Present(l)) + 1}])
    /\ UNCHANGED <<items, blockers, claimants, clobbered, asked>>

\* The key (list, number) refuses a number that was taken meanwhile.
InsertsItem(a) ==
    /\ working[a].at = "numbered"
    /\ LET l == working[a].list i == working[a].item waits == working[a].waitsFor IN
          IF items[l][i] # AbsentItem
          THEN WorkGoes(a, Resting) /\ UNCHANGED <<items, asked>>
          ELSE /\ items' = [items EXCEPT ![l][i] = NewItem]
               /\ WorkGoes(a, IF waits = {} THEN Resting ELSE [working[a] EXCEPT !.at = "linking"])
               /\ asked' = [asked EXCEPT ![l][i] = waits]
    /\ UNCHANGED <<blockers, claimants, clobbered>>

\* insert_dependencies, one row a statement; nothing looks for a cycle.
LinksItem(a) ==
    /\ working[a].at = "linking"
    /\ LET l == working[a].list i == working[a].item waits == working[a].waitsFor IN
          \E b \in waits :
             /\ blockers' = [blockers EXCEPT ![l][i] = @ \cup {b}]
             /\ WorkGoes(a, IF waits = {b} THEN Resting
                                           ELSE [working[a] EXCEPT !.waitsFor = waits \ {b}])
    /\ UNCHANGED <<items, claimants, clobbered, asked>>

\* update_task reads the row.  Bound: a status or blockers are given, no owner;
\* what an item blocks is the same row of dependencies, seen from the other.
ReadsItem(a, l, i, status, waits) ==
    /\ working[a] = Resting
    /\ items[l][i] # AbsentItem
    /\ IF waits = {} THEN status \in GivenStatuses ELSE status = items[l][i].status
    /\ WorkGoes(a, [at |-> "updating", list |-> l, item |-> i, waitsFor |-> waits \ {i},
                    row |-> [items[l][i] EXCEPT !.status = status]])
    /\ UNCHANGED <<items, blockers, claimants, clobbered, asked>>

\* It writes status and owner back, the owner it read with it.
WritesItem(a) ==
    /\ working[a].at = "updating"
    /\ LET l == working[a].list i == working[a].item waits == working[a].waitsFor IN
          /\ items' = [items EXCEPT ![l][i] = working[a].row]
          /\ clobbered' = IF items[l][i].owner = working[a].row.owner THEN clobbered
                                                       ELSE clobbered \cup {<<l, i>>}
          /\ WorkGoes(a, IF waits = {} THEN Resting
                         ELSE [at |-> "linking", list |-> l, item |-> i, waitsFor |-> waits])
    /\ UNCHANGED <<blockers, claimants, asked>>

\* The process of a caller ends between two statements.
AgentDies(a) ==
    /\ working[a].at = "linking"
    /\ WorkGoes(a, Resting)
    /\ UNCHANGED <<items, blockers, claimants, clobbered, asked>>

\* update_task_status_by_id of a finished run: WHERE id = i, in every list.
WritesBack(i) ==
    /\ \E status \in {"pending", "completed"} :
          items' = [l \in TaskLists |-> [items[l] EXCEPT ![i].status =
                                            IF @ = "absent" THEN @ ELSE status]]
    /\ UNCHANGED <<blockers, working, claimants, clobbered, asked>>

ItemsNext ==
    \/ \E a \in Agents :
          \/ \E l \in TaskLists :
                \/ \E i \in Numbers :
                      \/ ClaimsItem(a, l, i)
                      \/ \E s \in ItemStatuses, w \in SUBSET GivenBlockers : ReadsItem(a, l, i, s, w)
                \/ \E w \in SUBSET GivenBlockers : NumbersItem(a, l, w)
          \/ InsertsItem(a) \/ LinksItem(a) \/ WritesItem(a) \/ AgentDies(a)
    \/ \E i \in Numbers : WritesBack(i)

ItemsSpec == ItemsInit /\ [][ItemsNext]_itemVars

---------------------------------------------------------------------------
\* No two agents are told that they claimed one item, unless an update that
\* had read the item before the claim wrote its old owner back
\* (tasklist.rs:358-418, 306-340).  An item is claimed only when every item
\* that its creator made it wait for is completed, unless the claim came
\* between the insert of the item and the inserts of its dependencies, or its
\* creator died there (tasklist.rs:164-218, 594-637, 854-864).
ItemsAreClaimedInTurn ==
    /\ [](\A l \in TaskLists, i \in Numbers :
             Cardinality(claimants[l][i]) > 1 => <<l, i>> \in clobbered)
    /\ [][\A l \in TaskLists, i \in Numbers :
             claimants'[l][i] # claimants[l][i] =>
                 \/ ~(asked[l][i] \subseteq blockers[l][i])
                 \/ \A b \in asked[l][i] : items[l][b].status = "completed"]_itemVars

===========================================================================
