----------------------------- MODULE LeaseTable -----------------------------
(***************************************************************************)
(* The rows of the SQLite table work_leases and the one question the code  *)
(* asks of them before it inserts a row: does an active lease conflict     *)
(* with the request?  (crates/conductor-core/src/leases.rs).               *)
(*                                                                         *)
(* The table is a function from lease ids to rows.  An id whose row is     *)
(* NoRow has not been handed out yet (ids are fresh UUIDs in the code).    *)
(* Rows are never deleted.  Wall-clock fields are kept by WorkLeases,      *)
(* which is the module that models expiry.                                 *)
(***************************************************************************)
EXTENDS Integers, Sequences

CONSTANTS
    LeaseIds,    \* the ids Uuid::new_v4 may hand out
    Holders,     \* agents that hold leases
    Tasks,       \* ids of agent tasks
    Workspaces,  \* workspace ids
    Scopes,      \* the write scopes requests may carry: sets of paths
    NoRow,       \* "no row with this id"
    NoTask       \* task_id IS NULL

ASSUME NoTaskAssumption == NoTask \notin Tasks

LeaseTypes == {"task_claim", "write_scope", "command", "review"}

\* "revoked" is named in the comment on WorkLease.status and written nowhere.
LeaseStatuses == {"active", "released", "expired"}

\* The arguments of acquire that the conflict check reads.
LeaseRequests ==
    [ workspace : Workspaces, holder : Holders, task : Tasks \cup {NoTask},
      type : LeaseTypes, scope : Scopes ]

\* A row: what was asked for, and how far the lease has got.
LeaseRows == [ req : LeaseRequests, status : LeaseStatuses ]

ASSUME NoRowAssumption == NoRow \notin LeaseRows

LeaseTables == [LeaseIds -> LeaseRows \cup {NoRow}]

----------------------------------------------------------------------------

Taken(table) == {l \in LeaseIds : table[l] # NoRow}

ActiveLeases(table) == {l \in Taken(table) : table[l].status = "active"}

\* SELECT id FROM work_leases WHERE task_id = ? AND lease_type = 'task_claim'
\* AND status = 'active'
ActiveClaims(table, t) ==
    {l \in ActiveLeases(table) :
        table[l].req.task = t /\ table[l].req.type = "task_claim"}

(***************************************************************************)
(* A path is the sequence of its segments, so the two separators that      *)
(* normalize_slashes unifies never appear; <<>> is the empty string, which *)
(* is nobody's parent and nobody's child but is equal to itself.           *)
(***************************************************************************)
PathIsParent(p, c) ==
    /\ p # <<>> /\ c # <<>>
    /\ Len(p) <= Len(c)
    /\ SubSeq(c, 1, Len(p)) = p

PathsOverlap(a, b) ==
    \E p \in a, q \in b : PathIsParent(p, q) \/ PathIsParent(q, p) \/ p = q

(***************************************************************************)
(* Does an active row stand in the way of a request?  A claim of a task is *)
(* refused by an active lease of ANY type on that task; a write scope only *)
(* by another write scope that overlaps it; the other types by nothing.    *)
(***************************************************************************)
Clash(req, held) ==
    /\ req.workspace = held.workspace
    /\ \/ req.type = "task_claim" /\ req.task # NoTask /\ req.task = held.task
       \/ /\ req.type = "write_scope" /\ held.type = "write_scope"
          /\ PathsOverlap(req.scope, held.scope)

\* Faulty: looks only at leases of the request's own type.
ConflictsOfSameType(table, req) ==
    {l \in ActiveLeases(table) :
        Clash(req, table[l].req) /\ table[l].req.type = req.type}

Conflicts(table, req) == {l \in ActiveLeases(table) : Clash(req, table[l].req)}

----------------------------------------------------------------------------

\* Faulty: a status the schema does not know.
InsertedPending(table, l, req) ==
    [table EXCEPT ![l] = [req |-> req, status |-> "pending"]]

\* INSERT INTO work_leases ... VALUES (..., 'active', ...)
Inserted(table, l, req) ==
    [table EXCEPT ![l] = [req |-> req, status |-> "active"]]

WithStatus(table, l, s) == [table EXCEPT ![l].status = s]

\* UPDATE ... SET status = 'released' WHERE id = ? AND status = 'active'
CanRelease(table, l) == l \in ActiveLeases(table)

=============================================================================
