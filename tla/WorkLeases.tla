----------------------------- MODULE WorkLeases -----------------------------
(***************************************************************************)
(* The lease manager (crates/conductor-core/src/leases.rs) under           *)
(* concurrent calls.  Every public function is cut at its SQL statements:  *)
(* the pool has five connections and no function opens a transaction, so   *)
(* any other call may run between two statements of one call.              *)
(*                                                                         *)
(*   acquire      check_conflicts (SELECT) ; INSERT                        *)
(*   renew        SELECT + guards          ; UPDATE WHERE id               *)
(*   release      UPDATE WHERE id AND status = 'active'                    *)
(*   expire_scan  SELECT overdue           ; one UPDATE WHERE id per row   *)
(***************************************************************************)
EXTENDS LeaseTable

CONSTANTS
    Callers,     \* concurrent invocations of the module's functions
    Requests,    \* the arguments acquire is called with
    TTL,         \* ttl_seconds of every lease
    MaxTime      \* bound of the clock, for model checking

ASSUME RequestAssumption == Requests \subseteq LeaseRequests

ASSUME TimeAssumption == TTL \in Int /\ MaxTime \in Nat

VARIABLES
    leases,      \* the table
    term,        \* term[l]: acquired_at and expires_at of row l
    now,         \* Utc::now()
    calls,       \* calls[c]: the local state of c's current invocation
    basis        \* history: the rows that were there when l's check ran

vars == <<leases, term, now, calls, basis>>

Terms == [acquired : Nat, expires : Int]

Idle == [pc |-> "idle"]

\* What each function remembers across its await points.
CallStates ==
    {Idle}
    \cup [pc : {"insert"}, req : Requests, at : Nat, seen : SUBSET LeaseIds]
    \cup [pc : {"renew"}, lease : LeaseIds, at : Nat]
    \cup [pc : {"expire"}, todo : SUBSET LeaseIds]

TypeOK ==
    /\ leases \in LeaseTables
    /\ term \in [LeaseIds -> Terms]
    /\ now \in Nat
    /\ calls \in [Callers -> CallStates]
    /\ basis \in [LeaseIds -> SUBSET LeaseIds]

Init ==
    /\ leases = [l \in LeaseIds |-> NoRow]
    /\ term = [l \in LeaseIds |-> [acquired |-> 0, expires |-> 0]]
    /\ now = 0
    /\ calls = [c \in Callers |-> Idle]
    /\ basis = [l \in LeaseIds |-> {}]

----------------------------------------------------------------------------

Goto(c, state) == calls' = [calls EXCEPT ![c] = state]

\* acquire: `now` is read first, then check_conflicts; it bails on a conflict.
AcquireCheck(c, req) ==
    /\ calls[c] = Idle
    /\ Conflicts(leases, req) = {}
    /\ Goto(c, [pc |-> "insert", req |-> req, at |-> now, seen |-> Taken(leases)])
    /\ UNCHANGED <<leases, term, now, basis>>

\* acquire: the INSERT, with the times computed before the check.
AcquireInsert(c, l) ==
    /\ calls[c].pc = "insert"
    /\ leases[l] = NoRow
    /\ leases' = Inserted(leases, l, calls[c].req)
    /\ term' = [term EXCEPT ![l] =
                   [acquired |-> calls[c].at, expires |-> calls[c].at + TTL]]
    /\ basis' = [basis EXCEPT ![l] = calls[c].seen]
    /\ Goto(c, Idle)
    /\ UNCHANGED now

\* renew: the SELECT and its two guards, status and expiry.
RenewRead(c, l) ==
    /\ calls[c] = Idle
    /\ l \in ActiveLeases(leases)
    /\ now <= term[l].expires
    /\ Goto(c, [pc |-> "renew", lease |-> l, at |-> now])
    /\ UNCHANGED <<leases, term, now, basis>>

\* renew: the UPDATE names the row by id only, so it does not look again.
RenewWrite(c) ==
    /\ calls[c].pc = "renew"
    /\ term' = [term EXCEPT ![calls[c].lease].expires = calls[c].at + TTL]
    /\ Goto(c, Idle)
    /\ UNCHANGED <<leases, now, basis>>

\* release: one guarded UPDATE; it bails when no row changed.
Release(c, l) ==
    /\ calls[c] = Idle
    /\ CanRelease(leases, l)
    /\ leases' = WithStatus(leases, l, "released")
    /\ UNCHANGED <<term, now, calls, basis>>

\* Faulty: a lease is overdue in the very moment it expires.
OverdueAtExpiry == {l \in ActiveLeases(leases) : term[l].expires <= now}

Overdue == {l \in ActiveLeases(leases) : term[l].expires < now}

\* expire_scan: the SELECT.
ScanRead(c) ==
    /\ calls[c] = Idle
    /\ Overdue # {}
    /\ Goto(c, [pc |-> "expire", todo |-> Overdue])
    /\ UNCHANGED <<leases, term, now, basis>>

\* expire_scan: one UPDATE of the loop, by id only.
ScanWrite(c, l) ==
    /\ calls[c].pc = "expire"
    /\ l \in calls[c].todo
    /\ leases' = WithStatus(leases, l, "expired")
    /\ Goto(c, IF calls[c].todo = {l} THEN Idle
               ELSE [calls[c] EXCEPT !.todo = @ \ {l}])
    /\ UNCHANGED <<term, now, basis>>

\* The process dies, or the future is dropped at an await point.
Crash(c) ==
    /\ calls[c] # Idle
    /\ Goto(c, Idle)
    /\ UNCHANGED <<leases, term, now, basis>>

Tick ==
    /\ now < MaxTime
    /\ now' = now + 1
    /\ UNCHANGED <<leases, term, calls, basis>>

Next ==
    \/ Tick
    \/ \E c \in Callers :
        \/ \E req \in Requests : AcquireCheck(c, req)
        \/ \E l \in LeaseIds :
            \/ AcquireInsert(c, l)
            \/ RenewRead(c, l)
            \/ Release(c, l)
            \/ ScanWrite(c, l)
        \/ RenewWrite(c)
        \/ ScanRead(c)
        \/ Crash(c)

Spec == Init /\ [][Next]_vars

----------------------------------------------------------------------------
(***************************************************************************)
(* Two active leases may conflict only when the two acquire calls raced:   *)
(* the row of neither had been there when the other was checked.  This is  *)
(* all the check-then-insert of acquire (leases.rs:38-64) guarantees under *)
(* concurrency, and it needs that no path makes a finished lease active    *)
(* again (renew, release and expire_scan run between the two statements).  *)
(***************************************************************************)
ConflictsOnlyFromRaces ==
    \A k, l \in ActiveLeases(leases) :
        k \in basis[l] => ~Clash(leases[l].req, leases[k].req)

(***************************************************************************)
(* A lease that expire_scan has marked expired outlived its whole ttl,     *)
(* whatever renewals ran in between: a late renewal may shorten what an    *)
(* earlier one granted, but never below the term acquire granted.          *)
(***************************************************************************)
OutlivedItsTerm(l) ==
    leases[l].status = "expired" => now > term[l].acquired + TTL

NoLeaseExpiresEarly == \A l \in Taken(leases) : OutlivedItsTerm(l)

(***************************************************************************)
(* A lease that is no longer active never becomes active again, and what   *)
(* it was granted for never changes: neither the unguarded UPDATE of renew *)
(* nor that of expire_scan may revive a released row (leases.rs:113, 170). *)
(***************************************************************************)
FinishedForGood ==
    \A l \in Taken(leases) :
        /\ l \in Taken(leases)' /\ leases'[l].req = leases[l].req
        /\ l \in ActiveLeases(leases)' => l \in ActiveLeases(leases)

FinishedLeasesStayFinished == [][FinishedForGood]_vars

(***************************************************************************)
(* A lease runs for the term it was granted and never comes back after it: *)
(* both although renew and expire_scan write by id what an earlier SELECT  *)
(* of theirs has found (leases.rs:104-119, 147-176).                       *)
(***************************************************************************)
LeasesRunTheirTerm ==
    [](\A l \in Taken(leases) : OutlivedItsTerm(l)) /\ FinishedLeasesStayFinished

(***************************************************************************)
(* What the doc comment of acquire promises (leases.rs:24), for leases of  *)
(* the same type: conflicting active leases are detected, so no two of     *)
(* them exist at once.  It holds when calls do not overlap.  Of different  *)
(* types only the claim asks: a command lease may follow a claim.          *)
(***************************************************************************)
NoConflictingActiveLeases ==
    \A k, l \in ActiveLeases(leases) :
        k # l /\ leases[k].req.type = leases[l].req.type =>
            ~Clash(leases[l].req, leases[k].req)

=============================================================================
