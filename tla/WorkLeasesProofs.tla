-------------------------- MODULE WorkLeasesProofs --------------------------
(***************************************************************************)
(* Proofs about the lease manager of WorkLeases, for every set of lease    *)
(* ids, requests and concurrent callers, and every term.                   *)
(***************************************************************************)
EXTENDS WorkLeases, TLAPS

----------------------------------------------------------------------------
(* The inductive invariant.                                                *)

\* What a call knows when it writes.  The rows an acquire has seen do not
\* stand in its way, a renewal is not older than its lease, and what
\* expire_scan is about to mark has outlived the term it was granted.
LeaseCallInv(c) ==
    /\ calls[c].pc = "insert" =>
          /\ calls[c].at <= now
          /\ calls[c].seen \subseteq Taken(leases)
          /\ \A k \in ActiveLeases(leases) :
                k \in calls[c].seen => ~Clash(calls[c].req, leases[k].req)
    /\ calls[c].pc = "renew" =>
          /\ calls[c].lease \in Taken(leases)
          /\ term[calls[c].lease].acquired <= calls[c].at
          /\ calls[c].at <= now
    /\ calls[c].pc = "expire" =>
          \A l \in calls[c].todo :
              l \in Taken(leases) /\ term[l].acquired + TTL < now

\* A row was not acquired in the future, lasts at least its term, and its
\* check ran against rows that exist.
RowInv(l) ==
    /\ term[l].acquired <= now
    /\ term[l].acquired + TTL <= term[l].expires
    /\ basis[l] \subseteq Taken(leases)

LeaseInv ==
    /\ TypeOK
    /\ \A c \in Callers : LeaseCallInv(c)
    /\ \A l \in Taken(leases) : RowInv(l)

----------------------------------------------------------------------------
(* What a step may do.                                                     *)

\* A call is idle or in one of the three places where it awaits a statement.
LEMMA CallCases ==
    ASSUME TypeOK, NEW c \in Callers
    PROVE  \/ calls[c] = Idle
           \/ /\ calls[c].pc = "insert"
              /\ calls[c] \in [pc : {"insert"}, req : Requests, at : Nat,
                               seen : SUBSET LeaseIds]
           \/ /\ calls[c].pc = "renew"
              /\ calls[c] \in [pc : {"renew"}, lease : LeaseIds, at : Nat]
           \/ /\ calls[c].pc = "expire"
              /\ calls[c] \in [pc : {"expire"}, todo : SUBSET LeaseIds]
BY DEF TypeOK, CallStates

LEMMA IdleType == Idle \in CallStates /\ Idle.pc = "idle"
BY DEF Idle, CallStates

\* A row that is there stays there.
LEMMA StatusType ==
    ASSUME TypeOK, NEW l \in Taken(leases), NEW s \in LeaseStatuses,
           leases' = WithStatus(leases, l, s)
    PROVE  /\ leases' \in LeaseTables
           /\ Taken(leases') = Taken(leases)
           /\ \A k \in Taken(leases) : leases'[k].req = leases[k].req
           /\ \A k \in Taken(leases) : k # l => leases'[k] = leases[k]
           /\ leases'[l].status = s
<1>1. leases[l] \in LeaseRows /\ l \in LeaseIds
  BY DEF TypeOK, LeaseTables, Taken
<1>2. [leases[l] EXCEPT !.status = s] \in LeaseRows
  BY <1>1 DEF LeaseRows
<1>3. leases' = [leases EXCEPT ![l] = [leases[l] EXCEPT !.status = s]]
  BY DEF WithStatus
<1>4. leases' \in LeaseTables
  BY <1>2, <1>3 DEF TypeOK, LeaseTables
<1>5. \A k \in LeaseIds : k # l => leases'[k] = leases[k]
  BY <1>3 DEF TypeOK, LeaseTables
<1>6. leases'[l] = [leases[l] EXCEPT !.status = s]
  BY <1>1, <1>3 DEF TypeOK, LeaseTables
<1>7. leases'[l] # NoRow /\ leases'[l].req = leases[l].req /\ leases'[l].status = s
  BY <1>1, <1>2, <1>6, NoRowAssumption DEF LeaseRows
<1>8. Taken(leases') = Taken(leases)
  BY <1>1, <1>5, <1>7 DEF Taken
<1> QED
  BY <1>4, <1>5, <1>7, <1>8 DEF Taken

\* The INSERT adds one active row under an id that was free.
LEMMA InsertType ==
    ASSUME TypeOK, NEW c \in Callers, NEW l \in LeaseIds, AcquireInsert(c, l)
    PROVE  /\ leases' \in LeaseTables
           /\ calls[c].req \in Requests /\ calls[c].at \in Nat
           /\ calls[c].seen \subseteq LeaseIds
           /\ l \notin Taken(leases)
           /\ Taken(leases') = Taken(leases) \cup {l}
           /\ leases'[l] = [req |-> calls[c].req, status |-> "active"]
           /\ \A k \in Taken(leases) : leases'[k] = leases[k]
<1>1. /\ calls[c].req \in Requests /\ calls[c].at \in Nat
      /\ calls[c].seen \subseteq LeaseIds
  BY CallCases DEF AcquireInsert, Idle
<1> DEFINE row == [req |-> calls[c].req, status |-> "active"]
<1>2. row \in LeaseRows /\ row # NoRow
  BY <1>1, RequestAssumption, NoRowAssumption DEF LeaseRows, LeaseStatuses
<1>3. leases' = [leases EXCEPT ![l] = row]
  BY DEF AcquireInsert, Inserted
<1>4. leases' \in LeaseTables /\ leases'[l] = row
  BY <1>2, <1>3 DEF TypeOK, LeaseTables
<1>5. \A k \in LeaseIds : k # l => leases'[k] = leases[k]
  BY <1>3 DEF TypeOK, LeaseTables
<1>6. l \notin Taken(leases)
  BY DEF AcquireInsert, Taken
<1>7. Taken(leases') = Taken(leases) \cup {l}
  BY <1>2, <1>4, <1>5, <1>6 DEF Taken
<1> QED
  BY <1>1, <1>4, <1>5, <1>6, <1>7 DEF Taken

\* The rows an UPDATE by id names are there.
LEMMA ReleaseTaken ==
    ASSUME NEW c \in Callers, NEW l \in LeaseIds, Release(c, l)
    PROVE  l \in Taken(leases)
BY DEF Release, CanRelease, ActiveLeases

LEMMA ScanTaken ==
    ASSUME LeaseInv, NEW c \in Callers, NEW l \in LeaseIds, ScanWrite(c, l)
    PROVE  l \in Taken(leases) /\ term[l].acquired + TTL < now
BY DEF ScanWrite, LeaseInv, LeaseCallInv

\* Every step keeps the table, the terms, the clock and the calls well typed.
LEMMA TypeStep ==
    ASSUME LeaseInv, [Next]_vars PROVE TypeOK'
<1>0. TypeOK
  BY DEF LeaseInv
<1>1. CASE Tick
  BY <1>0, <1>1 DEF Tick, TypeOK
<1>2. ASSUME NEW c \in Callers, NEW req \in Requests, AcquireCheck(c, req)
      PROVE  TypeOK'
  <2>1. [pc |-> "insert", req |-> req, at |-> now, seen |-> Taken(leases)] \in CallStates
    BY <1>0 DEF CallStates, TypeOK, Taken
  <2> QED
    BY <1>0, <1>2, <2>1 DEF AcquireCheck, Goto, TypeOK
<1>3. ASSUME NEW c \in Callers, NEW l \in LeaseIds, AcquireInsert(c, l)
      PROVE  TypeOK'
  <2>1. leases' \in LeaseTables /\ calls[c].at \in Nat /\ calls[c].seen \subseteq LeaseIds
    BY <1>0, <1>3, InsertType
  <2>2. [acquired |-> calls[c].at, expires |-> calls[c].at + TTL] \in Terms
    BY <2>1, TimeAssumption DEF Terms
  <2> QED
    BY <1>0, <1>3, <2>1, <2>2, IdleType DEF AcquireInsert, Goto, TypeOK
<1>4. ASSUME NEW c \in Callers, NEW l \in LeaseIds, RenewRead(c, l)
      PROVE  TypeOK'
  <2>1. [pc |-> "renew", lease |-> l, at |-> now] \in CallStates
    BY <1>0 DEF CallStates, TypeOK
  <2> QED
    BY <1>0, <1>4, <2>1 DEF RenewRead, Goto, TypeOK
<1>5. ASSUME NEW c \in Callers, RenewWrite(c) PROVE TypeOK'
  <2>1. calls[c].lease \in LeaseIds /\ calls[c].at \in Nat
    BY <1>0, <1>5, CallCases DEF RenewWrite, Idle
  <2>2. term' \in [LeaseIds -> Terms]
    BY <1>0, <1>5, <2>1, TimeAssumption DEF RenewWrite, TypeOK, Terms
  <2> QED
    BY <1>0, <1>5, <2>2, IdleType DEF RenewWrite, Goto, TypeOK
<1>6. ASSUME NEW c \in Callers, NEW l \in LeaseIds, Release(c, l)
      PROVE  TypeOK'
  <2>1. leases' \in LeaseTables
    BY <1>0, <1>6, ReleaseTaken, StatusType DEF Release, LeaseStatuses
  <2> QED
    BY <1>0, <1>6, <2>1 DEF Release, TypeOK
<1>7. ASSUME NEW c \in Callers, ScanRead(c) PROVE TypeOK'
  <2>1. [pc |-> "expire", todo |-> Overdue] \in CallStates
    BY DEF CallStates, Overdue, ActiveLeases, Taken
  <2> QED
    BY <1>0, <1>7, <2>1 DEF ScanRead, Goto, TypeOK
<1>8. ASSUME NEW c \in Callers, NEW l \in LeaseIds, ScanWrite(c, l)
      PROVE  TypeOK'
  <2>1. leases' \in LeaseTables
    BY <1>0, <1>8, ScanTaken, StatusType DEF ScanWrite, LeaseStatuses
  <2>2. [calls[c] EXCEPT !.todo = @ \ {l}] \in CallStates
    BY <1>0, <1>8, CallCases DEF ScanWrite, CallStates, Idle
  <2> QED
    BY <1>0, <1>8, <2>1, <2>2, IdleType DEF ScanWrite, Goto, TypeOK
<1>9. ASSUME NEW c \in Callers, Crash(c) PROVE TypeOK'
  BY <1>0, <1>9, IdleType DEF Crash, Goto, TypeOK
<1>10. CASE UNCHANGED vars
  BY <1>0, <1>10 DEF vars, TypeOK
<1> QED
  BY <1>1, <1>2, <1>3, <1>4, <1>5, <1>6, <1>7, <1>8, <1>9, <1>10 DEF Next

\* Time does not run backwards.
LEMMA TimeStep ==
    ASSUME LeaseInv, [Next]_vars PROVE now \in Nat /\ now' \in Nat /\ now <= now'
<1>1. now \in Nat
  BY DEF LeaseInv, TypeOK
<1>2. now' = now + 1 \/ now' = now
  BY DEF Next, vars, Tick, AcquireCheck, AcquireInsert, RenewRead, RenewWrite,
         Release, ScanRead, ScanWrite, Crash
<1> QED
  BY <1>1, <1>2

\* A row is never deleted, keeps what it was granted for and when, and is not
\* revived; its status only changes to released, or to expired after its term.
LEMMA RowsStep ==
    ASSUME LeaseInv, [Next]_vars, NEW l \in Taken(leases)
    PROVE  /\ l \in Taken(leases')
           /\ leases'[l].req = leases[l].req
           /\ term'[l].acquired = term[l].acquired
           /\ basis'[l] = basis[l]
           /\ leases'[l].status = "active" => leases[l].status = "active"
           /\ leases'[l].status = "expired" =>
                 leases[l].status = "expired" \/ term[l].acquired + TTL < now
<1>0. TypeOK /\ l \in LeaseIds
  BY DEF LeaseInv, Taken
<1>1. ASSUME NEW c \in Callers, NEW k \in LeaseIds, AcquireInsert(c, k)
      PROVE  /\ leases'[l] = leases[l] /\ l \in Taken(leases')
             /\ term'[l] = term[l] /\ basis'[l] = basis[l]
  BY <1>0, <1>1, InsertType DEF AcquireInsert, TypeOK
<1>2. ASSUME NEW c \in Callers, NEW k \in LeaseIds, Release(c, k)
      PROVE  /\ l \in Taken(leases') /\ leases'[l].req = leases[l].req
             /\ leases'[l] = leases[l] \/ leases'[l].status = "released"
             /\ UNCHANGED <<term, basis>>
  BY <1>0, <1>2, ReleaseTaken, StatusType DEF Release, LeaseStatuses
<1>3. ASSUME NEW c \in Callers, NEW k \in LeaseIds, ScanWrite(c, k)
      PROVE  /\ l \in Taken(leases') /\ leases'[l].req = leases[l].req
             /\ \/ leases'[l] = leases[l]
                \/ leases'[l].status = "expired" /\ term[l].acquired + TTL < now
             /\ UNCHANGED <<term, basis>>
  BY <1>0, <1>3, ScanTaken, StatusType DEF ScanWrite, LeaseStatuses
<1>4. ASSUME NEW c \in Callers, RenewWrite(c)
      PROVE  UNCHANGED <<leases, basis>> /\ term'[l].acquired = term[l].acquired
  BY <1>0, <1>4 DEF RenewWrite, TypeOK, Terms
<1>5. \/ UNCHANGED <<leases, term, basis>>
      \/ \E c \in Callers, k \in LeaseIds :
            AcquireInsert(c, k) \/ Release(c, k) \/ ScanWrite(c, k)
      \/ \E c \in Callers : RenewWrite(c)
  BY DEF Next, vars, Tick, AcquireCheck, RenewRead, ScanRead, Crash
<1>6. CASE UNCHANGED <<leases, term, basis>>
  BY <1>6
<1> QED
  BY <1>1, <1>2, <1>3, <1>4, <1>5, <1>6

\* A call is as it was, is over, or has just arrived at its second statement;
\* expire_scan goes on with what it has not yet marked.
LEMMA CallsStep ==
    ASSUME LeaseInv, [Next]_vars, NEW c \in Callers
    PROVE  \/ calls'[c] = calls[c]
           \/ calls'[c].pc = "idle"
           \/ \E req \in Requests :
                 /\ calls'[c] = [pc |-> "insert", req |-> req, at |-> now,
                                 seen |-> Taken(leases)]
                 /\ Conflicts(leases, req) = {}
           \/ \E l \in ActiveLeases(leases) :
                 calls'[c] = [pc |-> "renew", lease |-> l, at |-> now]
           \/ calls'[c] = [pc |-> "expire", todo |-> Overdue]
           \/ /\ calls[c].pc = "expire" /\ calls'[c].pc = "expire"
              /\ calls'[c].todo \subseteq calls[c].todo
<1>0. TypeOK
  BY DEF LeaseInv
<1>1. ASSUME NEW d \in Callers, NEW req \in Requests, AcquireCheck(d, req)
      PROVE  \/ calls'[c] = calls[c]
             \/ /\ calls'[c] = [pc |-> "insert", req |-> req, at |-> now,
                                seen |-> Taken(leases)]
                /\ Conflicts(leases, req) = {}
  BY <1>0, <1>1 DEF AcquireCheck, Goto, TypeOK
<1>2. ASSUME NEW d \in Callers, NEW l \in LeaseIds, RenewRead(d, l)
      PROVE  \/ calls'[c] = calls[c]
             \/ /\ calls'[c] = [pc |-> "renew", lease |-> l, at |-> now]
                /\ l \in ActiveLeases(leases)
  BY <1>0, <1>2 DEF RenewRead, Goto, TypeOK
<1>3. ASSUME NEW d \in Callers, ScanRead(d)
      PROVE  \/ calls'[c] = calls[c]
             \/ calls'[c] = [pc |-> "expire", todo |-> Overdue]
  BY <1>0, <1>3 DEF ScanRead, Goto, TypeOK
<1>4. ASSUME NEW d \in Callers, NEW l \in LeaseIds, ScanWrite(d, l)
      PROVE  \/ calls'[c] = calls[c] \/ calls'[c].pc = "idle"
             \/ /\ calls[c].pc = "expire" /\ calls'[c].pc = "expire"
                /\ calls'[c].todo \subseteq calls[c].todo
  <2>1. CASE c # d
    BY <1>0, <1>4, <2>1 DEF ScanWrite, Goto, TypeOK
  <2>2. CASE c = d
    <3>1. calls[c] \in [pc : {"expire"}, todo : SUBSET LeaseIds]
      BY <1>0, <1>4, <2>2, CallCases DEF ScanWrite, Idle
    <3>2. calls'[c] = Idle \/ calls'[c] = [calls[c] EXCEPT !.todo = @ \ {l}]
      BY <1>0, <1>4, <2>2 DEF ScanWrite, Goto, TypeOK
    <3> QED
      BY <3>1, <3>2, IdleType
  <2> QED
    BY <2>1, <2>2
<1>5. ASSUME NEW d \in Callers,
             Crash(d) \/ RenewWrite(d) \/ \E l \in LeaseIds : AcquireInsert(d, l)
      PROVE  calls'[c] = calls[c] \/ calls'[c].pc = "idle"
  BY <1>0, <1>5, IdleType DEF Crash, RenewWrite, AcquireInsert, Goto, TypeOK
<1>6. ASSUME Tick \/ UNCHANGED vars
             \/ \E d \in Callers, l \in LeaseIds : Release(d, l)
      PROVE  calls'[c] = calls[c]
  BY <1>6 DEF Tick, vars, Release
<1> QED
  BY <1>1, <1>2, <1>3, <1>4, <1>5, <1>6 DEF Next

\* A call that goes on knows what it has to when it writes.
LEMMA CallInvStep ==
    ASSUME LeaseInv, [Next]_vars, NEW c \in Callers
    PROVE  LeaseCallInv(c)'
<1>0. TypeOK /\ LeaseCallInv(c) /\ now \in Nat /\ now' \in Nat /\ now <= now'
  BY TimeStep DEF LeaseInv
<1>1. \A l \in Taken(leases) :
         /\ l \in LeaseIds /\ l \in Taken(leases')
         /\ term[l].acquired \in Nat /\ term[l].expires \in Int
         /\ term'[l].acquired = term[l].acquired
         /\ leases'[l].req = leases[l].req
         /\ leases'[l].status = "active" => leases[l].status = "active"
  BY <1>0, RowsStep DEF TypeOK, Terms, Taken
<1>2. \A l \in ActiveLeases(leases') :
         l \in Taken(leases) => l \in ActiveLeases(leases)
  BY <1>1 DEF ActiveLeases
<1>3. TTL \in Int
  BY TimeAssumption
<1>4. CASE calls'[c] = calls[c]
  <2>1. CASE calls[c].pc = "insert"
    <3>1. calls[c].at \in Nat
      BY <1>0, <2>1, CallCases DEF Idle
    <3> QED
      BY <1>0, <1>1, <1>2, <1>4, <2>1, <3>1 DEF LeaseCallInv
  <2>2. CASE calls[c].pc = "renew"
    <3>1. calls[c].at \in Nat
      BY <1>0, <2>2, CallCases DEF Idle
    <3> QED
      BY <1>0, <1>1, <1>4, <2>2, <3>1 DEF LeaseCallInv
  <2>3. CASE calls[c].pc = "expire"
    BY <1>0, <1>1, <1>3, <1>4, <2>3 DEF LeaseCallInv
  <2>4. CASE calls[c].pc \notin {"insert", "renew", "expire"}
    BY <1>4, <2>4 DEF LeaseCallInv
  <2> QED
    BY <2>1, <2>2, <2>3, <2>4
<1>5. CASE calls'[c].pc = "idle"
  BY <1>5 DEF LeaseCallInv
<1>6. ASSUME NEW req \in Requests, Conflicts(leases, req) = {},
             calls'[c] = [pc |-> "insert", req |-> req, at |-> now,
                          seen |-> Taken(leases)]
      PROVE  LeaseCallInv(c)'
  BY <1>0, <1>1, <1>2, <1>6 DEF LeaseCallInv, Conflicts
<1>7. ASSUME NEW l \in ActiveLeases(leases),
             calls'[c] = [pc |-> "renew", lease |-> l, at |-> now]
      PROVE  LeaseCallInv(c)'
  BY <1>0, <1>1, <1>7 DEF LeaseCallInv, LeaseInv, RowInv, ActiveLeases
<1>8. CASE calls'[c] = [pc |-> "expire", todo |-> Overdue]
  <2>1. \A l \in Overdue : l \in Taken(leases) /\ term[l].acquired + TTL < now
    BY <1>0, <1>1, <1>3 DEF Overdue, ActiveLeases, LeaseInv, RowInv
  <2> QED
    BY <1>0, <1>1, <1>3, <1>8, <2>1 DEF LeaseCallInv
<1>9. CASE /\ calls[c].pc = "expire" /\ calls'[c].pc = "expire"
           /\ calls'[c].todo \subseteq calls[c].todo
  BY <1>0, <1>1, <1>3, <1>9 DEF LeaseCallInv
<1> QED
  BY <1>4, <1>5, <1>6, <1>7, <1>8, <1>9, CallsStep

\* A row that was not there comes from acquire.
LEMMA NewRowStep ==
    ASSUME LeaseInv, [Next]_vars, NEW l \in Taken(leases'), l \notin Taken(leases)
    PROVE  \E c \in Callers : AcquireInsert(c, l)
<1>0. TypeOK
  BY DEF LeaseInv
<1>1. ASSUME NEW c \in Callers, NEW k \in LeaseIds, AcquireInsert(c, k)
      PROVE  k = l
  BY <1>0, <1>1, InsertType
<1>2. ASSUME NEW c \in Callers, NEW k \in LeaseIds, Release(c, k) \/ ScanWrite(c, k)
      PROVE  FALSE
  BY <1>0, <1>2, ReleaseTaken, ScanTaken, StatusType
     DEF Release, ScanWrite, LeaseStatuses
<1> QED
  BY <1>1, <1>2
     DEF Next, vars, Tick, AcquireCheck, RenewRead, RenewWrite, ScanRead, Crash

\* Acquire writes a term, and a renewal does not fall below it.
LEMMA RowInvStep ==
    ASSUME LeaseInv, [Next]_vars, NEW l \in Taken(leases')
    PROVE  RowInv(l)'
<1>0. /\ TypeOK /\ TTL \in Int /\ l \in LeaseIds
      /\ now \in Nat /\ now' \in Nat /\ now <= now'
  BY TimeStep, TimeAssumption DEF LeaseInv, Taken
<1>1. Taken(leases) \subseteq Taken(leases')
  BY RowsStep
<1>2. ASSUME NEW c \in Callers, AcquireInsert(c, l)
      PROVE  RowInv(l)'
  <2>1. /\ calls[c].at \in Nat /\ calls[c].at <= now
        /\ calls[c].seen \subseteq Taken(leases)
    BY <1>0, <1>2, InsertType DEF AcquireInsert, LeaseInv, LeaseCallInv
  <2>2. /\ term'[l] = [acquired |-> calls[c].at, expires |-> calls[c].at + TTL]
        /\ basis'[l] = calls[c].seen
    BY <1>0, <1>2 DEF AcquireInsert, TypeOK
  <2> QED
    BY <1>0, <1>1, <2>1, <2>2 DEF RowInv
<1>3. ASSUME l \in Taken(leases), ~\E c \in Callers : AcquireInsert(c, l)
      PROVE  RowInv(l)'
  <2>1. /\ RowInv(l) /\ term[l].acquired \in Nat /\ term[l].expires \in Int
        /\ term'[l].acquired = term[l].acquired /\ basis'[l] = basis[l]
    BY <1>0, <1>3, RowsStep DEF LeaseInv, TypeOK, Terms
  <2>2. CASE term'[l].expires = term[l].expires
    BY <1>0, <1>1, <2>1, <2>2 DEF RowInv
  <2>3. ASSUME NEW c \in Callers, RenewWrite(c), calls[c].lease = l
        PROVE  RowInv(l)'
    <3>1. calls[c].at \in Nat /\ term[l].acquired <= calls[c].at
      BY <1>0, <2>3, CallCases DEF RenewWrite, LeaseInv, LeaseCallInv, Idle
    <3>2. term'[l].expires = calls[c].at + TTL
      BY <1>0, <2>3 DEF RenewWrite, TypeOK, Terms
    <3> QED
      BY <1>0, <1>1, <2>1, <3>1, <3>2 DEF RowInv
  <2>4. ASSUME NEW c \in Callers, RenewWrite(c), calls[c].lease # l
        PROVE  term'[l] = term[l]
    BY <1>0, <2>4 DEF RenewWrite, TypeOK
  <2>5. ASSUME NEW c \in Callers, NEW k \in LeaseIds, AcquireInsert(c, k)
        PROVE  term'[l] = term[l]
    BY <1>0, <1>3, <2>5 DEF AcquireInsert, TypeOK
  <2>6. \/ term' = term
        \/ \E c \in Callers : RenewWrite(c)
        \/ \E c \in Callers, k \in LeaseIds : AcquireInsert(c, k)
    BY DEF Next, vars, Tick, AcquireCheck, RenewRead, Release, ScanRead,
           ScanWrite, Crash
  <2> QED
    BY <2>2, <2>3, <2>4, <2>5, <2>6
<1> QED
  BY <1>2, <1>3, NewRowStep

----------------------------------------------------------------------------
(* The theorems.                                                           *)

LEMMA LeaseInvariant == Spec => []LeaseInv
<1>1. Init => LeaseInv
  <2> SUFFICES ASSUME Init PROVE LeaseInv
    OBVIOUS
  <2>1. Taken(leases) = {}
    BY DEF Init, Taken
  <2>2. TypeOK
    BY IdleType DEF Init, TypeOK, LeaseTables, Terms
  <2> QED
    BY <2>1, <2>2, IdleType DEF Init, LeaseInv, LeaseCallInv
<1>2. LeaseInv /\ [Next]_vars => LeaseInv'
  BY TypeStep, CallInvStep, RowInvStep DEF LeaseInv
<1> QED
  BY <1>1, <1>2, PTL DEF Spec

(***************************************************************************)
(* The table, the terms, the clock and the calls keep their types through  *)
(* every statement of leases.rs.  It takes LeaseInv: the UPDATEs by id of  *)
(* renew and expire_scan must find the rows an earlier SELECT returned.    *)
(***************************************************************************)
THEOREM LeasesTypeCorrect == Spec => []TypeOK
<1>1. LeaseInv => TypeOK
  BY DEF LeaseInv
<1> QED
  BY <1>1, LeaseInvariant, PTL

(***************************************************************************)
(* Neither the unguarded UPDATE of renew nor that of expire_scan revives a *)
(* released row (leases.rs:113, 170), and no row changes what it is for.   *)
(***************************************************************************)
THEOREM FinishedStayFinished == Spec => FinishedLeasesStayFinished
<1>1. LeaseInv /\ [Next]_vars => [FinishedForGood]_vars
  BY RowsStep DEF FinishedForGood, ActiveLeases
<1> QED
  BY <1>1, LeaseInvariant, PTL DEF Spec, FinishedLeasesStayFinished

(***************************************************************************)
(* A lease marked expired has outlived the term acquire granted, whatever  *)
(* renewals ran between the SELECT and the UPDATE of expire_scan.          *)
(***************************************************************************)
THEOREM NoneExpiresEarly == Spec => []NoLeaseExpiresEarly
<1>1. Init => NoLeaseExpiresEarly
  BY DEF Init, NoLeaseExpiresEarly, OutlivedItsTerm, Taken
<1>2. LeaseInv /\ NoLeaseExpiresEarly /\ [Next]_vars => NoLeaseExpiresEarly'
  <2> SUFFICES ASSUME LeaseInv, NoLeaseExpiresEarly, [Next]_vars,
                      NEW l \in Taken(leases'), leases'[l].status = "expired"
               PROVE  now' > term'[l].acquired + TTL
    BY DEF NoLeaseExpiresEarly, OutlivedItsTerm
  <2>1. l \in Taken(leases)
    <3>1. TypeOK /\ l \in LeaseIds
      BY DEF LeaseInv, Taken
    <3>2. ASSUME NEW c \in Callers, AcquireInsert(c, l) PROVE FALSE
      <4>1. leases'[l] = [req |-> calls[c].req, status |-> "active"]
        BY <3>1, <3>2, InsertType
      <4> QED
        BY <4>1
    <3> QED
      BY <3>2, NewRowStep
  <2>2. /\ term'[l].acquired = term[l].acquired /\ term[l].acquired \in Nat
        /\ leases[l].status = "expired" \/ term[l].acquired + TTL < now
    BY <2>1, RowsStep DEF LeaseInv, TypeOK, Terms, Taken
  <2>3. now \in Nat /\ now' \in Nat /\ now <= now' /\ TTL \in Int
    BY TimeStep, TimeAssumption
  <2> QED
    BY <2>1, <2>2, <2>3 DEF NoLeaseExpiresEarly, OutlivedItsTerm
<1> QED
  BY <1>1, <1>2, LeaseInvariant, PTL DEF Spec

(***************************************************************************)
(* The two together: a lease has its whole term and no second life.        *)
(***************************************************************************)
THEOREM LeasesRun == Spec => LeasesRunTheirTerm
<1>1. NoLeaseExpiresEarly => \A l \in Taken(leases) : OutlivedItsTerm(l)
  BY DEF NoLeaseExpiresEarly
<1> QED
  BY <1>1, FinishedStayFinished, NoneExpiresEarly, PTL DEF LeasesRunTheirTerm

(***************************************************************************)
(* Two active leases conflict only when neither row was there at the check *)
(* of the other: leases.rs:38-64 and every interleaving around it.         *)
(***************************************************************************)
THEOREM OnlyRacesConflict == Spec => []ConflictsOnlyFromRaces
<1>1. Init => ConflictsOnlyFromRaces
  BY DEF Init, ConflictsOnlyFromRaces, ActiveLeases, Taken
<1>2. LeaseInv /\ ConflictsOnlyFromRaces /\ [Next]_vars => ConflictsOnlyFromRaces'
  <2> SUFFICES ASSUME LeaseInv, ConflictsOnlyFromRaces, [Next]_vars,
                      NEW k \in ActiveLeases(leases'), NEW l \in ActiveLeases(leases'),
                      k \in basis'[l]
               PROVE  ~Clash(leases'[l].req, leases'[k].req)
    BY DEF ConflictsOnlyFromRaces
  <2>1. k \in Taken(leases') /\ l \in Taken(leases')
    BY DEF ActiveLeases
  <2>2. CASE l \in Taken(leases)
    <3>1. basis'[l] = basis[l] /\ k \in Taken(leases)
      BY <2>2, RowsStep DEF LeaseInv, RowInv
    <3>2. k \in ActiveLeases(leases) /\ l \in ActiveLeases(leases)
      BY <2>2, <3>1, RowsStep DEF ActiveLeases
    <3> QED
      BY <2>2, <3>1, <3>2, RowsStep DEF ConflictsOnlyFromRaces
  <2>3. CASE l \notin Taken(leases)
    <3>1. PICK c \in Callers : AcquireInsert(c, l)
      BY <2>1, <2>3, NewRowStep
    <3>2. /\ leases'[l].req = calls[c].req /\ basis'[l] = calls[c].seen
          /\ calls[c].pc = "insert"
      <4>1. TypeOK /\ l \in LeaseIds
        BY <2>1 DEF LeaseInv, Taken
      <4>2. leases'[l] = [req |-> calls[c].req, status |-> "active"]
        BY <3>1, <4>1, InsertType
      <4> QED
        BY <3>1, <4>1, <4>2 DEF AcquireInsert, TypeOK
    <3>3. k \in calls[c].seen /\ k \in Taken(leases)
      BY <3>2 DEF LeaseInv, LeaseCallInv
    <3>4. k \in ActiveLeases(leases) /\ leases'[k].req = leases[k].req
      BY <3>3, RowsStep DEF ActiveLeases
    <3> QED
      BY <3>2, <3>3, <3>4 DEF LeaseInv, LeaseCallInv
  <2> QED
    BY <2>2, <2>3
<1> QED
  BY <1>1, <1>2, LeaseInvariant, PTL DEF Spec

----------------------------------------------------------------------------
(* One call at a time.                                                     *)

\* Nothing was inserted since the check, so of two rows the later one has
\* been checked against the earlier one.
SerialInv ==
    /\ \A c \in Callers : calls[c].pc = "insert" => calls[c].seen = Taken(leases)
    /\ \A k, l \in Taken(leases) : k # l => k \in basis[l] \/ l \in basis[k]

\* Among requests of one type, to stand in each other's way is mutual.
LEMMA ClashSymmetric ==
    ASSUME NEW a, NEW b, a.type = b.type, Clash(a, b) PROVE Clash(b, a)
BY DEF Clash, PathsOverlap

LEMMA SerialInvariant ==
    ASSUME \A c, d \in Callers : c = d PROVE Spec => []SerialInv
<1>1. Init => SerialInv
  BY IdleType DEF Init, SerialInv, Taken
<1>2. LeaseInv /\ SerialInv /\ [Next]_vars => SerialInv'
  <2> SUFFICES ASSUME LeaseInv, SerialInv, [Next]_vars PROVE SerialInv'
    OBVIOUS
  <2>1. ASSUME NEW c \in Callers, NEW l \in LeaseIds, AcquireInsert(c, l)
        PROVE  SerialInv'
    <3>1. /\ calls[c].seen = Taken(leases)
          /\ Taken(leases') = Taken(leases) \cup {l}
      BY <2>1, InsertType DEF AcquireInsert, LeaseInv, SerialInv
    <3>2. basis'[l] = Taken(leases) /\ \A k \in Taken(leases) : basis'[k] = basis[k]
      BY <2>1, <3>1, InsertType, RowsStep DEF AcquireInsert, LeaseInv, TypeOK
    <3>3. \A d \in Callers : calls'[d].pc = "idle"
      BY <2>1, IdleType DEF AcquireInsert, Goto, LeaseInv, TypeOK
    <3> QED
      BY <3>1, <3>2, <3>3 DEF SerialInv
  <2>2. ASSUME ~\E c \in Callers, l \in LeaseIds : AcquireInsert(c, l)
        PROVE  SerialInv'
    <3>1. Taken(leases') = Taken(leases)
      BY <2>2, NewRowStep, RowsStep DEF Taken
    <3>2. \A k \in Taken(leases) : basis'[k] = basis[k]
      BY RowsStep
    <3>3. ASSUME NEW c \in Callers, calls'[c].pc = "insert"
          PROVE  calls'[c].seen = Taken(leases)
      <4>1. CASE calls'[c] = calls[c]
        BY <3>3, <4>1 DEF SerialInv
      <4>2. ASSUME NEW req \in Requests,
                   calls'[c] = [pc |-> "insert", req |-> req, at |-> now,
                                seen |-> Taken(leases)]
            PROVE  calls'[c].seen = Taken(leases)
        BY <4>2
      <4>3. ASSUME NEW l \in ActiveLeases(leases),
                   calls'[c] = [pc |-> "renew", lease |-> l, at |-> now]
            PROVE  FALSE
        BY <3>3, <4>3
      <4>4. CASE calls'[c] = [pc |-> "expire", todo |-> Overdue]
        BY <3>3, <4>4
      <4>5. calls'[c].pc \notin {"idle", "expire"}
        BY <3>3
      <4> QED
        BY <4>1, <4>2, <4>3, <4>4, <4>5, CallsStep, Zenon
    <3> QED
      BY <3>1, <3>2, <3>3 DEF SerialInv
  <2> QED
    BY <2>1, <2>2
<1> QED
  BY <1>1, <1>2, LeaseInvariant, PTL DEF Spec

(***************************************************************************)
(* When calls do not overlap, no two active leases of one type conflict,   *)
(* which is what the doc comment of acquire promises (leases.rs:24).       *)
(***************************************************************************)
THEOREM SerialLeasesAreExclusive ==
    ASSUME \A c, d \in Callers : c = d
    PROVE  Spec => []NoConflictingActiveLeases
<1>1. ConflictsOnlyFromRaces /\ SerialInv => NoConflictingActiveLeases
  <2> SUFFICES ASSUME ConflictsOnlyFromRaces, SerialInv,
                      NEW k \in ActiveLeases(leases), NEW l \in ActiveLeases(leases),
                      k # l, leases[k].req.type = leases[l].req.type,
                      Clash(leases[l].req, leases[k].req)
               PROVE  FALSE
    BY DEF NoConflictingActiveLeases
  <2>1. Clash(leases[k].req, leases[l].req)
    BY ClashSymmetric
  <2>2. k \in basis[l] \/ l \in basis[k]
    BY DEF SerialInv, ActiveLeases
  <2> QED
    BY <2>1, <2>2 DEF ConflictsOnlyFromRaces
<1> QED
  BY <1>1, OnlyRacesConflict, SerialInvariant, PTL

=============================================================================
