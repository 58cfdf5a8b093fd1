-------------------------------- MODULE Tenants --------------------------------
(***************************************************************************)
(* The public requests of one tenant on their way through AuthMiddleware   *)
(* (internal/controller/middleware/auth.go), the RateLimiter               *)
(* (middleware/ratelimit.go) and UpdateTenant (handlers/tenants.go).  The  *)
(* module looks at one controller; other replicas, which share the         *)
(* database and nothing else, appear by the updates they serve.            *)
(*                                                                         *)
(* A request works on the row of the tenant as auth read it: to make a     *)
(* limiter, to write the row back, and to admit executions (Admission).    *)
(* Left out: name, callback fields and API key of a tenant, and other      *)
(* tenants, which share nothing with this one but the lock of Admission.   *)
(***************************************************************************)
EXTENDS Naturals, FiniteSets

CONSTANTS
    Requests,     \* bound: public requests being served at the same time
    Rates,        \* values of rate_limit and rate_limit_burst
    Quotas,       \* values of max_concurrent_executions
    Keep,         \* a field an update does not name
    NoLimiter,    \* no entry in the sync.Map
    MaxUpdates    \* bound: UPDATEs of the row

(* 0 stands for all that is not positive, which is no limit.               *)
ASSUME LimitsAssumption ==
    /\ Rates \subseteq Nat /\ Quotas \subseteq Nat
    /\ Rates # {} /\ Quotas # {}
    /\ Keep \notin Rates \cup Quotas
    /\ NoLimiter \notin Rates
ASSUME RequestsAssumption == IsFiniteSet(Requests)
ASSUME UpdatesAssumption == MaxUpdates \in Nat

VARIABLES
    row,       \* the row of tenants: rate_limit (with its burst) and
               \* max_concurrent_executions
    cache,     \* the rate that the cached limiter of the tenant was made for
    fresh,     \* whether expiresAt of that limiter is to come
    request,   \* the requests in flight
    updates,   \* UPDATEs so far
    asked,     \* history: each limit as it was last asked for in an UPDATE
    overtaken, \* history: for each update, the limits that others have asked
               \* for since it read the row
    undone,    \* history: the limits that an update so overtaken wrote back
    excused,   \* history: there is a reason for the cached limiter to be old
    made       \* history: limiters made since the last one was dropped or
               \* expired

limits == <<cache, fresh, made>>
tenant == <<row, updates, asked, overtaken, undone>>
tenantVars == <<limits, tenant, request, excused>>

Fields == {"rate", "quota"}
Rows == [rate : Rates, quota : Quotas]

(* The fields of an update: one that is absent or 0 in the body keeps the  *)
(* value the request has for it.                                           *)
Wants == [rate : Rates \cup {Keep}, quota : Quotas \cup {Keep}]

Merge(want, old) ==
    [rate |-> IF want.rate = Keep THEN old.rate ELSE want.rate,
     quota |-> IF want.quota = Keep THEN old.quota ELSE want.quota]

Named(want) == {f \in Fields : want[f] # Keep}

(* "remote" is an update that another replica serves; a read is a "run"    *)
(* that stops before it writes anything.                                   *)
Kinds == {"update", "remote", "run"}
PCs == {"idle", "load", "store", "update", "invalidate", "run", "count", "commit"}
RequestRecords == [pc : PCs, kind : Kinds, tenant : Rows]
AnyRow == [rate |-> CHOOSE v \in Rates : TRUE, quota |-> CHOOSE v \in Quotas : TRUE]
Idle == [pc |-> "idle", kind |-> "run", tenant |-> AnyRow]

(* CreateTenant has committed the row.                                     *)
TenantsInit ==
    /\ row \in Rows
    /\ cache = NoLimiter /\ fresh = FALSE
    /\ request = [r \in Requests |-> Idle]
    /\ updates = 0
    /\ asked = row /\ undone = {}
    /\ overtaken = [r \in Requests |-> {}]
    /\ excused = FALSE
    /\ made = 0

At(r, step) == request[r].pc = step
Kind(r) == request[r].kind
Tenant(r) == request[r].tenant
Goto(r, step) == request' = [request EXCEPT ![r].pc = step]
Ends(r) == request' = [request EXCEPT ![r] = Idle]

-------------------------------------------------------------------------------
(* AuthMiddleware reads the row of the tenant with this API key.  No more  *)
(* updates come when the bound on them is reached.                         *)
FirstStep(kind) ==
    IF kind = "remote" THEN "update"
    ELSE IF row.rate > 0 THEN "load" ELSE kind

Authenticate(r, kind) ==
    /\ At(r, "idle")
    /\ kind = "run" \/ updates < MaxUpdates
    /\ request' = [request EXCEPT ![r] =
                     [pc |-> FirstStep(kind), kind |-> kind, tenant |-> row]]
    /\ overtaken' = [overtaken EXCEPT ![r] = {}]
    /\ UNCHANGED <<limits, row, updates, asked, undone, excused>>

(* limiter.Allow takes a token or refuses the request with 429.  Either    *)
(* may happen at any time: the tokens of a limiter are not counted.        *)
Allow(r) == Goto(r, Kind(r)) \/ Ends(r)

(* Mutants: the entry is not looked up; its expiry is not looked at.       *)
LoadLimiterNever(r) ==
    /\ At(r, "load")
    /\ Goto(r, "store")
    /\ UNCHANGED <<limits, tenant, excused>>

LoadLimiterForEver(r) ==
    /\ At(r, "load")
    /\ IF cache # NoLimiter THEN Allow(r) ELSE Goto(r, "store")
    /\ UNCHANGED <<limits, tenant, excused>>

(* getOrCreateLimiter: Load, and Store of a new limiter when there is none *)
(* or an expired one.  Other requests may come between the two.            *)
LoadLimiter(r) ==
    /\ At(r, "load")
    /\ IF cache # NoLimiter /\ fresh THEN Allow(r) ELSE Goto(r, "store")
    /\ UNCHANGED <<limits, tenant, excused>>

StoreLimiter(r) ==
    /\ At(r, "store")
    /\ cache' = Tenant(r).rate /\ fresh' = TRUE
    /\ made' = made + 1
    /\ excused' = (Tenant(r).rate # row.rate)
    /\ Allow(r)
    /\ UNCHANGED tenant

(* The TTL of the entry passes.                                            *)
Expire ==
    /\ fresh
    /\ fresh' = FALSE
    /\ made' = 0
    /\ UNCHANGED <<cache, tenant, request, excused>>

-------------------------------------------------------------------------------
(* An update that has read the row and not yet written it.                 *)
Pending(r) ==
    Kind(r) \in {"update", "remote"} /\ ~At(r, "idle") /\ ~At(r, "invalidate")

(* What the UPDATE of r does to the histories.                             *)
Asks(r, want) ==
    /\ asked' = Merge(want, asked)
    /\ undone' = (undone \cup overtaken[r]) \ Named(want)
    /\ overtaken' = [q \in Requests |->
                       IF q # r /\ Pending(q) THEN overtaken[q] \cup Named(want) ELSE {}]

(* Mutant: what the body leaves out is not taken from the tenant.          *)
UpdateAfresh(r, want) ==
    /\ At(r, "update")
    /\ updates < MaxUpdates
    /\ updates' = updates + 1
    /\ row' = Merge(want, AnyRow)
    /\ Asks(r, want)
    /\ UNCHANGED limits

(* UpdateTenant fills in what the body leaves out from the tenant in the   *)
(* context of the request, and writes all columns.                         *)
Update(r, want) ==
    /\ At(r, "update")
    /\ updates < MaxUpdates
    /\ updates' = updates + 1
    /\ row' = Merge(want, Tenant(r))
    /\ Asks(r, want)
    /\ UNCHANGED limits

(* Mutant: the limiter is not invalidated.                                 *)
UpdateTenantSilently(r) ==
    /\ \E want \in Wants : Update(r, want)
    /\ excused' = (excused \/ Kind(r) = "remote")
    /\ Ends(r)

(* Then OnTenantUpdated, unless the UPDATE returned an error, which it may *)
(* do after it was committed.  Other replicas are not told.                *)
UpdateTenant(r) ==
    /\ \E want \in Wants : Update(r, want)
    /\ \/ Kind(r) = "update" /\ Goto(r, "invalidate") /\ UNCHANGED excused
       \/ Ends(r) /\ excused' = TRUE

InvalidateTenant(r) ==
    /\ At(r, "invalidate")
    /\ cache' = NoLimiter /\ fresh' = FALSE
    /\ made' = 0
    /\ excused' = FALSE
    /\ Ends(r)
    /\ UNCHANGED tenant

(* The other replica refuses the request, a query fails, or the client     *)
(* goes away before anything is written.                                   *)
UpdateFails(r) ==
    /\ At(r, "update")
    /\ Ends(r)
    /\ UNCHANGED <<limits, tenant, excused>>

TenantStep(r) ==
    \/ LoadLimiter(r) \/ StoreLimiter(r)
    \/ UpdateTenant(r) \/ InvalidateTenant(r) \/ UpdateFails(r)

-------------------------------------------------------------------------------
(* The cached limiter was made for the rate the row has, or an update here *)
(* is about to drop it, or there is a reason for it to be old: a replica   *)
(* wrote the row, the answer of the UPDATE was lost, or a request stored   *)
(* the limiter that had read the row before the update.  So                *)
(* InvalidateTenant takes effect where no other request is in its way.     *)
OldLimiterExcused ==
    cache # NoLimiter /\ cache # row.rate =>
        excused \/ \E r \in Requests : At(r, "invalidate")

(* First requests that race each make a limiter, with a burst of its own,  *)
(* but there are never more limiters than requests in flight before the    *)
(* replica looks at the row again: what is let through is bounded.         *)
LimitersBounded == made <= Cardinality(Requests)

(* The row has for each limit what was last asked for it.  UpdateTenant    *)
(* writes back all it read, so that of two updates one may undo the other; *)
(* but only where it had read the row before the other wrote it, only a    *)
(* limit it does not name itself, and only until that is asked for again.  *)
UpdatesKept == \A f \in Fields : row[f] = asked[f] \/ f \in undone

(* New limits are in force in the end: the requests that read the old row  *)
(* run out, and cached limiters expire.                                    *)
Limiting(r) == request[r].pc \in {"load", "store"}

UpdatesTakeEffect ==
    <>[][\A r \in Requests :
           Limiting(r) /\ ~Limiting(r)' => cache' = row.rate]_tenantVars
===============================================================================
