--------------------------- MODULE Admission_proofs ----------------------------
(***************************************************************************)
(* The invariants of Admission, for every set of requests and of limits.   *)
(*                                                                         *)
(* Two lemmas say what a step does to the requests, RunMoves for RunJob    *)
(* and TenantMoves for all that comes before it; each invariant is then    *)
(* proved from what the few steps that matter to it write.                 *)
(***************************************************************************)
EXTENDS Admission, FiniteSetTheorems, TLAPS

(* An update that another replica serves does nothing here but write, and  *)
(* only updates write.                                                     *)
RemoteWrites ==
    \A r \in Requests :
        /\ Kind(r) = "remote" => At(r, "update")
        /\ At(r, "update") => Kind(r) # "run"

TypeInv == TypeOK /\ RemoteWrites

(* Only the request r has changed, into x.                                 *)
Becomes(r, x) ==
    /\ request'[r] = x
    /\ \A q \in Requests \ {r} : request'[q] = request[q]

Moved(r, step) == [pc |-> step, kind |-> Kind(r), tenant |-> Tenant(r)]

-------------------------------------------------------------------------------
LEMMA IdleType == Idle \in RequestRecords /\ Idle.pc = "idle" /\ Idle.kind = "run"
<1>1. AnyRow \in Rows
  BY LimitsAssumption DEF AnyRow, Rows
<1> QED BY <1>1 DEF Idle, RequestRecords, PCs, Kinds

LEMMA GotoMoves ==
    ASSUME TypeOK, NEW r \in Requests, NEW step \in PCs, Goto(r, step)
    PROVE  /\ Becomes(r, Moved(r, step))
           /\ request' \in [Requests -> RequestRecords]
<1>1. request \in [Requests -> RequestRecords]
  BY DEF TypeOK
<1>2. [request[r] EXCEPT !.pc = step] = Moved(r, step)
  BY <1>1 DEF RequestRecords, Moved, Kind, Tenant
<1>3. Moved(r, step) \in RequestRecords
  BY <1>1 DEF RequestRecords, Moved, Kind, Tenant
<1>4. request' = [request EXCEPT ![r] = Moved(r, step)]
  BY <1>2 DEF Goto
<1> QED BY <1>1, <1>3, <1>4 DEF Becomes

LEMMA EndsMoves ==
    ASSUME TypeOK, NEW r \in Requests, Ends(r)
    PROVE  /\ Becomes(r, Idle)
           /\ request' \in [Requests -> RequestRecords]
BY IdleType DEF TypeOK, Ends, Becomes

LEMMA AllowMoves ==
    ASSUME TypeInv, NEW r \in Requests, ~At(r, "update"), Allow(r)
    PROVE  /\ request' \in [Requests -> RequestRecords]
           /\ \/ Becomes(r, Idle)
              \/ \E step \in {"update", "run"} :
                   step = Kind(r) /\ Becomes(r, Moved(r, step))
<1>1. CASE Ends(r)
  BY <1>1, EndsMoves DEF TypeInv
<1>2. CASE Goto(r, Kind(r))
  <2>1. Kind(r) \in {"update", "run"}
    BY DEF TypeInv, TypeOK, RemoteWrites, RequestRecords, Kinds, Kind
  <2>2. Kind(r) \in PCs
    BY <2>1 DEF PCs
  <2> QED BY <1>2, <2>1, <2>2, GotoMoves DEF TypeInv
<1> QED BY <1>1, <1>2 DEF Allow

(* The steps of RunJob touch nothing of the tenant.                        *)
RunStep(r) ==
    RunUnlimited(r) \/ TakeLock(r) \/ CountRunning(r) \/ Commit(r) \/ Rollback(r)

LEMMA RunMoves ==
    ASSUME TypeInv, NEW r \in Requests, RunStep(r)
    PROVE  /\ UNCHANGED <<limits, tenant, excused>>
           /\ request[r].pc \in {"run", "count", "commit"}
           /\ request' \in [Requests -> RequestRecords]
           /\ \/ Becomes(r, Idle)
              \/ \E step \in {"count", "commit"} : Becomes(r, Moved(r, step))
<1>1. UNCHANGED <<limits, tenant, excused>>
  BY DEF RunStep, RunUnlimited, TakeLock, CountRunning, Commit, Rollback
<1>2. request[r].pc \in {"run", "count", "commit"}
  BY DEF RunStep, RunUnlimited, TakeLock, CountRunning, Commit, Rollback, At
<1>3. \/ Ends(r)
      \/ \E step \in {"count", "commit"} : Goto(r, step)
  <2>1. Ends(r) \/ Goto(r, "count") \/ Goto(r, "commit")
    <3>1. CASE RunUnlimited(r)  BY <3>1 DEF RunUnlimited
    <3>2. CASE TakeLock(r)  BY <3>2 DEF TakeLock
    <3>3. CASE CountRunning(r)  BY <3>3 DEF CountRunning
    <3>4. CASE Commit(r) \/ Rollback(r)  BY <3>4 DEF Commit, Rollback
    <3> QED BY <3>1, <3>2, <3>3, <3>4 DEF RunStep
  <2> QED BY <2>1
<1>4. TypeOK /\ {"count", "commit"} \subseteq PCs
  BY DEF TypeInv, PCs
<1> QED BY <1>1, <1>2, <1>3, <1>4, GotoMoves, EndsMoves

LEMMA AuthenticateMoves ==
    ASSUME TypeInv, NEW r \in Requests, NEW kind \in Kinds, Authenticate(r, kind)
    PROVE  /\ request' \in [Requests -> RequestRecords]
           /\ FirstStep(kind) \in {"load", "update", "run"}
           /\ kind = "remote" => FirstStep(kind) = "update"
           /\ FirstStep(kind) = "update" => kind # "run"
           /\ Becomes(r, [pc |-> FirstStep(kind), kind |-> kind, tenant |-> row])
<1>1. /\ FirstStep(kind) \in {"load", "update", "run"}
      /\ kind = "remote" => FirstStep(kind) = "update"
      /\ FirstStep(kind) = "update" => kind # "run"
  BY DEF FirstStep, Kinds
<1>2. [pc |-> FirstStep(kind), kind |-> kind, tenant |-> row] \in RequestRecords
  BY <1>1 DEF TypeInv, TypeOK, RequestRecords, PCs
<1> QED BY <1>1, <1>2 DEF TypeInv, TypeOK, Authenticate, Becomes

(* A step before RunJob, told by what it does to its request.              *)
LEMMA LoadMoves ==
    ASSUME TypeInv, NEW r \in Requests, LoadLimiter(r)
    PROVE  /\ request' \in [Requests -> RequestRecords]
           /\ \/ Becomes(r, Idle)
              \/ ~(cache # NoLimiter /\ fresh) /\ Becomes(r, Moved(r, "store"))
              \/ \E step \in {"update", "run"} :
                   step = Kind(r) /\ Becomes(r, Moved(r, step))
<1>1. ~At(r, "update")
  BY DEF LoadLimiter, At
<1>2. CASE Allow(r)
  BY <1>1, <1>2, AllowMoves
<1>3. CASE ~(cache # NoLimiter /\ fresh) /\ Goto(r, "store")
  <2>1. TypeOK /\ "store" \in PCs
    BY DEF TypeInv, PCs
  <2> QED BY <1>3, <2>1, GotoMoves
<1> QED BY <1>2, <1>3 DEF LoadLimiter

LEMMA StoreMoves ==
    ASSUME TypeInv, NEW r \in Requests, StoreLimiter(r)
    PROVE  /\ request' \in [Requests -> RequestRecords]
           /\ \/ Becomes(r, Idle)
              \/ \E step \in {"update", "run"} :
                   step = Kind(r) /\ Becomes(r, Moved(r, step))
<1>1. ~At(r, "update")
  BY DEF StoreLimiter, At
<1> QED BY <1>1, AllowMoves DEF StoreLimiter

LEMMA UpdateMoves ==
    ASSUME TypeInv, NEW r \in Requests, UpdateTenant(r)
    PROVE  /\ request' \in [Requests -> RequestRecords]
           /\ \/ Becomes(r, Idle) /\ excused' = TRUE
              \/ /\ Kind(r) = "update" /\ UNCHANGED excused
                 /\ Becomes(r, Moved(r, "invalidate"))
<1>1. TypeOK /\ "invalidate" \in PCs
  BY DEF TypeInv, PCs
<1> QED BY <1>1, GotoMoves, EndsMoves DEF UpdateTenant

-------------------------------------------------------------------------------
(* What the steps do to the rest of the state.                             *)
LEMMA MergeType ==
    ASSUME NEW want \in Wants, NEW old \in Rows
    PROVE  Merge(want, old) \in Rows
BY DEF Merge, Wants, Rows

LEMMA UpdateRow ==
    ASSUME TypeInv, NEW r \in Requests, UpdateTenant(r)
    PROVE  /\ At(r, "update")
           /\ updates' \in 0..MaxUpdates
           /\ UNCHANGED limits
           /\ \E want \in Wants : row' = Merge(want, Tenant(r)) /\ Asks(r, want)
           /\ Tenant(r) \in Rows
<1>1. PICK want \in Wants : Update(r, want)
  BY DEF UpdateTenant
<1>2. updates' \in 0..MaxUpdates
  BY <1>1, UpdatesAssumption DEF Update, TypeInv, TypeOK
<1>3. Tenant(r) \in Rows
  BY DEF TypeInv, TypeOK, RequestRecords, Tenant
<1> QED BY <1>1, <1>2, <1>3 DEF Update

LEMMA InitType == Init => TypeInv
<1> SUFFICES ASSUME Init PROVE TypeInv
  OBVIOUS
<1>1. request \in [Requests -> RequestRecords] /\ RemoteWrites
  BY IdleType DEF Init, TenantsInit, RemoteWrites, Kind, At
<1>2. /\ updates \in 0..MaxUpdates /\ running \in 0..MaxRunning /\ made \in Nat
  BY UpdatesAssumption, RunningAssumption DEF Init, TenantsInit
<1> QED BY <1>1, <1>2 DEF Init, TenantsInit, TypeInv, TypeOK

LEMMA RemoteStill ==
    ASSUME TypeInv, NEW r \in Requests, NEW x, Becomes(r, x),
           x.kind = "remote" => x.pc = "update",
           x.pc = "update" => x.kind # "run"
    PROVE  RemoteWrites'
BY DEF TypeInv, RemoteWrites, Becomes, Kind, At

LEMMA RemoteMoved ==
    ASSUME TypeInv, NEW r \in Requests, ~At(r, "update"), NEW step,
           step = "update" => Kind(r) = "update",
           Becomes(r, Moved(r, step))
    PROVE  RemoteWrites'
<1>1. /\ Moved(r, step).kind # "remote"
      /\ Moved(r, step).pc = "update" => Moved(r, step).kind = "update"
  BY DEF Moved, TypeInv, RemoteWrites
<1> QED BY <1>1, RemoteStill

LEMMA RequestType == TypeInv /\ [Next]_vars =>
    request' \in [Requests -> RequestRecords] /\ RemoteWrites'
<1> SUFFICES ASSUME TypeInv, [Next]_vars
             PROVE  request' \in [Requests -> RequestRecords] /\ RemoteWrites'
  OBVIOUS
<1> DEFINE Goal == request' \in [Requests -> RequestRecords] /\ RemoteWrites'
<1>0. ASSUME NEW r \in Requests, Becomes(r, Idle) PROVE RemoteWrites'
  BY <1>0, RemoteStill, IdleType
<1>1. ASSUME NEW r \in Requests, NEW kind \in Kinds, Authenticate(r, kind)
      PROVE  Goal
  BY <1>1, AuthenticateMoves, RemoteStill
<1>2. ASSUME NEW r \in Requests, LoadLimiter(r) PROVE Goal
  <2>1. ~At(r, "update")
    BY <1>2 DEF LoadLimiter, At
  <2> QED BY <1>2, <2>1, LoadMoves, <1>0, RemoteMoved
<1>3. ASSUME NEW r \in Requests, StoreLimiter(r) PROVE Goal
  <2>1. ~At(r, "update")
    BY <1>3 DEF StoreLimiter, At
  <2> QED BY <1>3, <2>1, StoreMoves, <1>0, RemoteMoved
<1>4. ASSUME NEW r \in Requests, UpdateTenant(r) PROVE Goal
  <2>1. ASSUME Kind(r) = "update", Becomes(r, Moved(r, "invalidate"))
        PROVE  RemoteWrites'
    BY <2>1, RemoteStill DEF Moved
  <2> QED BY <1>4, <2>1, UpdateMoves, <1>0
<1>5. ASSUME NEW r \in Requests, InvalidateTenant(r) \/ UpdateFails(r)
      PROVE  Goal
  BY <1>5, EndsMoves, <1>0 DEF InvalidateTenant, UpdateFails, TypeInv
<1>6. ASSUME NEW r \in Requests, RunStep(r) PROVE Goal
  <2>1. ~At(r, "update")
    BY <1>6, RunMoves DEF At
  <2> QED BY <1>6, <2>1, RunMoves, <1>0, RemoteMoved
<1>7. CASE UNCHANGED request
  BY <1>7 DEF TypeInv, TypeOK, RemoteWrites, Kind, At
<1> QED
  BY <1>1, <1>2, <1>3, <1>4, <1>5, <1>6, <1>7
  DEF Next, Serve, TenantStep, RunStep, Expire, Dequeue, Finish, vars, tenantVars

LEMMA TypeStep == TypeInv /\ [Next]_vars => TypeInv'
<1> SUFFICES ASSUME TypeInv, [Next]_vars PROVE TypeOK'
  BY RequestType DEF TypeInv
<1> USE DEF TypeOK
<1>0. TypeOK /\ request' \in [Requests -> RequestRecords]
  BY RequestType DEF TypeInv
<1>1. ASSUME NEW r \in Requests, NEW kind \in Kinds, Authenticate(r, kind),
             UNCHANGED <<running, lock>>
      PROVE  TypeOK'
  BY <1>0, <1>1 DEF Authenticate, limits
<1>2. ASSUME NEW r \in Requests, LoadLimiter(r), UNCHANGED <<running, lock>>
      PROVE  TypeOK'
  BY <1>0, <1>2 DEF LoadLimiter, limits, tenant
<1>3. ASSUME NEW r \in Requests, StoreLimiter(r), UNCHANGED <<running, lock>>
      PROVE  TypeOK'
  <2>1. Tenant(r).rate \in Rates
    BY <1>0 DEF Tenant, RequestRecords, Rows
  <2>2. made' \in Nat /\ UNCHANGED tenant
    BY <1>0, <1>3 DEF StoreLimiter
  <2>3. /\ cache' \in Rates \cup {NoLimiter}
        /\ fresh' \in BOOLEAN /\ excused' \in BOOLEAN
    BY <1>3, <2>1 DEF StoreLimiter
  <2> QED BY <1>0, <1>3, <2>2, <2>3 DEF tenant
<1>4. ASSUME NEW r \in Requests, UpdateTenant(r), UNCHANGED <<running, lock>>
      PROVE  TypeOK'
  <2>1. PICK want \in Wants : row' = Merge(want, Tenant(r)) /\ Asks(r, want)
    BY <1>4, UpdateRow
  <2>2. row' \in Rows /\ asked' \in Rows
    BY <1>0, <1>4, <2>1, UpdateRow, MergeType DEF Asks
  <2>3. overtaken' \in [Requests -> SUBSET Fields] /\ undone' \in SUBSET Fields
    BY <1>0, <2>1 DEF Asks, Named
  <2>4. excused' \in BOOLEAN
    BY <1>0, <1>4, UpdateMoves
  <2> QED BY <1>0, <1>4, <2>2, <2>3, <2>4, UpdateRow DEF limits
<1>5. ASSUME NEW r \in Requests, InvalidateTenant(r) \/ UpdateFails(r),
             UNCHANGED <<running, lock>>
      PROVE  TypeOK'
  <2>1. CASE InvalidateTenant(r)
    BY <1>0, <1>5, <2>1 DEF InvalidateTenant, tenant
  <2>2. CASE UpdateFails(r)
    BY <1>0, <1>5, <2>2 DEF UpdateFails, limits, tenant
  <2> QED BY <1>5, <2>1, <2>2
<1>6. ASSUME NEW r \in Requests, RunStep(r) PROVE TypeOK'
  <2>1. UNCHANGED running /\ lock' \in Requests \cup {NoRequest}
    <3>1. CASE RunUnlimited(r) \/ TakeLock(r)
      BY <3>1 DEF RunUnlimited, TakeLock, TypeInv
    <3>2. Release(r) => lock' \in Requests \cup {NoRequest}
      BY DEF Release, TypeInv
    <3>3. CASE CountRunning(r)
      BY <3>2, <3>3 DEF CountRunning, TypeInv
    <3>4. CASE Commit(r) \/ Rollback(r)
      BY <3>2, <3>4 DEF Commit, Rollback
    <3> QED BY <1>6, <3>1, <3>3, <3>4 DEF RunStep
  <2> QED BY <1>0, <1>6, <2>1, RunMoves DEF limits, tenant
<1>7. CASE Expire /\ UNCHANGED <<running, lock>>
  BY <1>0, <1>7 DEF Expire, tenant
<1>8. CASE Dequeue \/ Finish
  BY <1>0, <1>8, RunningAssumption
  DEF Dequeue, Finish, tenantVars, limits, tenant
<1>9. CASE UNCHANGED vars
  BY <1>0, <1>9 DEF vars, tenantVars, limits, tenant
<1> QED
  BY <1>1, <1>2, <1>3, <1>4, <1>5, <1>6, <1>7, <1>8, <1>9
  DEF Next, Serve, TenantStep, RunStep

-------------------------------------------------------------------------------
(* A cached limiter is the one for the limits of the row, or the step that *)
(* left it there is accounted for.                                         *)
LEMMA LimiterStep == TypeInv /\ OldLimiterExcused /\ [Next]_vars => OldLimiterExcused'
<1> SUFFICES ASSUME TypeInv, OldLimiterExcused, [Next]_vars
             PROVE  OldLimiterExcused'
  OBVIOUS
(* A request that is not about to invalidate takes nothing away.           *)
<1>0. ASSUME NEW r \in Requests, NEW x, Becomes(r, x), ~At(r, "invalidate"),
             UNCHANGED <<row, cache, excused>>
      PROVE  OldLimiterExcused'
  BY <1>0 DEF OldLimiterExcused, Becomes, At
<1>1. ASSUME NEW r \in Requests, NEW kind \in Kinds, Authenticate(r, kind)
      PROVE  OldLimiterExcused'
  <2>1. ~At(r, "invalidate") /\ UNCHANGED <<row, cache, excused>>
    BY <1>1 DEF Authenticate, At, limits
  <2> QED BY <1>0, <1>1, <2>1, AuthenticateMoves
<1>2. ASSUME NEW r \in Requests, LoadLimiter(r) PROVE OldLimiterExcused'
  <2>1. ~At(r, "invalidate") /\ UNCHANGED <<row, cache, excused>>
    BY <1>2 DEF LoadLimiter, At, limits, tenant
  <2> QED BY <1>0, <1>2, <2>1, LoadMoves
<1>3. ASSUME NEW r \in Requests, StoreLimiter(r) PROVE OldLimiterExcused'
  BY <1>3 DEF StoreLimiter, OldLimiterExcused, tenant
<1>4. ASSUME NEW r \in Requests, UpdateTenant(r) PROVE OldLimiterExcused'
  <2>1. CASE excused'
    BY <2>1 DEF OldLimiterExcused
  <2>2. CASE Becomes(r, Moved(r, "invalidate"))
    BY <2>2 DEF OldLimiterExcused, Becomes, Moved, At
  <2> QED BY <1>4, <2>1, <2>2, UpdateMoves
<1>5. ASSUME NEW r \in Requests, InvalidateTenant(r) PROVE OldLimiterExcused'
  BY <1>5 DEF InvalidateTenant, OldLimiterExcused
<1>6. ASSUME NEW r \in Requests, UpdateFails(r) PROVE OldLimiterExcused'
  <2>1. ~At(r, "invalidate") /\ UNCHANGED <<row, cache, excused>>
    BY <1>6 DEF UpdateFails, At, limits, tenant
  <2> QED BY <1>0, <1>6, <2>1, EndsMoves DEF UpdateFails, TypeInv
<1>7. ASSUME NEW r \in Requests, RunStep(r) PROVE OldLimiterExcused'
  <2>1. ~At(r, "invalidate") /\ UNCHANGED <<row, cache, excused>>
    BY <1>7, RunMoves DEF At, limits, tenant
  <2> QED BY <1>0, <1>7, <2>1, RunMoves
<1>8. CASE UNCHANGED <<row, cache, excused, request>>
  BY <1>8 DEF OldLimiterExcused, At
<1> QED
  BY <1>1, <1>2, <1>3, <1>4, <1>5, <1>6, <1>7, <1>8
  DEF Next, Serve, TenantStep, RunStep, Expire, Dequeue, Finish,
      vars, tenantVars, limits, tenant

-------------------------------------------------------------------------------
(* What an update that is not written has for a limit is what was last     *)
(* asked for, unless others have asked for it since, or it is undone.      *)
LEMMA MergeField ==
    ASSUME NEW want \in Wants, NEW old \in Rows, NEW f \in Fields
    PROVE  Merge(want, old)[f] = IF f \in Named(want) THEN want[f] ELSE old[f]
<1>1. CASE f = "rate"
  BY <1>1 DEF Merge, Named, Fields, Wants, Rows
<1>2. CASE f = "quota"
  BY <1>2 DEF Merge, Named, Fields, Wants, Rows
<1> QED BY <1>1, <1>2 DEF Fields

Carries(r) ==
    \A f \in Fields : Tenant(r)[f] = asked[f] \/ f \in overtaken[r] \/ f \in undone

RowsAreRead == \A r \in Requests : Pending(r) => Carries(r)

UpdatesInv == UpdatesKept /\ RowsAreRead

LEMMA UpdatesStep == TypeInv /\ UpdatesInv /\ [Next]_vars => UpdatesInv'
<1> SUFFICES ASSUME TypeInv, UpdatesInv, [Next]_vars PROVE UpdatesInv'
  OBVIOUS
<1> USE DEF UpdatesInv
(* A request that goes on is the request it was, and one that stops is not *)
(* pending.                                                                *)
<1>0. ASSUME NEW r \in Requests, NEW x, Becomes(r, x), UNCHANGED tenant,
             \/ x.pc \in {"idle", "invalidate"} \/ x.kind = "run"
             \/ Pending(r) /\ x.tenant = Tenant(r)
      PROVE  UpdatesInv'
  <2>1. UpdatesKept'
    BY <1>0 DEF UpdatesKept, tenant
  <2>2. ASSUME NEW q \in Requests, Pending(q)' PROVE Carries(q)'
    <3>1. CASE q = r
      <4>1. Pending(r) /\ request'[r].tenant = Tenant(r)
        BY <1>0, <2>2, <3>1 DEF Pending, Becomes, Kind, At
      <4> QED BY <1>0, <3>1, <4>1 DEF RowsAreRead, Carries, Tenant, tenant
    <3>2. CASE q # r
      BY <1>0, <2>2, <3>2 DEF RowsAreRead, Carries, Pending, Becomes, Kind, Tenant, At, tenant
    <3> QED BY <3>1, <3>2
  <2> QED BY <2>1, <2>2 DEF RowsAreRead
<1>a. ASSUME NEW r \in Requests, NEW step, Becomes(r, Moved(r, step)),
             ~At(r, "idle"), ~At(r, "invalidate"), UNCHANGED tenant
      PROVE  UpdatesInv'
  <2>1. \/ Pending(r) /\ Moved(r, step).tenant = Tenant(r)
        \/ Moved(r, step).kind = "run"
    BY <1>a DEF Pending, Moved, TypeInv, TypeOK, RequestRecords, Kinds, Kind
  <2> QED BY <1>0, <1>a, <2>1
<1>b. ASSUME NEW r \in Requests, Becomes(r, Idle), UNCHANGED tenant
      PROVE  UpdatesInv'
  BY <1>0, <1>b, IdleType
<1>1. ASSUME NEW r \in Requests, NEW kind \in Kinds, Authenticate(r, kind)
      PROVE  UpdatesInv'
  <2>1. UNCHANGED <<row, asked, undone>> /\ overtaken' = [overtaken EXCEPT ![r] = {}]
    BY <1>1 DEF Authenticate
  <2>2. /\ request'[r].tenant = row
        /\ \A q \in Requests \ {r} : request'[q] = request[q]
    <3>1. Becomes(r, [pc |-> FirstStep(kind), kind |-> kind, tenant |-> row])
      BY <1>1, AuthenticateMoves
    <3> QED BY <3>1 DEF Becomes
  <2>3. UpdatesKept'
    BY <2>1 DEF UpdatesKept
  <2>4. Carries(r)'
    BY <2>1, <2>2 DEF Carries, UpdatesKept, Tenant
  <2>5. ASSUME NEW q \in Requests, q # r, Pending(q)' PROVE Carries(q)'
    <3>1. overtaken'[q] = overtaken[q]
      BY <2>1, <2>5 DEF TypeInv, TypeOK
    <3> QED BY <2>1, <2>2, <2>5, <3>1 DEF RowsAreRead, Carries, Pending, Kind, Tenant, At
  <2> QED BY <2>3, <2>4, <2>5 DEF RowsAreRead
<1>2. ASSUME NEW r \in Requests, LoadLimiter(r) PROVE UpdatesInv'
  <2>1. ~At(r, "idle") /\ ~At(r, "invalidate") /\ UNCHANGED tenant
    BY <1>2 DEF LoadLimiter, At
  <2> QED BY <1>a, <1>b, <1>2, <2>1, LoadMoves
<1>3. ASSUME NEW r \in Requests, StoreLimiter(r) PROVE UpdatesInv'
  <2>1. ~At(r, "idle") /\ ~At(r, "invalidate") /\ UNCHANGED tenant
    BY <1>3 DEF StoreLimiter, At
  <2> QED BY <1>a, <1>b, <1>3, <2>1, StoreMoves
<1>4. ASSUME NEW r \in Requests, UpdateTenant(r) PROVE UpdatesInv'
  <2>1. PICK want \in Wants : row' = Merge(want, Tenant(r)) /\ Asks(r, want)
    BY <1>4, UpdateRow
  <2>2. asked \in Rows /\ Tenant(r) \in Rows
    BY <1>4, UpdateRow DEF TypeInv, TypeOK
  <2>3. Pending(r)
    <3>1. At(r, "update")
      BY <1>4, UpdateRow
    <3>2. Kind(r) \in Kinds
      BY DEF TypeInv, TypeOK, RequestRecords, Kind
    <3>3. Kind(r) # "run"
      BY <3>1 DEF TypeInv, RemoteWrites
    <3> QED BY <3>1, <3>2, <3>3 DEF Pending, At, Kinds
  <2>4. UpdatesKept'
    <3> SUFFICES ASSUME NEW f \in Fields PROVE row'[f] = asked'[f] \/ f \in undone'
      BY DEF UpdatesKept
    <3>1. CASE f \in Named(want)
      BY <2>1, <2>2, <3>1, MergeField DEF Asks
    <3>2. CASE f \notin Named(want)
      <4>1. row'[f] = Tenant(r)[f] /\ asked'[f] = asked[f]
        BY <2>1, <2>2, <3>2, MergeField DEF Asks
      <4>2. Tenant(r)[f] = asked[f] \/ f \in overtaken[r] \/ f \in undone
        BY <2>3 DEF RowsAreRead, Carries
      <4> QED BY <2>1, <3>2, <4>1, <4>2 DEF Asks
    <3> QED BY <3>1, <3>2
  <2>5. /\ request'[r].pc \in {"idle", "invalidate"}
        /\ \A q \in Requests \ {r} : request'[q] = request[q]
    <3>1. Becomes(r, Idle) \/ Becomes(r, Moved(r, "invalidate"))
      BY <1>4, UpdateMoves
    <3> QED BY <3>1, IdleType DEF Becomes, Moved
  <2>6. ASSUME NEW q \in Requests, Pending(q)' PROVE Carries(q)'
    <3>1. q # r
      BY <2>5, <2>6 DEF Pending, At
    <3>2. Pending(q) /\ Tenant(q)' = Tenant(q)
      BY <2>5, <2>6, <3>1 DEF Pending, Kind, Tenant, At
    <3>3. overtaken'[q] = overtaken[q] \cup Named(want)
      BY <2>1, <3>1, <3>2 DEF Asks
    <3> SUFFICES ASSUME NEW f \in Fields
                 PROVE  Tenant(q)[f] = asked'[f] \/ f \in overtaken'[q] \/ f \in undone'
      BY <3>2 DEF Carries
    <3>4. CASE f \in Named(want)
      BY <3>3, <3>4
    <3>5. CASE f \notin Named(want)
      <4>1. asked'[f] = asked[f]
        BY <2>1, <2>2, <3>5, MergeField DEF Asks
      <4>2. Tenant(q)[f] = asked[f] \/ f \in overtaken[q] \/ f \in undone
        BY <3>2 DEF RowsAreRead, Carries
      <4> QED BY <2>1, <3>3, <3>5, <4>1, <4>2 DEF Asks
    <3> QED BY <3>4, <3>5
  <2> QED BY <2>4, <2>6 DEF RowsAreRead
<1>5. ASSUME NEW r \in Requests, InvalidateTenant(r) \/ UpdateFails(r)
      PROVE  UpdatesInv'
  <2>1. Ends(r) /\ UNCHANGED tenant
    BY <1>5 DEF InvalidateTenant, UpdateFails
  <2> QED BY <1>b, <2>1, EndsMoves DEF TypeInv
<1>6. ASSUME NEW r \in Requests, RunStep(r) PROVE UpdatesInv'
  <2>1. ~At(r, "idle") /\ ~At(r, "invalidate") /\ UNCHANGED tenant
    BY <1>6, RunMoves DEF At
  <2> QED BY <1>a, <1>b, <1>6, <2>1, RunMoves
<1>7. CASE UNCHANGED <<tenant, request>>
  BY <1>7 DEF UpdatesKept, RowsAreRead, Carries, Pending, Kind, Tenant, At, tenant
<1> QED
  BY <1>1, <1>2, <1>3, <1>4, <1>5, <1>6, <1>7
  DEF Next, Serve, TenantStep, RunStep, Expire, Dequeue, Finish, vars, tenantVars

-------------------------------------------------------------------------------
(* The lock: RunJob has it from its count to the end of its transaction.   *)
LEMMA LockStep == TypeInv /\ LockedWhileAdmitting /\ [Next]_vars => LockedWhileAdmitting'
<1> SUFFICES ASSUME TypeInv, LockedWhileAdmitting, [Next]_vars
             PROVE  LockedWhileAdmitting'
  OBVIOUS
<1> USE DEF Admitting
(* A request that neither was nor is between the two leaves the lock alone.*)
<1>0. ASSUME NEW r \in Requests, NEW x, Becomes(r, x), UNCHANGED lock,
             x.pc \notin {"count", "commit"} /\ request[r].pc \notin {"count", "commit"}
      PROVE  LockedWhileAdmitting'
  BY <1>0 DEF LockedWhileAdmitting, Becomes, Tenant
(* One that stops, and lets go of the lock if it has it.                   *)
<1>a. ASSUME NEW r \in Requests, Becomes(r, Idle), Release(r)
      PROVE  LockedWhileAdmitting'
  BY <1>a, IdleType, NoRequestAssumption
  DEF LockedWhileAdmitting, Becomes, Release, Tenant
(* One that goes on, with a quota or without.                              *)
<1>b. ASSUME NEW r \in Requests, NEW step \in {"count", "commit"},
             Becomes(r, Moved(r, step)),
             \/ UNCHANGED lock /\ Admitting(r)
             \/ UNCHANGED lock /\ ~Admitting(r) /\ Tenant(r).quota = 0
             \/ lock = NoRequest /\ lock' = r /\ Tenant(r).quota > 0
      PROVE  LockedWhileAdmitting'
  <2>1. /\ request'[r].pc \in {"count", "commit"}
        /\ Tenant(r)' = Tenant(r)
    BY <1>b DEF Becomes, Moved, Tenant
  <2>2. \A q \in Requests \ {r} : Admitting(q)' <=> Admitting(q)
    BY <1>b DEF Becomes, Tenant
  <2>3. Tenant(r).quota \in Nat
    BY LimitsAssumption DEF TypeInv, TypeOK, RequestRecords, Rows, Tenant
  <2>4. Admitting(r)' <=> Tenant(r).quota > 0
    BY <2>1
  <2> QED
    BY <1>b, <2>2, <2>3, <2>4, NoRequestAssumption DEF LockedWhileAdmitting
<1>1. ASSUME NEW r \in Requests, NEW kind \in Kinds, Authenticate(r, kind),
             UNCHANGED lock
      PROVE  LockedWhileAdmitting'
  <2>1. request[r].pc \notin {"count", "commit"}
    BY <1>1 DEF Authenticate, At
  <2> QED BY <1>0, <1>1, <2>1, AuthenticateMoves
<1>2. ASSUME NEW r \in Requests, TenantStep(r), UNCHANGED lock
      PROVE  LockedWhileAdmitting'
  <2>1. request[r].pc \notin {"count", "commit"}
    BY <1>2 DEF TenantStep, LoadLimiter, StoreLimiter, UpdateTenant, Update,
                InvalidateTenant, UpdateFails, At
  <2>2. CASE LoadLimiter(r)
    BY <1>0, <1>2, <2>1, <2>2, LoadMoves, IdleType DEF Moved
  <2>3. CASE StoreLimiter(r)
    BY <1>0, <1>2, <2>1, <2>3, StoreMoves, IdleType DEF Moved
  <2>4. CASE UpdateTenant(r)
    BY <1>0, <1>2, <2>1, <2>4, UpdateMoves, IdleType DEF Moved
  <2>5. CASE InvalidateTenant(r) \/ UpdateFails(r)
    BY <1>0, <1>2, <2>1, <2>5, EndsMoves, IdleType
    DEF InvalidateTenant, UpdateFails, TypeInv
  <2> QED BY <1>2, <2>2, <2>3, <2>4, <2>5 DEF TenantStep
<1>3. ASSUME NEW r \in Requests, RunUnlimited(r) PROVE LockedWhileAdmitting'
  <2>1. Becomes(r, Moved(r, "commit"))
    BY <1>3, GotoMoves DEF RunUnlimited, TypeInv, PCs
  <2>2. UNCHANGED lock /\ ~Admitting(r) /\ Tenant(r).quota = 0
    BY <1>3 DEF RunUnlimited, At
  <2> QED BY <1>b, <2>1, <2>2
<1>4. ASSUME NEW r \in Requests, TakeLock(r) PROVE LockedWhileAdmitting'
  <2>1. Becomes(r, Moved(r, "count"))
    BY <1>4, GotoMoves DEF TakeLock, TypeInv, PCs
  <2> QED BY <1>b, <1>4, <2>1 DEF TakeLock
<1>5. ASSUME NEW r \in Requests, CountRunning(r) PROVE LockedWhileAdmitting'
  <2>1. CASE Ends(r) /\ Release(r)
    BY <1>a, <2>1, EndsMoves DEF TypeInv
  <2>2. CASE Goto(r, "commit") /\ UNCHANGED lock
    <3>1. Becomes(r, Moved(r, "commit"))
      BY <2>2, GotoMoves DEF TypeInv, PCs
    <3>2. Admitting(r) \/ (~Admitting(r) /\ Tenant(r).quota = 0)
      <4>1. Tenant(r).quota \in Nat
        BY LimitsAssumption DEF TypeInv, TypeOK, RequestRecords, Rows, Tenant
      <4>2. At(r, "count")
        BY <1>5 DEF CountRunning
      <4> QED BY <4>1, <4>2 DEF At
    <3> QED BY <1>b, <2>2, <3>1, <3>2
  <2> QED BY <1>5, <2>1, <2>2 DEF CountRunning
<1>6. ASSUME NEW r \in Requests, Commit(r) \/ Rollback(r)
      PROVE  LockedWhileAdmitting'
  BY <1>a, <1>6, EndsMoves DEF Commit, Rollback, TypeInv
<1>7. CASE UNCHANGED <<request, lock>>
  BY <1>7 DEF LockedWhileAdmitting, Tenant
<1> QED
  BY <1>1, <1>2, <1>3, <1>4, <1>5, <1>6, <1>7
  DEF Next, Serve, Expire, Dequeue, Finish, vars, tenantVars

-------------------------------------------------------------------------------
(* Limiters: those made since the replica last looked, with those about to *)
(* be made, are no more than the requests in flight.                       *)
Storing == {r \in Requests : At(r, "store")}

LimitersInv ==
    /\ ~fresh => made = 0
    /\ fresh => cache # NoLimiter /\ made + Cardinality(Storing) <= Cardinality(Requests)

LEMMA StoringFinite ==
    /\ IsFiniteSet(Storing) /\ Cardinality(Storing) \in Nat
    /\ Cardinality(Storing) <= Cardinality(Requests)
    /\ Cardinality(Requests) \in Nat
BY RequestsAssumption, FS_Subset, FS_CardinalityType DEF Storing

LEMMA LimitersStep == TypeInv /\ LimitersInv /\ [Next]_vars => LimitersInv'
<1> SUFFICES ASSUME TypeInv, LimitersInv, [Next]_vars PROVE LimitersInv'
  OBVIOUS
<1> USE DEF LimitersInv
(* A request that neither was nor is about to store a limiter.             *)
<1>0. ASSUME NEW r \in Requests, NEW x, Becomes(r, x), x.pc # "store", ~At(r, "store"),
             UNCHANGED <<cache, fresh, made>>
      PROVE  LimitersInv'
  <2>1. Storing' = Storing
    BY <1>0 DEF Storing, Becomes, At
  <2> QED BY <1>0, <2>1
<1>1. ASSUME NEW r \in Requests, NEW kind \in Kinds, Authenticate(r, kind)
      PROVE  LimitersInv'
  <2>1. ~At(r, "store") /\ UNCHANGED <<cache, fresh, made>>
    BY <1>1 DEF Authenticate, At, limits
  <2> QED BY <1>0, <1>1, <2>1, AuthenticateMoves
<1>2. ASSUME NEW r \in Requests, LoadLimiter(r) PROVE LimitersInv'
  <2>1. ~At(r, "store") /\ UNCHANGED <<cache, fresh, made>>
    BY <1>2 DEF LoadLimiter, At, limits
  <2>2. CASE ~(cache # NoLimiter /\ fresh)
    BY <2>1, <2>2
  <2>3. CASE cache # NoLimiter /\ fresh
    BY <1>0, <1>2, <2>1, <2>3, LoadMoves, IdleType DEF Moved
  <2> QED BY <2>2, <2>3
<1>3. ASSUME NEW r \in Requests, StoreLimiter(r) PROVE LimitersInv'
  <2>1. Storing' = Storing \ {r} /\ r \in Storing
    <3>1. \/ Becomes(r, Idle)
          \/ Becomes(r, Moved(r, "update")) \/ Becomes(r, Moved(r, "run"))
      BY <1>3, StoreMoves
    <3>2. /\ request'[r].pc # "store"
          /\ \A q \in Requests \ {r} : request'[q] = request[q]
      BY <3>1, IdleType DEF Becomes, Moved
    <3>3. At(r, "store")
      BY <1>3 DEF StoreLimiter
    <3> QED BY <3>2, <3>3 DEF Storing, At
  <2>2. Cardinality(Storing') = Cardinality(Storing) - 1
    <3>1. Cardinality(Storing \ {r}) = Cardinality(Storing) - 1
      BY <2>1, StoringFinite, FS_RemoveElement
    <3> QED BY <2>1, <3>1
  <2>3. fresh' = TRUE /\ made' = made + 1 /\ cache' # NoLimiter
    BY <1>3, LimitsAssumption
    DEF StoreLimiter, TypeInv, TypeOK, RequestRecords, Rows, Tenant
  <2>4. made \in Nat /\ made + Cardinality(Storing) <= Cardinality(Requests)
    <3>1. made \in Nat
      BY DEF TypeInv, TypeOK
    <3>2. CASE fresh
      BY <3>1, <3>2
    <3>3. CASE ~fresh
      BY <3>1, <3>3, StoringFinite
    <3> QED BY <3>1, <3>2, <3>3
  <2>5. made' + Cardinality(Storing') <= Cardinality(Requests)
    BY <2>2, <2>3, <2>4, StoringFinite
  <2> QED BY <2>3, <2>5
<1>4. ASSUME NEW r \in Requests, UpdateTenant(r) PROVE LimitersInv'
  <2>1. ~At(r, "store") /\ UNCHANGED <<cache, fresh, made>>
    BY <1>4, UpdateRow DEF At, limits
  <2> QED BY <1>0, <1>4, <2>1, UpdateMoves, IdleType DEF Moved
<1>5. ASSUME NEW r \in Requests, InvalidateTenant(r) PROVE LimitersInv'
  BY <1>5 DEF InvalidateTenant
<1>6. ASSUME NEW r \in Requests, UpdateFails(r) PROVE LimitersInv'
  <2>1. ~At(r, "store") /\ UNCHANGED <<cache, fresh, made>>
    BY <1>6 DEF UpdateFails, At, limits
  <2> QED BY <1>0, <1>6, <2>1, EndsMoves, IdleType DEF UpdateFails, TypeInv
<1>7. ASSUME NEW r \in Requests, RunStep(r) PROVE LimitersInv'
  <2>1. ~At(r, "store") /\ UNCHANGED <<cache, fresh, made>>
    BY <1>7, RunMoves DEF At, limits
  <2> QED BY <1>0, <1>7, <2>1, RunMoves, IdleType DEF Moved
<1>8. CASE Expire
  BY <1>8 DEF Expire
<1>9. CASE UNCHANGED <<limits, request>>
  BY <1>9 DEF limits, Storing, At
<1> QED
  BY <1>1, <1>2, <1>3, <1>4, <1>5, <1>6, <1>7, <1>8, <1>9
  DEF Next, Serve, TenantStep, RunStep, Dequeue, Finish, vars, tenantVars

-------------------------------------------------------------------------------
IInv ==
    TypeInv /\ OldLimiterExcused /\ UpdatesInv /\ LockedWhileAdmitting /\ LimitersInv

LEMMA Invariance == Spec => []IInv
<1>1. Init => IInv
  <2>1. ASSUME Init
        PROVE  OldLimiterExcused /\ UpdatesInv /\ LockedWhileAdmitting /\ LimitersInv
    BY <2>1, IdleType, NoRequestAssumption
    DEF Init, TenantsInit, OldLimiterExcused, UpdatesInv, UpdatesKept, RowsAreRead,
        Pending, LockedWhileAdmitting, Admitting, LimitersInv, Kind, At
  <2> QED BY <2>1, InitType DEF IInv
<1>2. IInv /\ [Next]_vars => IInv'
  BY TypeStep, LimiterStep, UpdatesStep, LockStep, LimitersStep DEF IInv
<1> QED BY <1>1, <1>2, PTL DEF Spec

(* Every value is of its kind: what UpdateTenant writes back is a row.     *)
THEOREM TypeCorrect == Spec => []TypeOK
<1>1. IInv => TypeOK
  BY DEF IInv, TypeInv
<1> QED BY <1>1, Invariance, PTL

(* getOrCreateLimiter and InvalidateTenant keep a limiter for the limits   *)
(* the row had at some point only for one of the reasons that are known.   *)
THEOREM OldLimitersExcused == Spec => []OldLimiterExcused
<1>1. IInv => OldLimiterExcused
  BY DEF IInv
<1> QED BY <1>1, Invariance, PTL

(* However the first requests of a tenant race in getOrCreateLimiter, they *)
(* make no more limiters than there are requests in flight.                *)
THEOREM LimitersAreBounded == Spec => []LimitersBounded
<1>1. IInv => LimitersBounded
  BY StoringFinite DEF IInv, LimitersInv, LimitersBounded, TypeInv, TypeOK
<1> QED BY <1>1, Invariance, PTL

(* The row has what was last asked for each limit, but for those that an   *)
(* update wrote back which had read the row before they were asked for.    *)
THEOREM UpdatesAreKept == Spec => []UpdatesKept
<1>1. IInv => UpdatesKept
  BY DEF IInv, UpdatesInv
<1> QED BY <1>1, Invariance, PTL

(* The advisory lock is held from the count of RunJob to the end of its    *)
(* transaction, and by nobody else.                                        *)
THEOREM LockIsHeld == Spec => []LockedWhileAdmitting
<1>1. IInv => LockedWhileAdmitting
  BY DEF IInv
<1> QED BY <1>1, Invariance, PTL
================================================================================
