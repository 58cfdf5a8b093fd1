----------------------------- MODULE Agent_proofs -----------------------------
(***************************************************************************)
(* Proofs about the pull loop for every concurrency, backoff and workload. *)
(* ClaimedFits needs to know what was computed from len(sem) earlier in    *)
(* the same iteration: slots counted at "poll" are still free at "fetch",  *)
(* because only Run itself takes tokens.                                   *)
(***************************************************************************)
EXTENDS Agent, TLAPS

(* Nothing is claimed but while a batch is dispatched.                     *)
BatchFits ==
    /\ loop = "fetch" => jobs + slots <= Concurrency
    /\ loop # "dispatch" => claimed = 0
    /\ jobs + claimed <= Concurrency

(* The poll a freed slot calls for is triggered, pending or in progress.   *)
WakeUp == freed => pollNow \/ leaving > 0 \/ loop = "poll"

(* What waits was submitted.                                               *)
WorkWasSubmitted == work <= submitted

IInv == TypeOK /\ WorkWasSubmitted /\ BatchFits /\ WakeUp /\ StopsClean

USE ConcurrencyAssumption, BackoffAssumption, BoundsAssumption
USE DEF ConcurrencyAssumption, BackoffAssumption, BoundsAssumption

(* The types in two halves, numbers and flags: no prover does both.        *)
Numbers ==
    /\ loop \in Places
    /\ slots \in 0..Concurrency /\ size \in 0..Concurrency
    /\ claimed \in 0..Concurrency
    /\ jobs \in Nat /\ leaving \in Nat
    /\ backoff \in 1..MaxBackoff
    /\ work \in 0..MaxWork /\ submitted \in 0..MaxWork
    /\ faults \in 0..MaxFaults

Flags == pollNow \in BOOLEAN /\ freed \in BOOLEAN /\ shutdown \in BOOLEAN

LEMMA Halves == TypeOK <=> Numbers /\ Flags
  BY DEF TypeOK, Numbers, Flags

LEMMA NumbersStep ==
  ASSUME Numbers, WorkWasSubmitted, BatchFits, [Next]_vars
  PROVE  Numbers' /\ WorkWasSubmitted'
<1> USE DEF Numbers, WorkWasSubmitted, Places
<1>1. CASE TimerFires \/ ShutdownSelected \/ Stops
  BY <1>1 DEF TimerFires, ShutdownSelected, Stops, jobVars, batchVars, worldVars
<1>2. CASE PollSelected \/ Dispatch \/ Dispatched
  BY <1>2 DEF PollSelected, Dispatch, Dispatched, jobVars, batchVars, worldVars
<1>3. CASE CountSlots
  <2>1. Concurrency - jobs \in 0..Concurrency
    BY DEF BatchFits
  <2> QED BY <1>3, <2>1 DEF CountSlots, worldVars
<1>4. CASE FetchWork
  <2>1. /\ Least(slots, work) \in 0..Concurrency
        /\ work - Least(slots, work) \in 0..work
    BY DEF Least
  <2>2. Longer \in 1..MaxBackoff
    BY DEF Longer, Least
  <2> QED BY <1>4, <2>1, <2>2 DEF FetchWork, jobVars
<1>5. CASE FetchFails
  <2>1. work' \in 0..work
    BY <1>5 DEF FetchFails, Least
  <2>2. faults' \in 0..MaxFaults
    BY <1>5 DEF FetchFails
  <2> QED BY <1>5, <2>1, <2>2 DEF FetchFails, jobVars, batchVars
<1>6. CASE JobReturns \/ JobTriggers
  BY <1>6 DEF JobReturns, JobTriggers, batchVars, worldVars
<1>7. CASE Submit \/ Sigterm
  BY <1>7 DEF Submit, Sigterm, jobVars, batchVars
<1>8. CASE UNCHANGED vars
  BY <1>8 DEF vars, jobVars, batchVars, worldVars
<1> QED BY <1>1, <1>2, <1>3, <1>4, <1>5, <1>6, <1>7, <1>8 DEF Next, Poll

LEMMA FlagsStep == ASSUME Flags, [Next]_vars PROVE Flags'
<1> USE DEF Flags, jobVars, worldVars
<1>1. CASE TimerFires \/ ShutdownSelected \/ Stops \/ Submit \/ Sigterm
  BY <1>1, Zenon DEF TimerFires, ShutdownSelected, Stops, Submit, Sigterm
<1>2. CASE PollSelected \/ CountSlots \/ FetchWork \/ Dispatch
  BY <1>2, Zenon DEF PollSelected, CountSlots, FetchWork, Dispatch
<1>3. CASE Dispatched
  BY <1>3, Zenon DEF Dispatched
<1>4. CASE FetchFails \/ JobReturns \/ JobTriggers
  BY <1>4, Zenon DEF FetchFails, JobReturns, JobTriggers
<1>5. CASE UNCHANGED vars
  BY <1>5, Zenon DEF vars
<1> QED BY <1>1, <1>2, <1>3, <1>4, <1>5 DEF Next, Poll

(* Only Run takes slots, and it takes what it counted.                     *)
LEMMA BatchStep == ASSUME Numbers, BatchFits, [Next]_vars PROVE BatchFits'
<1> USE DEF Numbers, BatchFits
<1>1. CASE TimerFires \/ ShutdownSelected \/ Stops \/ Submit \/ Sigterm
  BY <1>1 DEF TimerFires, ShutdownSelected, Stops, Submit, Sigterm, jobVars,
              batchVars
<1>2. CASE PollSelected \/ Dispatch \/ Dispatched
  BY <1>2 DEF PollSelected, Dispatch, Dispatched, jobVars, batchVars
<1>3. CASE CountSlots
  BY <1>3 DEF CountSlots
<1>4. CASE FetchWork
  <2>1. Least(slots, work) \in 0..slots
    BY DEF Least
  <2> QED BY <1>4, <2>1 DEF FetchWork, jobVars
<1>5. CASE FetchFails \/ JobReturns \/ JobTriggers
  BY <1>5 DEF FetchFails, JobReturns, JobTriggers, jobVars, batchVars
<1>6. CASE UNCHANGED vars
  BY <1>6 DEF vars, jobVars, batchVars
<1> QED BY <1>1, <1>2, <1>3, <1>4, <1>5, <1>6 DEF Next, Poll

(* A slot is freed before its poll is triggered, and the poll consumes the *)
(* trigger before it counts.                                               *)
LEMMA WakeUpStep == ASSUME Numbers, WakeUp, [Next]_vars PROVE WakeUp'
<1> USE DEF WakeUp
<1>1. CASE TimerFires \/ ShutdownSelected \/ Stops \/ Submit \/ Sigterm
  BY <1>1 DEF TimerFires, ShutdownSelected, Stops, Submit, Sigterm, jobVars
<1>2. CASE Poll
  BY <1>2 DEF Poll, PollSelected, CountSlots, FetchWork, Dispatch, Dispatched,
              jobVars
<1>3. CASE FetchFails \/ JobTriggers
  BY <1>3 DEF FetchFails, JobTriggers, jobVars
<1>4. CASE JobReturns
  <2>1. leaving' > 0
    BY <1>4 DEF JobReturns, Numbers
  <2> QED BY <2>1
<1>5. CASE UNCHANGED vars
  BY <1>5 DEF vars, jobVars
<1> QED BY <1>1, <1>2, <1>3, <1>4, <1>5 DEF Next

(* Nothing starts once Run has left its loop.                              *)
LEMMA StopsStep ==
  ASSUME Numbers, BatchFits, StopsClean, [Next]_vars PROVE StopsClean'
<1> USE DEF Numbers, BatchFits, StopsClean
<1>1. CASE TimerFires \/ ShutdownSelected \/ Stops \/ Submit \/ Sigterm
  BY <1>1 DEF TimerFires, ShutdownSelected, Stops, Submit, Sigterm, jobVars,
              batchVars
<1>2. CASE Poll \/ FetchFails
  BY <1>2 DEF Poll, PollSelected, CountSlots, FetchWork, Dispatch, Dispatched,
              FetchFails
<1>3. CASE JobReturns \/ JobTriggers
  BY <1>3 DEF JobReturns, JobTriggers, batchVars
<1>4. CASE UNCHANGED vars
  BY <1>4 DEF vars, jobVars, batchVars
<1> QED BY <1>1, <1>2, <1>3, <1>4 DEF Next

(* IInv is inductive and holds in every state of the pull loop.            *)
THEOREM Inductive == Spec => []IInv
<1>1. Init => IInv
  <2>1. Init => Numbers /\ WorkWasSubmitted /\ BatchFits /\ StopsClean
    BY DEF Init, Numbers, WorkWasSubmitted, BatchFits, StopsClean, Places
  <2>2. Init => Flags /\ WakeUp
    BY Zenon DEF Init, Flags, WakeUp
  <2> QED BY <2>1, <2>2, Halves DEF IInv
<1>2. IInv /\ [Next]_vars => IInv'
  <2> SUFFICES ASSUME IInv, [Next]_vars PROVE IInv'
    OBVIOUS
  <2>1. TypeOK' <=> Numbers' /\ Flags'
    BY Halves DEF TypeOK, Numbers, Flags
  <2>2. /\ Numbers /\ Flags
        /\ WorkWasSubmitted /\ BatchFits /\ WakeUp /\ StopsClean
    BY Halves DEF IInv
  <2> QED BY <2>1, <2>2, NumbersStep, FlagsStep, BatchStep, WakeUpStep, StopsStep
          DEF IInv
<1> QED BY <1>1, <1>2, PTL DEF Spec

(* The variables of Agent keep their types.                                *)
THEOREM TypeCorrect == Spec => []TypeOK
<1>1. IInv => TypeOK
  BY DEF IInv
<1> QED BY <1>1, Inductive, PTL

(* The send on sem never blocks, and at most Concurrency executions run.   *)
THEOREM SlotsSuffice == Spec => []ClaimedFits
<1>1. IInv => ClaimedFits
  BY DEF IInv, BatchFits, ClaimedFits
<1> QED BY <1>1, Inductive, PTL

(* No slot is freed without a poll that will see it.                       *)
THEOREM NoLostWakeUp == Spec => []NoMissedSlot
<1>1. IInv => NoMissedSlot
  BY DEF IInv, WakeUp, NoMissedSlot
<1> QED BY <1>1, Inductive, PTL

(* The worker that says it is done has no execution left.                  *)
THEOREM DoneMeansDone == Spec => []StopsClean
<1>1. IInv => StopsClean
  BY DEF IInv
<1> QED BY <1>1, Inductive, PTL
===============================================================================
