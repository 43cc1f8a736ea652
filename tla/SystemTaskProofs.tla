-------------------------- MODULE SystemTaskProofs --------------------------
(***************************************************************************)
(* Proofs about SystemTask, for every set of runners, lease length and     *)
(* bound.  Claimed is inductive by itself and gives OneRunnerPerTask.      *)
(* Leased needs MaxStall <= TTL: a claim that is older than the lease it   *)
(* takes may start a task whose lock row is already gone.                  *)
(***************************************************************************)
EXTENDS SystemTask, TLAPS

InClaim == {"acquire", "takeover", "markOld", "start", "release"}

\* A task that was dispatched is past pending and belongs to its runner.
Dispatched ==
    \A r \in Runners, t \in Tasks :
        handler[r][t] # "none" =>
            lockedBy[t] = r /\ status[t] \notin {"absent", "pending"}

\* A task that names a runner is past pending.
Named ==
    \A t \in Tasks :
        lockedBy[t] # NoRunner => status[t] \notin {"absent", "pending"}

\* A claim under way is for a task this runner has not started.
Claiming ==
    \A r \in Runners : pc[r] \in InClaim =>
        /\ cand[r] \in Tasks
        /\ lockedBy[cand[r]] # r
        /\ status[cand[r]] # "absent"

Claimed == TypeOK /\ Dispatched /\ Named /\ Claiming

\* A claim past its acquisition holds the lock row, with its whole lease, and
\* no task runs.
Holding ==
    \A r \in Runners : pc[r] \in {"markOld", "start"} =>
        /\ LockOf(cand[r], r)
        /\ lock.left = TTL - age[r]
        /\ \A t \in Tasks : status[t] # "running"

\* A pass about to take the lock over has not read a time at which the lock
\* row of a running task had expired.
Waiting ==
    \A r \in Runners : pc[r] \in {"acquire", "takeover"} =>
        \A t \in Tasks : status[t] = "running" => lock.left >= -age[r]

\* Nor has a pass about to delete the lock row, for the task it has marked.
Deleting ==
    \A r \in Runners : pc[r] = "expireDelete" =>
        \A t \in Tasks : status[t] = "running" /\ t = seen[r].task
                             => lock.left >= -age[r]

\* A handler that releases its lock has finished its task.
Releasing ==
    \A r \in Runners, t \in Tasks :
        handler[r][t] = "releasing" => status[t] \in {"succeeded", "failed"}

\* Only a pass that has read the clock ages.
Fresh == \A r \in Runners : ~Dated(r) => age[r] = 0

Leases ==
    /\ OneActiveTask /\ RunningTaskHasLock
    /\ Holding /\ Waiting /\ Deleting /\ Releasing /\ Fresh

Leased == Claimed /\ Leases

-----------------------------------------------------------------------------
\* What the steps of the model write into the lock row is a lock row.
LEMMA LockRows ==
    ASSUME TypeOK
    PROVE  /\ NoLock \in Locks
           /\ \A r \in Runners : cand[r] \in Tasks => NewLock(r) \in Locks
           /\ lock # NoLock => WithLeft(TTL) \in Locks
           /\ lock # NoLock /\ lock.left # Floor
                  => WithLeft(lock.left - 1) \in Locks
  BY BoundsAssumption
  DEF NewLock, WithLeft, Locks, TypeOK, Tasks, NoTask, NoLock, Floor

\* What one step of one handler does to the handlers.
LEMMA HandlerUpdate ==
    ASSUME TypeOK, NEW r \in Runners, NEW t \in Tasks,
           NEW state \in HandlerStates, SetHandler(r, t, state)
    PROVE  /\ handler' \in [Runners -> [Tasks -> HandlerStates]]
           /\ \A q \in Runners, u \in Tasks :
                 handler'[q][u] = IF q = r /\ u = t THEN state ELSE handler[q][u]
  BY DEF TypeOK, SetHandler

\* A handler that was dispatched moves on.
LEMMA HandlerMoves ==
    ASSUME TypeOK, NEW r \in Runners, NEW t \in Tasks,
           NEW state \in HandlerStates, SetHandler(r, t, state),
           handler[r][t] # "none"
    PROVE  \A q \in Runners, u \in Tasks :
              handler'[q][u] # "none" => handler[q][u] # "none"
  BY HandlerUpdate

\* Only FinishTask makes a handler release.
LEMMA HandlerReleases ==
    ASSUME TypeOK, NEW r \in Runners, NEW t \in Tasks,
           NEW state \in HandlerStates \ {"releasing"}, SetHandler(r, t, state)
    PROVE  \A q \in Runners, u \in Tasks :
              handler'[q][u] = "releasing" => handler[q][u] = "releasing"
  BY HandlerUpdate

\* Initially no task exists and no runner is at work.
LEMMA ClaimedInit == Init => Claimed
  BY BoundsAssumption
  DEF Init, Claimed, Dispatched, Named, Claiming, TypeOK, Statuses, Stages,
      HandlerStates, Locks, InClaim

\* Every statement of every runner keeps the types.
LEMMA TypeStep == Claimed /\ [Next]_vars => TypeOK'
<1> SUFFICES ASSUME Claimed, [Next]_vars PROVE TypeOK'
  OBVIOUS
<1> USE BoundsAssumption
<1> USE DEF Claimed, TypeOK, Statuses, Stages, HandlerStates, Goto
<1>1. CASE CreateSystemTask
  BY <1>1 DEF CreateSystemTask, Active, pass
<1>2. ASSUME NEW r \in Runners, ExpireScan(r) PROVE TypeOK'
  BY <1>2 DEF ExpireScan
<1>3. ASSUME NEW r \in Runners, ExpireMark(r) PROVE TypeOK'
  BY <1>3 DEF ExpireMark, MarkLeaseExpired
<1>4. ASSUME NEW r \in Runners, ExpireDelete(r) PROVE TypeOK'
  BY <1>4, LockRows DEF ExpireDelete
<1>5. ASSUME NEW r \in Runners, ClaimRead(r) PROVE TypeOK'
  <2>1. cand' \in [Runners -> Tasks \cup {NoTask}]
    BY <1>5 DEF ClaimRead
  <2>2. pc' \in [Runners -> Stages]
    BY <1>5 DEF ClaimRead
  <2>3. QED
    BY <1>5, <2>1, <2>2 DEF ClaimRead
<1>6. ASSUME NEW r \in Runners, AcquireLock(r) PROVE TypeOK'
  <2>1. lock' \in Locks /\ seen' \in [Runners -> Locks]
    BY <1>6, LockRows DEF AcquireLock, EndPass, Claiming, InClaim
  <2>2. pc' \in [Runners -> Stages]
    BY <1>6 DEF AcquireLock, EndPass
  <2>3. cand' \in [Runners -> Tasks \cup {NoTask}] /\ age' \in [Runners -> 0..MaxStall]
    BY <1>6 DEF AcquireLock, EndPass
  <2>4. QED
    BY <1>6, <2>1, <2>2, <2>3 DEF AcquireLock
<1>7. ASSUME NEW r \in Runners, TakeOverLock(r) PROVE TypeOK'
  <2>1. lock' \in Locks /\ seen' \in [Runners -> Locks]
    BY <1>7, LockRows DEF TakeOverLock, EndPass, Claiming, InClaim
  <2>2. pc' \in [Runners -> Stages]
    BY <1>7 DEF TakeOverLock, EndPass
  <2>3. cand' \in [Runners -> Tasks \cup {NoTask}]
    BY <1>7 DEF TakeOverLock, EndPass
  <2>4. age' \in [Runners -> 0..MaxStall]
    BY <1>7 DEF TakeOverLock, EndPass
  <2>5. QED
    BY <1>7, <2>1, <2>2, <2>3, <2>4 DEF TakeOverLock
<1>8. ASSUME NEW r \in Runners, MarkOld(r) PROVE TypeOK'
  BY <1>8 DEF MarkOld, MarkLeaseExpired
<1>9. ASSUME NEW r \in Runners, StartTask(r) PROVE TypeOK'
  <2>1. cand[r] \in Tasks
    BY <1>9 DEF StartTask, Claiming, InClaim
  <2>2. handler' \in [Runners -> [Tasks -> HandlerStates]]
    BY <1>9, <2>1, HandlerUpdate DEF StartTask
  <2>3. seen' \in [Runners -> Locks]
    BY <1>9, LockRows DEF StartTask, EndPass
  <2>4. cand' \in [Runners -> Tasks \cup {NoTask}]
    BY <1>9 DEF StartTask, EndPass
  <2>5. age' \in [Runners -> 0..MaxStall]
    BY <1>9 DEF StartTask, EndPass
  <2>6. pc' \in [Runners -> Stages]
    BY <1>9 DEF StartTask, EndPass
  <2>7. /\ status' \in [Tasks -> Statuses]
        /\ lockedBy' \in [Tasks -> Runners \cup {NoRunner}]
    BY <1>9, <2>1 DEF StartTask
  <2>8. QED
    BY <1>9, <2>2, <2>3, <2>4, <2>5, <2>6, <2>7 DEF StartTask
<1>10. ASSUME NEW r \in Runners, ReleaseClaim(r) PROVE TypeOK'
  BY <1>10, LockRows DEF ReleaseClaim, ReleaseLock, EndPass
<1>11. ASSUME NEW r \in Runners, ClaimFails(r) PROVE TypeOK'
  BY <1>11 DEF ClaimFails
<1>12. ASSUME NEW r \in Runners, Crash(r) PROVE TypeOK'
  BY <1>12, LockRows DEF Crash
<1>13. ASSUME NEW r \in Runners, NEW t \in Tasks, Heartbeat(r, t)
       PROVE  TypeOK'
  BY <1>13, LockRows, HandlerUpdate DEF Heartbeat, MayRenew, LockOf, pass
<1>14. ASSUME NEW r \in Runners, NEW t \in Tasks, FinishTask(r, t)
       PROVE  TypeOK'
  <2>1. status' \in [Tasks -> Statuses]
    BY <1>14 DEF FinishTask
  <2>2. handler' \in [Runners -> [Tasks -> HandlerStates]]
    BY <1>14, HandlerUpdate DEF FinishTask
  <2>3. QED
    BY <1>14, <2>1, <2>2 DEF FinishTask, pass
<1>15. ASSUME NEW r \in Runners, NEW t \in Tasks, FinishRelease(r, t)
       PROVE  TypeOK'
  BY <1>15, LockRows, HandlerUpdate DEF FinishRelease, ReleaseLock, pass
<1>16. ASSUME NEW r \in Runners, NEW t \in Tasks, HandlerCancelled(r, t)
       PROVE  TypeOK'
  BY <1>16, HandlerUpdate DEF HandlerCancelled, pass
<1>17. CASE Tick
  BY <1>17, LockRows DEF Tick, Dated
<1>18. CASE UNCHANGED vars
  BY <1>18 DEF vars
<1>19. QED
  BY <1>1, <1>2, <1>3, <1>4, <1>5, <1>6, <1>7, <1>8, <1>9, <1>10, <1>11,
     <1>12, <1>13, <1>14, <1>15, <1>16, <1>17, <1>18
  DEF Next, Pass, Handle

\* Every statement of every runner keeps Claimed.
LEMMA ClaimedStep == Claimed /\ [Next]_vars => Claimed'
<1> SUFFICES ASSUME Claimed, TypeOK', [Next]_vars
             PROVE  (Dispatched /\ Named /\ Claiming)'
  BY TypeStep DEF Claimed
<1> USE BoundsAssumption
<1> USE DEF Claimed, Dispatched, Named, Claiming, TypeOK, InClaim, Goto, HandlerStates
<1>1. CASE CreateSystemTask
  BY <1>1 DEF CreateSystemTask, Active, pass
<1>2. ASSUME NEW r \in Runners, ExpireScan(r) PROVE (Dispatched /\ Named /\ Claiming)'
  BY <1>2 DEF ExpireScan
<1>3. ASSUME NEW r \in Runners, ExpireMark(r) PROVE (Dispatched /\ Named /\ Claiming)'
  BY <1>3 DEF ExpireMark, MarkLeaseExpired
<1>4. ASSUME NEW r \in Runners, ExpireDelete(r) PROVE (Dispatched /\ Named /\ Claiming)'
  BY <1>4 DEF ExpireDelete
<1>5. ASSUME NEW r \in Runners, ClaimRead(r) PROVE (Dispatched /\ Named /\ Claiming)'
  BY <1>5 DEF ClaimRead
<1>6. ASSUME NEW r \in Runners, AcquireLock(r) PROVE (Dispatched /\ Named /\ Claiming)'
  BY <1>6 DEF AcquireLock, EndPass
<1>7. ASSUME NEW r \in Runners, TakeOverLock(r) PROVE (Dispatched /\ Named /\ Claiming)'
  BY <1>7 DEF TakeOverLock, EndPass
<1>8. ASSUME NEW r \in Runners, MarkOld(r) PROVE (Dispatched /\ Named /\ Claiming)'
  BY <1>8 DEF MarkOld, MarkLeaseExpired
<1>9. ASSUME NEW r \in Runners, StartTask(r) PROVE (Dispatched /\ Named /\ Claiming)'
  <2>1. CASE ~MayStart(cand[r])
    BY <1>9, <2>1 DEF StartTask
  <2>2. CASE MayStart(cand[r])
    <3> DEFINE c == cand[r]
    <3>1. c \in Tasks /\ status[c] = "pending"
      BY <1>9, <2>2 DEF StartTask, MayStart
    <3>2. /\ status' = [status EXCEPT ![c] = "running"]
          /\ lockedBy' = [lockedBy EXCEPT ![c] = r]
          /\ SetHandler(r, c, "running")
          /\ pc' = [pc EXCEPT ![r] = "idle"]
          /\ cand' = [cand EXCEPT ![r] = NoTask]
      BY <1>9, <2>2 DEF StartTask, EndPass
    <3>3. \A q \in Runners : handler[q][c] = "none"
      BY <3>1
    <3>4. Dispatched'
      BY <3>1, <3>2, <3>3, HandlerUpdate DEF HandlerStates
    <3>5. Named' /\ Claiming'
      BY <3>1, <3>2
    <3>6. QED
      BY <3>4, <3>5
  <2>3. QED
    BY <2>1, <2>2
<1>10. ASSUME NEW r \in Runners, ReleaseClaim(r) PROVE (Dispatched /\ Named /\ Claiming)'
  BY <1>10 DEF ReleaseClaim, EndPass
<1>11. ASSUME NEW r \in Runners, ClaimFails(r) PROVE (Dispatched /\ Named /\ Claiming)'
  BY <1>11 DEF ClaimFails
<1>12. ASSUME NEW r \in Runners, Crash(r) PROVE (Dispatched /\ Named /\ Claiming)'
  BY <1>12 DEF Crash
<1>13. ASSUME NEW r \in Runners, NEW t \in Tasks, Heartbeat(r, t)
       PROVE  (Dispatched /\ Named /\ Claiming)'
  <2>1. \A q \in Runners, u \in Tasks :
            handler'[q][u] # "none" => handler[q][u] # "none"
    BY <1>13, HandlerMoves DEF Heartbeat
  <2>2. QED
    BY <1>13, <2>1 DEF Heartbeat, pass
<1>14. ASSUME NEW r \in Runners, NEW t \in Tasks, FinishTask(r, t)
       PROVE  (Dispatched /\ Named /\ Claiming)'
  <2>1. \A u \in Tasks : status'[u] = status[u] \/ status'[u] \in {"succeeded", "failed"}
    BY <1>14 DEF FinishTask
  <2>2. \A q \in Runners, u \in Tasks :
            handler'[q][u] # "none" => handler[q][u] # "none"
    BY <1>14, HandlerMoves DEF FinishTask
  <2>3. lockedBy' = lockedBy /\ pc' = pc /\ cand' = cand
    BY <1>14 DEF FinishTask, pass
  <2>4. Dispatched'
    <3> SUFFICES ASSUME NEW q \in Runners, NEW u \in Tasks, handler'[q][u] # "none"
                 PROVE  lockedBy'[u] = q /\ status'[u] \notin {"absent", "pending"}
      OBVIOUS
    <3>1. lockedBy[u] = q /\ status[u] \notin {"absent", "pending"}
      BY <2>2
    <3>2. QED
      BY <2>1, <2>3, <3>1
  <2>5. Named'
    BY <2>1, <2>3
  <2>6. Claiming'
    BY <2>1, <2>3
  <2>7. QED
    BY <2>4, <2>5, <2>6
<1>15. ASSUME NEW r \in Runners, NEW t \in Tasks, FinishRelease(r, t)
       PROVE  (Dispatched /\ Named /\ Claiming)'
  BY <1>15, HandlerUpdate DEF FinishRelease, pass
<1>16. ASSUME NEW r \in Runners, NEW t \in Tasks, HandlerCancelled(r, t)
       PROVE  (Dispatched /\ Named /\ Claiming)'
  BY <1>16, HandlerUpdate DEF HandlerCancelled, pass
<1>17. CASE Tick
  BY <1>17 DEF Tick, Dated
<1>18. CASE UNCHANGED vars
  BY <1>18 DEF vars
<1>19. QED
  BY <1>1, <1>2, <1>3, <1>4, <1>5, <1>6, <1>7, <1>8, <1>9, <1>10, <1>11,
     <1>12, <1>13, <1>14, <1>15, <1>16, <1>17, <1>18
  DEF Next, Pass, Handle

\* Every variable keeps its type.
THEOREM TypeCorrect == Spec => []TypeOK
<1>1. Claimed => TypeOK
  BY DEF Claimed
<1>2. QED
  BY <1>1, ClaimedInit, ClaimedStep, PTL DEF Spec

\* No two runners dispatch the same task, however leases expire during
\* claims: the UPDATE from pending to running decides (ClaimSystemTask).
THEOREM SingleExecution == Spec => []OneRunnerPerTask
<1>1. Claimed => OneRunnerPerTask
  BY DEF Claimed, Dispatched, OneRunnerPerTask
<1>2. QED
  BY <1>1, ClaimedInit, ClaimedStep, PTL DEF Spec

-----------------------------------------------------------------------------
\* No statement of any runner changes a finished task.
LEMMA FinishedStep ==
    ASSUME Claimed, [Next]_vars,
           NEW u \in Tasks, status[u] \in {"succeeded", "failed"}
    PROVE  status'[u] = status[u]
<1> USE DEF Claimed, TypeOK
<1>1. CASE CreateSystemTask
  BY <1>1 DEF CreateSystemTask
<1>2. ASSUME NEW r \in Runners, ExpireScan(r) PROVE status'[u] = status[u]
  BY <1>2 DEF ExpireScan
<1>3. ASSUME NEW r \in Runners, ExpireMark(r) PROVE status'[u] = status[u]
  BY <1>3 DEF ExpireMark, MarkLeaseExpired
<1>4. ASSUME NEW r \in Runners, ExpireDelete(r) PROVE status'[u] = status[u]
  BY <1>4 DEF ExpireDelete
<1>5. ASSUME NEW r \in Runners, ClaimRead(r) PROVE status'[u] = status[u]
  BY <1>5 DEF ClaimRead
<1>6. ASSUME NEW r \in Runners, AcquireLock(r) PROVE status'[u] = status[u]
  BY <1>6 DEF AcquireLock
<1>7. ASSUME NEW r \in Runners, TakeOverLock(r) PROVE status'[u] = status[u]
  BY <1>7 DEF TakeOverLock
<1>8. ASSUME NEW r \in Runners, MarkOld(r) PROVE status'[u] = status[u]
  BY <1>8 DEF MarkOld, MarkLeaseExpired
<1>9. ASSUME NEW r \in Runners, StartTask(r) PROVE status'[u] = status[u]
  BY <1>9 DEF StartTask, MayStart, Claiming, InClaim
<1>10. ASSUME NEW r \in Runners, ReleaseClaim(r) PROVE status'[u] = status[u]
  BY <1>10 DEF ReleaseClaim
<1>11. ASSUME NEW r \in Runners, ClaimFails(r) PROVE status'[u] = status[u]
  BY <1>11 DEF ClaimFails
<1>12. ASSUME NEW r \in Runners, Crash(r) PROVE status'[u] = status[u]
  BY <1>12 DEF Crash
<1>13. ASSUME NEW r \in Runners, NEW t \in Tasks, Heartbeat(r, t)
       PROVE  status'[u] = status[u]
  BY <1>13 DEF Heartbeat
<1>14. ASSUME NEW r \in Runners, NEW t \in Tasks, FinishTask(r, t)
       PROVE  status'[u] = status[u]
  BY <1>14 DEF FinishTask, MayWrite
<1>15. ASSUME NEW r \in Runners, NEW t \in Tasks, FinishRelease(r, t)
       PROVE  status'[u] = status[u]
  BY <1>15 DEF FinishRelease
<1>16. ASSUME NEW r \in Runners, NEW t \in Tasks, HandlerCancelled(r, t)
       PROVE  status'[u] = status[u]
  BY <1>16 DEF HandlerCancelled
<1>17. CASE Tick
  BY <1>17 DEF Tick
<1>18. CASE UNCHANGED vars
  BY <1>18 DEF vars
<1>19. QED
  BY <1>1, <1>2, <1>3, <1>4, <1>5, <1>6, <1>7, <1>8, <1>9, <1>10, <1>11,
     <1>12, <1>13, <1>14, <1>15, <1>16, <1>17, <1>18
  DEF Next, Pass, Handle

\* A finished task never changes again: every UPDATE of status is conditional
\* on the status it replaces (FinishSystemTask, MarkSystemTaskLeaseExpired).
THEOREM FinishedForGood == Spec => FinishedIsFinal
<1>1. Claimed /\ [Next]_vars =>
        [\A t \in Tasks : status[t] \in {"succeeded", "failed"}
                               => status'[t] = status[t]]_vars
  BY FinishedStep
<1>2. QED
  BY <1>1, ClaimedInit, ClaimedStep, PTL DEF Spec, FinishedIsFinal

-----------------------------------------------------------------------------
\* The fields of a lock row.
LEMMA LockFields ==
    ASSUME TypeOK
    PROVE  /\ NoLock.by = NoRunner
           /\ lock # NoLock => /\ lock.task \in Tasks /\ lock.by \in Runners
                               /\ lock.left \in Int
           /\ \A r \in Runners : NewLock(r) # NoLock
  BY BoundsAssumption DEF TypeOK, Locks, NoLock, NewLock, Floor

LEMMA LeasedInit == Init => Leased
  BY ClaimedInit
  DEF Init, Leased, Leases, OneActiveTask, Active, RunningTaskHasLock, Holding, Waiting,
      Deleting, Releasing, Fresh

\* No task runs and no claim holds the lock row.
Unheld ==
    /\ \A t \in Tasks : status[t] # "running"
    /\ \A r \in Runners : pc[r] \notin {"markOld", "start"}

\* A claim takes no longer than a lease lasts: every statement keeps Leased.
LEMMA LeasedStep ==
    ASSUME MaxStall <= TTL, Leased, [Next]_vars
    PROVE  Leased'
<1> SUFFICES ASSUME Claimed, Claimed' PROVE Leases'
  BY ClaimedStep DEF Leased
<1>0. /\ OneActiveTask /\ RunningTaskHasLock /\ Holding
      /\ Waiting /\ Deleting /\ Releasing /\ Fresh
  BY DEF Leased, Leases
<1> USE BoundsAssumption, <1>0
<1> USE DEF Claimed, TypeOK, Goto
<1>1. CASE CreateSystemTask
  <2>1. OneActiveTask'
    BY <1>1 DEF CreateSystemTask, pass, OneActiveTask, Active
  <2>2. RunningTaskHasLock'
    BY <1>1 DEF CreateSystemTask, pass, RunningTaskHasLock, LockOf
  <2>3. Holding'
    BY <1>1 DEF CreateSystemTask, pass, Holding, LockOf
  <2>4. Waiting'
    BY <1>1 DEF CreateSystemTask, pass, Waiting
  <2>5. Deleting'
    BY <1>1 DEF CreateSystemTask, pass, Deleting
  <2>6. Releasing'
    BY <1>1 DEF CreateSystemTask, pass, Releasing
  <2>7. Fresh'
    BY <1>1 DEF CreateSystemTask, pass, Fresh, Dated
  <2>8. QED
    BY <2>1, <2>2, <2>3, <2>4, <2>5, <2>6, <2>7 DEF Leases
<1>2. ASSUME NEW r \in Runners, ExpireScan(r) PROVE Leases'
  <2>1. OneActiveTask'
    BY <1>2 DEF ExpireScan, OneActiveTask, Active
  <2>2. RunningTaskHasLock'
    BY <1>2 DEF ExpireScan, RunningTaskHasLock, LockOf
  <2>3. Holding'
    BY <1>2 DEF ExpireScan, Holding, LockOf
  <2>4. Waiting'
    BY <1>2 DEF ExpireScan, Waiting
  <2>5. Deleting'
    BY <1>2 DEF ExpireScan, Deleting
  <2>6. Releasing'
    BY <1>2 DEF ExpireScan, Releasing
  <2>7. Fresh'
    BY <1>2 DEF ExpireScan, Fresh, Dated
  <2>8. QED
    BY <2>1, <2>2, <2>3, <2>4, <2>5, <2>6, <2>7 DEF Leases
<1>3. ASSUME NEW r \in Runners, ExpireMark(r) PROVE Leases'
  <2>1. OneActiveTask'
    BY <1>3 DEF ExpireMark, MarkLeaseExpired, OneActiveTask, Active
  <2>2. RunningTaskHasLock'
    BY <1>3 DEF ExpireMark, MarkLeaseExpired, RunningTaskHasLock, LockOf
  <2>3. Holding'
    BY <1>3 DEF ExpireMark, MarkLeaseExpired, Holding, LockOf
  <2>4. Waiting'
    BY <1>3 DEF ExpireMark, MarkLeaseExpired, Waiting
  <2>5. Deleting'
    BY <1>3 DEF ExpireMark, MarkLeaseExpired, Deleting
  <2>6. Releasing'
    BY <1>3 DEF ExpireMark, MarkLeaseExpired, Releasing
  <2>7. Fresh'
    BY <1>3 DEF ExpireMark, MarkLeaseExpired, Fresh, Dated
  <2>8. QED
    BY <2>1, <2>2, <2>3, <2>4, <2>5, <2>6, <2>7 DEF Leases
<1>4. ASSUME NEW r \in Runners, ExpireDelete(r) PROVE Leases'
  <2>0. lock' = lock \/ Unheld
    BY <1>4, LockFields DEF ExpireDelete, Stale, RunningTaskHasLock, Holding, Deleting, LockOf, Unheld
  <2>1. OneActiveTask'
    BY <1>4, <2>0 DEF ExpireDelete, OneActiveTask, Active
  <2>2. RunningTaskHasLock'
    BY <1>4, <2>0 DEF ExpireDelete, RunningTaskHasLock, LockOf, Unheld
  <2>3. Holding'
    BY <1>4, <2>0 DEF ExpireDelete, Holding, LockOf, Unheld
  <2>4. Waiting'
    BY <1>4, <2>0 DEF ExpireDelete, Waiting, Unheld
  <2>5. Deleting'
    BY <1>4, <2>0 DEF ExpireDelete, Deleting, Unheld
  <2>6. Releasing'
    BY <1>4, <2>0 DEF ExpireDelete, Releasing
  <2>7. Fresh'
    BY <1>4, <2>0 DEF ExpireDelete, Fresh, Dated
  <2>8. QED
    BY <2>1, <2>2, <2>3, <2>4, <2>5, <2>6, <2>7 DEF Leases
<1>5. ASSUME NEW r \in Runners, ClaimRead(r) PROVE Leases'
  <2>1. OneActiveTask'
    BY <1>5 DEF ClaimRead, OneActiveTask, Active
  <2>2. RunningTaskHasLock'
    BY <1>5 DEF ClaimRead, RunningTaskHasLock, LockOf
  <2>3. Holding'
    BY <1>5 DEF ClaimRead, Holding, LockOf
  <2>4. Waiting'
    BY <1>5 DEF ClaimRead, Waiting, OneActiveTask, Active
  <2>5. Deleting'
    BY <1>5 DEF ClaimRead, Deleting
  <2>6. Releasing'
    BY <1>5 DEF ClaimRead, Releasing
  <2>7. Fresh'
    BY <1>5 DEF ClaimRead, Fresh, Dated
  <2>8. QED
    BY <2>1, <2>2, <2>3, <2>4, <2>5, <2>6, <2>7 DEF Leases
<1>6. ASSUME NEW r \in Runners, AcquireLock(r) PROVE Leases'
  <2>0. lock' = lock \/ Unheld
    BY <1>6, LockFields DEF AcquireLock, EndPass, RunningTaskHasLock, Holding, LockOf, Unheld
  <2>1. OneActiveTask'
    BY <1>6, LockFields, <2>0 DEF AcquireLock, EndPass, NewLock, OneActiveTask, Active
  <2>2. RunningTaskHasLock'
    BY <1>6, LockFields, <2>0 DEF AcquireLock, EndPass, NewLock, RunningTaskHasLock, LockOf, Unheld
  <2>3. Holding'
    BY <1>6, LockFields, <2>0 DEF AcquireLock, EndPass, NewLock, Holding, LockOf, Unheld
  <2>4. Waiting'
    BY <1>6, LockFields, <2>0 DEF AcquireLock, EndPass, NewLock, Waiting, Unheld
  <2>5. Deleting'
    BY <1>6, LockFields, <2>0 DEF AcquireLock, EndPass, NewLock, Deleting, Unheld
  <2>6. Releasing'
    BY <1>6, LockFields, <2>0 DEF AcquireLock, EndPass, NewLock, Releasing
  <2>7. Fresh'
    BY <1>6, LockFields, <2>0 DEF AcquireLock, EndPass, NewLock, Fresh, Dated
  <2>8. QED
    BY <2>1, <2>2, <2>3, <2>4, <2>5, <2>6, <2>7 DEF Leases
<1>7. ASSUME NEW r \in Runners, TakeOverLock(r) PROVE Leases'
  <2>0. lock' = lock \/ Unheld
    BY <1>7, LockFields DEF TakeOverLock, EndPass, Stale, RunningTaskHasLock, Holding, Waiting, LockOf, Unheld
  <2>1. OneActiveTask'
    BY <1>7, LockFields, <2>0 DEF TakeOverLock, EndPass, NewLock, OneActiveTask, Active
  <2>2. RunningTaskHasLock'
    BY <1>7, LockFields, <2>0 DEF TakeOverLock, EndPass, NewLock, RunningTaskHasLock, LockOf, Unheld
  <2>3. Holding'
    <3>1. CASE Stale(r)
      BY <1>7, <2>0, <3>1, LockFields
      DEF TakeOverLock, NewLock, Stale, Holding, Waiting, LockOf, Unheld
    <3>2. CASE ~Stale(r)
      BY <1>7, <3>2 DEF TakeOverLock, EndPass, Holding, LockOf
    <3>3. QED
      BY <3>1, <3>2
  <2>4. Waiting'
    BY <1>7, LockFields, <2>0 DEF TakeOverLock, EndPass, NewLock, Waiting, Unheld
  <2>5. Deleting'
    BY <1>7, LockFields, <2>0 DEF TakeOverLock, EndPass, NewLock, Deleting, Unheld
  <2>6. Releasing'
    BY <1>7, LockFields, <2>0 DEF TakeOverLock, EndPass, NewLock, Releasing
  <2>7. Fresh'
    BY <1>7, LockFields, <2>0 DEF TakeOverLock, EndPass, NewLock, Fresh, Dated
  <2>8. QED
    BY <2>1, <2>2, <2>3, <2>4, <2>5, <2>6, <2>7 DEF Leases
<1>8. ASSUME NEW r \in Runners, MarkOld(r) PROVE Leases'
  <2>1. OneActiveTask'
    BY <1>8 DEF MarkOld, MarkLeaseExpired, OneActiveTask, Active
  <2>2. RunningTaskHasLock'
    BY <1>8 DEF MarkOld, MarkLeaseExpired, RunningTaskHasLock, LockOf
  <2>3. Holding'
    BY <1>8 DEF MarkOld, MarkLeaseExpired, Holding, LockOf
  <2>4. Waiting'
    BY <1>8 DEF MarkOld, MarkLeaseExpired, Waiting
  <2>5. Deleting'
    BY <1>8 DEF MarkOld, MarkLeaseExpired, Deleting
  <2>6. Releasing'
    BY <1>8 DEF MarkOld, MarkLeaseExpired, Releasing
  <2>7. Fresh'
    BY <1>8 DEF MarkOld, MarkLeaseExpired, Fresh, Dated
  <2>8. QED
    BY <2>1, <2>2, <2>3, <2>4, <2>5, <2>6, <2>7 DEF Leases
<1>9. ASSUME NEW r \in Runners, StartTask(r) PROVE Leases'
  <2>0. cand[r] \in Tasks /\ LockOf(cand[r], r) /\ lock.left \in Nat
    BY <1>9, LockFields DEF StartTask, Claiming, InClaim, Holding
  <2>9. \A q \in Runners : pc[q] \in {"markOld", "start"} => q = r
    BY <1>9, <2>0 DEF Holding, LockOf
  <2>1. OneActiveTask'
    BY <1>9, <2>0, <2>9 DEF StartTask, MayStart, EndPass, OneActiveTask, Active
  <2>2. RunningTaskHasLock'
    BY <1>9, <2>0, <2>9 DEF StartTask, MayStart, EndPass, RunningTaskHasLock, LockOf
  <2>3. Holding'
    BY <1>9, <2>0, <2>9 DEF StartTask, MayStart, EndPass, Holding, LockOf
  <2>4. Waiting'
    BY <1>9, <2>0, <2>9 DEF StartTask, MayStart, EndPass, Waiting
  <2>5. Deleting'
    BY <1>9, <2>0, <2>9 DEF StartTask, MayStart, EndPass, Deleting
  <2>10. \A q \in Runners, u \in Tasks :
            handler'[q][u] = "releasing" => handler[q][u] = "releasing"
    BY <1>9, <2>0, HandlerReleases DEF StartTask, HandlerStates
  <2>6. Releasing'
    BY <1>9, <2>10 DEF StartTask, MayStart, Releasing
  <2>7. Fresh'
    BY <1>9, <2>0, <2>9 DEF StartTask, MayStart, EndPass, Fresh, Dated
  <2>8. QED
    BY <2>1, <2>2, <2>3, <2>4, <2>5, <2>6, <2>7 DEF Leases
<1>10. ASSUME NEW r \in Runners, ReleaseClaim(r) PROVE Leases'
  <2>0. lock' = lock \/ Unheld
    BY <1>10, LockFields DEF ReleaseClaim, ReleaseLock, RunningTaskHasLock, Holding, Claiming, InClaim, LockOf, Unheld
  <2>1. OneActiveTask'
    BY <1>10, <2>0 DEF ReleaseClaim, EndPass, OneActiveTask, Active
  <2>2. RunningTaskHasLock'
    BY <1>10, <2>0 DEF ReleaseClaim, EndPass, RunningTaskHasLock, LockOf, Unheld
  <2>3. Holding'
    BY <1>10, <2>0 DEF ReleaseClaim, EndPass, Holding, LockOf, Unheld
  <2>4. Waiting'
    BY <1>10, <2>0 DEF ReleaseClaim, EndPass, Waiting, Unheld
  <2>5. Deleting'
    BY <1>10, <2>0 DEF ReleaseClaim, EndPass, Deleting, Unheld
  <2>6. Releasing'
    BY <1>10, <2>0 DEF ReleaseClaim, EndPass, Releasing
  <2>7. Fresh'
    BY <1>10, <2>0 DEF ReleaseClaim, EndPass, Fresh, Dated
  <2>8. QED
    BY <2>1, <2>2, <2>3, <2>4, <2>5, <2>6, <2>7 DEF Leases
<1>11. ASSUME NEW r \in Runners, ClaimFails(r) PROVE Leases'
  <2>1. OneActiveTask'
    BY <1>11 DEF ClaimFails, OneActiveTask, Active
  <2>2. RunningTaskHasLock'
    BY <1>11 DEF ClaimFails, RunningTaskHasLock, LockOf
  <2>3. Holding'
    BY <1>11 DEF ClaimFails, Holding, LockOf
  <2>4. Waiting'
    BY <1>11 DEF ClaimFails, Waiting
  <2>5. Deleting'
    BY <1>11 DEF ClaimFails, Deleting
  <2>6. Releasing'
    BY <1>11 DEF ClaimFails, Releasing
  <2>7. Fresh'
    BY <1>11 DEF ClaimFails, Fresh, Dated
  <2>8. QED
    BY <2>1, <2>2, <2>3, <2>4, <2>5, <2>6, <2>7 DEF Leases
<1>12. ASSUME NEW r \in Runners, Crash(r) PROVE Leases'
  <2>1. OneActiveTask'
    BY <1>12 DEF Crash, OneActiveTask, Active
  <2>2. RunningTaskHasLock'
    BY <1>12 DEF Crash, RunningTaskHasLock, LockOf
  <2>3. Holding'
    BY <1>12 DEF Crash, Holding, LockOf
  <2>4. Waiting'
    BY <1>12 DEF Crash, Waiting
  <2>5. Deleting'
    BY <1>12 DEF Crash, Deleting
  <2>6. Releasing'
    BY <1>12 DEF Crash, Releasing
  <2>7. Fresh'
    BY <1>12 DEF Crash, Fresh, Dated
  <2>8. QED
    BY <2>1, <2>2, <2>3, <2>4, <2>5, <2>6, <2>7 DEF Leases
<1>13. ASSUME NEW r \in Runners, NEW t \in Tasks, Heartbeat(r, t)
       PROVE  Leases'
  <2>0. \A q \in Runners : pc[q] \in InClaim => ~(q = r /\ cand[q] = t)
    BY <1>13 DEF Heartbeat, Claiming, Dispatched
  <2>1. OneActiveTask'
    BY <1>13, LockFields, <2>0 DEF Heartbeat, MayRenew, WithLeft, pass, OneActiveTask, Active
  <2>2. RunningTaskHasLock'
    BY <1>13, LockFields, <2>0 DEF Heartbeat, MayRenew, WithLeft, pass, RunningTaskHasLock, LockOf
  <2>3. Holding'
    BY <1>13, <2>0, LockFields DEF Heartbeat, MayRenew, pass, Holding, LockOf, InClaim
  <2>4. Waiting'
    BY <1>13, LockFields, <2>0 DEF Heartbeat, MayRenew, WithLeft, pass, Waiting
  <2>5. Deleting'
    BY <1>13, LockFields, <2>0 DEF Heartbeat, MayRenew, WithLeft, pass, Deleting
  <2>10. \A q \in Runners, u \in Tasks :
            handler'[q][u] = "releasing" => handler[q][u] = "releasing"
    BY <1>13, HandlerReleases DEF Heartbeat, HandlerStates
  <2>6. Releasing'
    BY <1>13, <2>10 DEF Heartbeat, pass, Releasing
  <2>7. Fresh'
    BY <1>13, LockFields, <2>0 DEF Heartbeat, MayRenew, WithLeft, pass, Fresh, Dated
  <2>8. QED
    BY <2>1, <2>2, <2>3, <2>4, <2>5, <2>6, <2>7 DEF Leases
<1>14. ASSUME NEW r \in Runners, NEW t \in Tasks, FinishTask(r, t)
       PROVE  Leases'
  <2>0. \A q \in Runners, u \in Tasks : handler'[q][u] = "releasing" =>
            \/ handler[q][u] = "releasing"
            \/ q = r /\ u = t /\ status'[t] \in {"succeeded", "failed"}
    BY <1>14, HandlerUpdate DEF FinishTask, HandlerStates, MayWrite
  <2>1. OneActiveTask'
    BY <1>14, <2>0 DEF FinishTask, MayWrite, pass, OneActiveTask, Active
  <2>2. RunningTaskHasLock'
    BY <1>14, <2>0 DEF FinishTask, MayWrite, pass, RunningTaskHasLock, LockOf
  <2>3. Holding'
    BY <1>14, <2>0 DEF FinishTask, MayWrite, pass, Holding, LockOf
  <2>4. Waiting'
    BY <1>14, <2>0 DEF FinishTask, MayWrite, pass, Waiting
  <2>5. Deleting'
    BY <1>14 DEF FinishTask, pass, Deleting
  <2>6. Releasing'
    BY <1>14, <2>0 DEF FinishTask, MayWrite, pass, Releasing
  <2>7. Fresh'
    BY <1>14, <2>0 DEF FinishTask, MayWrite, pass, Fresh, Dated
  <2>8. QED
    BY <2>1, <2>2, <2>3, <2>4, <2>5, <2>6, <2>7 DEF Leases
<1>15. ASSUME NEW r \in Runners, NEW t \in Tasks, FinishRelease(r, t)
       PROVE  Leases'
  <2>0. lock' = lock \/ Unheld
    <3>1. lockedBy[t] = r /\ status[t] # "running"
      BY <1>15 DEF FinishRelease, Releasing, Dispatched
    <3>2. LockOf(t, r) => Unheld
      BY <3>1, LockFields
      DEF RunningTaskHasLock, Holding, Claiming, InClaim, LockOf, Unheld
    <3>3. QED
      BY <1>15, <3>2 DEF FinishRelease, ReleaseLock
  <2>1. OneActiveTask'
    BY <1>15, <2>0 DEF FinishRelease, pass, OneActiveTask, Active
  <2>2. RunningTaskHasLock'
    BY <1>15, <2>0 DEF FinishRelease, pass, RunningTaskHasLock, LockOf, Unheld
  <2>3. Holding'
    BY <1>15, <2>0 DEF FinishRelease, pass, Holding, LockOf, Unheld
  <2>4. Waiting'
    BY <1>15, <2>0 DEF FinishRelease, pass, Waiting, Unheld
  <2>5. Deleting'
    BY <1>15, <2>0 DEF FinishRelease, pass, Deleting, Unheld
  <2>10. \A q \in Runners, u \in Tasks :
            handler'[q][u] = "releasing" => handler[q][u] = "releasing"
    BY <1>15, HandlerReleases DEF FinishRelease, HandlerStates
  <2>6. Releasing'
    BY <1>15, <2>10 DEF FinishRelease, pass, Releasing
  <2>7. Fresh'
    BY <1>15, <2>0 DEF FinishRelease, pass, Fresh, Dated
  <2>8. QED
    BY <2>1, <2>2, <2>3, <2>4, <2>5, <2>6, <2>7 DEF Leases
<1>16. ASSUME NEW r \in Runners, NEW t \in Tasks, HandlerCancelled(r, t)
       PROVE  Leases'
  <2>0. \A q \in Runners, u \in Tasks : handler'[q][u] = "releasing" =>
            \/ handler[q][u] = "releasing"
            \/ q = r /\ u = t /\ status'[t] \in {"succeeded", "failed"}
    BY <1>16, HandlerUpdate DEF HandlerCancelled, HandlerStates, MayWrite
  <2>1. OneActiveTask'
    BY <1>16, <2>0 DEF HandlerCancelled, pass, OneActiveTask, Active
  <2>2. RunningTaskHasLock'
    BY <1>16, <2>0 DEF HandlerCancelled, pass, RunningTaskHasLock, LockOf
  <2>3. Holding'
    BY <1>16, <2>0 DEF HandlerCancelled, pass, Holding, LockOf
  <2>4. Waiting'
    BY <1>16, <2>0 DEF HandlerCancelled, pass, Waiting
  <2>5. Deleting'
    BY <1>16, <2>0 DEF HandlerCancelled, pass, Deleting
  <2>6. Releasing'
    BY <1>16, <2>0 DEF HandlerCancelled, pass, Releasing
  <2>7. Fresh'
    BY <1>16, <2>0 DEF HandlerCancelled, pass, Fresh, Dated
  <2>8. QED
    BY <2>1, <2>2, <2>3, <2>4, <2>5, <2>6, <2>7 DEF Leases
<1>17. CASE Tick
  <2>0. lock # NoLock => /\ lock'.task = lock.task /\ lock'.by = lock.by
                         /\ lock'.left \in Int /\ lock' # NoLock
                         /\ \/ lock'.left = lock.left - 1
                            \/ lock'.left = lock.left /\ lock.left = Floor
    BY <1>17, LockFields DEF Tick, WithLeft
  <2>9. \A q \in Runners : /\ age[q] \in Int /\ age'[q] \in Int
                           /\ age'[q] >= age[q]
                           /\ Dated(q) => age'[q] = age[q] + 1
    BY <1>17 DEF Tick
  <2>1. OneActiveTask'
    BY <1>17, <2>0 DEF Tick, OneActiveTask, Active
  <2>2. RunningTaskHasLock'
    BY <1>17, <2>0 DEF Tick, RunningTaskHasLock, LockOf
  <2>3. Holding'
    <3>1. ASSUME NEW q \in Runners, pc[q] \in {"markOld", "start"}
          PROVE  lock'.left = TTL - age'[q] /\ (lock # NoLock)
      <4>1. lock # NoLock /\ lock.left = TTL - age[q]
        BY <3>1 DEF Holding, LockOf
      <4>2. age[q] \in 0..MaxStall /\ age'[q] = age[q] + 1
        BY <2>9, <3>1 DEF Dated
      <4>3. lock.left >= 0 /\ lock.left # Floor
        BY <4>1, <4>2 DEF Floor
      <4>4. QED
        BY <2>0, <4>1, <4>2, <4>3
    <3>2. QED
      BY <1>17, <2>0, <3>1 DEF Tick, Holding, LockOf
  <2>4. Waiting'
    <3>1. ASSUME NEW q \in Runners, Dated(q), lock # NoLock, lock.left >= -age[q]
          PROVE  lock'.left >= -age'[q]
      BY <2>0, <2>9, <3>1, LockFields DEF Tick
    <3>2. QED
      BY <1>17, <3>1 DEF Tick, Waiting, RunningTaskHasLock, LockOf, Dated
  <2>5. Deleting'
    <3>1. ASSUME NEW q \in Runners, Dated(q), lock # NoLock, lock.left >= -age[q]
          PROVE  lock'.left >= -age'[q]
      BY <2>0, <2>9, <3>1, LockFields DEF Tick
    <3>2. QED
      BY <1>17, <3>1 DEF Tick, Deleting, RunningTaskHasLock, LockOf, Dated
  <2>6. Releasing'
    BY <1>17, <2>0 DEF Tick, Releasing
  <2>7. Fresh'
    BY <1>17, <2>0 DEF Tick, Fresh, Dated
  <2>8. QED
    BY <2>1, <2>2, <2>3, <2>4, <2>5, <2>6, <2>7 DEF Leases
<1>18. CASE UNCHANGED vars
  BY <1>18
  DEF vars, Leases, OneActiveTask, Active, RunningTaskHasLock, LockOf, Holding,
      Waiting, Deleting, Releasing, Fresh, Dated
<1>19. QED
  BY <1>1, <1>2, <1>3, <1>4, <1>5, <1>6, <1>7, <1>8, <1>9, <1>10, <1>11,
     <1>12, <1>13, <1>14, <1>15, <1>16, <1>17, <1>18
  DEF Next, Pass, Handle

\* As long as a claim takes no longer than its lease lasts, a running task
\* owns its lock row, so a runner that dies is found by its expired row.
THEOREM RunningIsLocked ==
    ASSUME MaxStall <= TTL
    PROVE  Spec => []RunningTaskHasLock
<1>1. Leased => RunningTaskHasLock
  BY DEF Leased, Leases
<1>2. Leased /\ [Next]_vars => Leased'
  BY LeasedStep
<1>3. QED
  BY <1>1, <1>2, LeasedInit, PTL DEF Spec
=============================================================================
