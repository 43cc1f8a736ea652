----------------------------- MODULE SystemTask -----------------------------
(***************************************************************************)
(* System tasks of one type in one workspace: the task rows, the per-type  *)
(* lock row and the runners that claim, renew, expire and finish them      *)
(* (model/system_task.go, service/system_task.go, service/tenant.go).      *)
(*                                                                         *)
(* Every SQL statement is one step, so runners interleave between the      *)
(* statements of one function.  Time is relative: lock.left is            *)
(* locked_until - now in ticks, and age[r] the ticks since the pass of r   *)
(* read the clock, so "locked_until < now" with the time a function has    *)
(* read at its start is lock.left < -age[r].                               *)
(***************************************************************************)
EXTENDS Integers, FiniteSets

CONSTANTS
    Runners,        \* runner ids: one per process, never used again
    MaxTasks,       \* bound: how many task rows are created
    TTL,            \* systemTaskLockTTL in ticks
    MaxStall,       \* bound: ticks between reading the clock and using it
    MaxFaults       \* bound: how many processes die and statements fail

NoRunner == "nobody"

ASSUME BoundsAssumption ==
    /\ NoRunner \notin Runners
    /\ MaxTasks \in Nat /\ TTL \in Nat
    /\ MaxStall \in Nat /\ MaxFaults \in Nat

Tasks == 1..MaxTasks
NoTask == 0

VARIABLES
    status,      \* status[t] of the row, "absent" before it is created
    lockedBy,    \* lockedBy[t]: the runner that set it running
    lock,        \* the row of system_task_locks, or NoLock
    pc,          \* pc[r]: where the scheduler pass of runner r stands
    seen,        \* seen[r]: the lock row that pass has read
    cand,        \* cand[r]: the pending task that pass tries to claim
    age,         \* age[r]: ticks since that pass read the clock
    handler,     \* handler[r][t]: the goroutine that runs t on r
    faults

pass == <<pc, seen, cand, age>>
vars == <<status, lockedBy, lock, pc, seen, cand, age, handler, faults>>

Statuses == {"absent", "pending", "running", "succeeded", "failed"}
Stages == {"idle", "expireMark", "expireDelete", "claim", "acquire",
           "takeover", "markOld", "start", "release", "down"}
HandlerStates == {"none", "running", "cancelled", "releasing", "ended"}

NoLock == [task |-> NoTask, by |-> NoRunner, left |-> -1]
Floor == -(MaxStall + 1)     \* expired for longer than any pass is old
Locks == [task: Tasks, by: Runners, left: Floor..TTL] \cup {NoLock}

Init ==
    /\ status = [t \in Tasks |-> "absent"]
    /\ lockedBy = [t \in Tasks |-> NoRunner]
    /\ lock = NoLock
    /\ pc = [r \in Runners |-> "idle"]
    /\ seen = [r \in Runners |-> NoLock]
    /\ cand = [r \in Runners |-> NoTask]
    /\ age = [r \in Runners |-> 0]
    /\ handler = [r \in Runners |-> [t \in Tasks |-> "none"]]
    /\ faults = 0

-----------------------------------------------------------------------------
(* Rows. *)

\* active_key is set exactly while a task is pending or running.
Active(t) == status[t] \in {"pending", "running"}

\* A mutant of Stale: a row is taken for expired before its time.
StaleEarly(r) == lock # NoLock /\ lock.left <= 0

\* The lock row exists and had expired at the time the pass of r has read.
Stale(r) == lock # NoLock /\ lock.left < -age[r]

\* The lock row names this task and this runner.
LockOf(t, r) == lock # NoLock /\ lock.task = t /\ lock.by = r

\* The same row, with locked_until n ticks from now.
WithLeft(n) == [task |-> lock.task, by |-> lock.by, left |-> n]

Goto(r, stage) == pc' = [pc EXCEPT ![r] = stage]
SetHandler(r, t, state) == handler' = [handler EXCEPT ![r][t] = state]

\* Mutants of MarkLeaseExpired: whatever its status the task fails, or none does.
MarkAnyFailed(t) ==
    status' = IF t \in Tasks THEN [status EXCEPT ![t] = "failed"] ELSE status
MarkNothing(t) == status' = status

\* MarkSystemTaskLeaseExpired: only a running task fails.
MarkLeaseExpired(t) ==
    status' = IF t \in Tasks /\ status[t] = "running"
              THEN [status EXCEPT ![t] = "failed"] ELSE status

\* ReleaseSystemTaskLock.
ReleaseLock(t, r) == lock' = IF LockOf(t, r) THEN NoLock ELSE lock

\* CreateSystemTask, called by the scheduler and by EnqueueSystemTask; the
\* unique index on active_key refuses a second active task.
CreateSystemTask ==
    /\ \A t \in Tasks : ~Active(t)
    /\ \E t \in Tasks :
          /\ status[t] = "absent"
          /\ \A u \in Tasks : u < t => status[u] # "absent"
          /\ status' = [status EXCEPT ![t] = "pending"]
    /\ UNCHANGED <<lockedBy, lock, pass, handler, faults>>

-----------------------------------------------------------------------------
(* The pass of one runner: ExpireStaleSystemTaskLocks. *)

\* ExpireStaleSystemTaskLocks reads the clock, then the expired rows.
ExpireScan(r) ==
    /\ pc[r] = "idle"
    /\ IF Stale(r)
       THEN /\ seen' = [seen EXCEPT ![r] = lock]
            /\ Goto(r, "expireMark")
       ELSE /\ seen' = seen
            /\ Goto(r, "claim")
    /\ UNCHANGED <<status, lockedBy, lock, cand, age, handler, faults>>

ExpireMark(r) ==
    /\ pc[r] = "expireMark"
    /\ MarkLeaseExpired(seen[r].task)
    /\ Goto(r, "expireDelete")
    /\ UNCHANGED <<lockedBy, lock, seen, cand, age, handler, faults>>

ExpireDelete(r) ==
    /\ pc[r] = "expireDelete"
    /\ lock' = IF LockOf(seen[r].task, seen[r].by) /\ Stale(r)
               THEN NoLock ELSE lock
    /\ seen' = [seen EXCEPT ![r] = NoLock]
    /\ age' = [age EXCEPT ![r] = 0]
    /\ Goto(r, "claim")
    /\ UNCHANGED <<status, lockedBy, cand, handler, faults>>

-----------------------------------------------------------------------------
(* The pass, continued: runSystemTaskClaimPass and ClaimSystemTask. *)

\* FindEarliestPendingSystemTasks; ClaimSystemTask reads the clock and the
\* pending row.
ClaimRead(r) ==
    /\ pc[r] = "claim"
    /\ \/ \E t \in Tasks :
            /\ status[t] = "pending"
            /\ \A u \in Tasks : u < t => status[u] # "pending"
            /\ cand' = [cand EXCEPT ![r] = t]
            /\ Goto(r, "acquire")
       \/ /\ \A t \in Tasks : status[t] # "pending"
          /\ cand' = cand
          /\ Goto(r, "idle")
    /\ UNCHANGED <<status, lockedBy, lock, seen, age, handler, faults>>

\* A mutant of NewLock: the lease starts after the claim has stalled.
NewLockLate(r) == [task |-> cand[r], by |-> r, left |-> TTL + age[r]]

\* The row acquireSystemTaskLock writes, its lease counted from the clock read.
NewLock(r) == [task |-> cand[r], by |-> r, left |-> TTL - age[r]]

\* The pass is over; a later one starts with fresh reads.
EndPass(r) ==
    /\ cand' = [cand EXCEPT ![r] = NoTask]
    /\ seen' = [seen EXCEPT ![r] = NoLock]
    /\ age' = [age EXCEPT ![r] = 0]
    /\ Goto(r, "idle")

\* acquireSystemTaskLock: create the row, or read the one that exists.
AcquireLock(r) ==
    /\ pc[r] = "acquire"
    /\ \/ /\ lock = NoLock
          /\ lock' = NewLock(r)
          /\ Goto(r, "start")
          /\ UNCHANGED <<seen, cand, age>>
       \/ /\ Stale(r)
          /\ seen' = [seen EXCEPT ![r] = lock]
          /\ Goto(r, "takeover")
          /\ UNCHANGED <<lock, cand, age>>
       \/ /\ lock # NoLock /\ ~Stale(r)
          /\ EndPass(r)
          /\ UNCHANGED lock
    /\ UNCHANGED <<status, lockedBy, handler, faults>>

\* acquireSystemTaskLock: the conditional UPDATE of an expired row.
TakeOverLock(r) ==
    /\ pc[r] = "takeover"
    /\ \/ /\ Stale(r)
          /\ lock' = NewLock(r)
          /\ Goto(r, IF seen[r].task = cand[r] THEN "start" ELSE "markOld")
          /\ UNCHANGED <<seen, cand, age>>
       \/ /\ ~Stale(r)
          /\ EndPass(r)
          /\ UNCHANGED lock
    /\ UNCHANGED <<status, lockedBy, handler, faults>>

\* The task whose expired row was taken over has lost its lease.
MarkOld(r) ==
    /\ pc[r] = "markOld"
    /\ MarkLeaseExpired(seen[r].task)
    /\ Goto(r, "start")
    /\ UNCHANGED <<lockedBy, lock, seen, cand, age, handler, faults>>

\* A mutant of MayStart: the UPDATE no longer asks for a pending row.
MayStartAny(t) == status[t] # "absent"

\* The condition of the UPDATE to running.
MayStart(t) == status[t] = "pending"

\* The conditional UPDATE from pending to running, then the dispatch.
StartTask(r) ==
    /\ pc[r] = "start"
    /\ \/ /\ MayStart(cand[r])
          /\ status' = [status EXCEPT ![cand[r]] = "running"]
          /\ lockedBy' = [lockedBy EXCEPT ![cand[r]] = r]
          /\ SetHandler(r, cand[r], "running")
          /\ EndPass(r)
       \/ /\ ~MayStart(cand[r])
          /\ Goto(r, "release")
          /\ UNCHANGED <<status, lockedBy, handler, seen, cand, age>>
    /\ UNCHANGED <<lock, faults>>

ReleaseClaim(r) ==
    /\ pc[r] = "release"
    /\ ReleaseLock(cand[r], r)
    /\ EndPass(r)
    /\ UNCHANGED <<status, lockedBy, handler, faults>>

\* A statement of ClaimSystemTask fails after the lock was taken.
ClaimFails(r) ==
    /\ pc[r] \in {"markOld", "start"} /\ faults < MaxFaults
    /\ faults' = faults + 1
    /\ Goto(r, "release")
    /\ UNCHANGED <<status, lockedBy, lock, seen, cand, age, handler>>

-----------------------------------------------------------------------------
(* The handler goroutine and its heartbeat: runWithLeaseHeartbeat. *)

MayRenew(t, r) == LockOf(t, r) /\ lock.left >= 0

\* RenewSystemTaskLock on the ticker; a lost lock or an error cancels the
\* handler.
Heartbeat(r, t) ==
    /\ handler[r][t] = "running"
    /\ \/ /\ MayRenew(t, r)
          /\ lock' = WithLeft(TTL)
          /\ UNCHANGED <<handler, faults>>
       \/ /\ ~MayRenew(t, r)
          /\ SetHandler(r, t, "cancelled")
          /\ UNCHANGED <<lock, faults>>
       \/ /\ faults < MaxFaults /\ faults' = faults + 1
          /\ SetHandler(r, t, "cancelled")
          /\ UNCHANGED lock
    /\ UNCHANGED <<status, lockedBy, pass>>

\* The condition of FinishSystemTask and UpdateSystemTaskState.
MayWrite(t, r) ==
    /\ status[t] = "running" /\ lockedBy[t] = r
    /\ LockOf(t, r) /\ lock.left >= 0

\* FinishSystemTask, first statement; a handler that may not write returns.
FinishTask(r, t) ==
    /\ handler[r][t] = "running"
    /\ \/ /\ MayWrite(t, r)
          /\ \E s \in {"succeeded", "failed"} :
                status' = [status EXCEPT ![t] = s]
          /\ SetHandler(r, t, "releasing")
       \/ /\ ~MayWrite(t, r)
          /\ SetHandler(r, t, "ended")
          /\ status' = status
    /\ UNCHANGED <<lockedBy, lock, pass, faults>>

\* FinishSystemTask, second statement: ReleaseSystemTaskLock.
FinishRelease(r, t) ==
    /\ handler[r][t] = "releasing"
    /\ ReleaseLock(t, r)
    /\ SetHandler(r, t, "ended")
    /\ UNCHANGED <<status, lockedBy, pass, faults>>

\* A cancelled handler honours its context and writes nothing.
HandlerCancelled(r, t) ==
    /\ handler[r][t] = "cancelled"
    /\ SetHandler(r, t, "ended")
    /\ UNCHANGED <<status, lockedBy, lock, pass, faults>>

-----------------------------------------------------------------------------
(* Time and crashes. *)

\* The stages in which a pass still uses a time it has read.
Dated(r) == pc[r] \notin {"idle", "claim", "down"}

Tick ==
    /\ \A r \in Runners : age[r] < MaxStall
    /\ lock' = IF lock = NoLock \/ lock.left = Floor THEN lock
               ELSE WithLeft(lock.left - 1)
    /\ age' = [r \in Runners |-> IF Dated(r) THEN age[r] + 1 ELSE age[r]]
    /\ UNCHANGED <<status, lockedBy, pc, seen, cand, handler, faults>>

\* The process of r dies with its goroutines; its rows stay.
Crash(r) ==
    /\ pc[r] # "down" /\ faults < MaxFaults
    /\ faults' = faults + 1
    /\ Goto(r, "down")
    /\ seen' = [seen EXCEPT ![r] = NoLock]
    /\ cand' = [cand EXCEPT ![r] = NoTask]
    /\ age' = [age EXCEPT ![r] = 0]
    /\ handler' = [handler EXCEPT ![r] =
                      [t \in Tasks |-> IF @[t] = "none" THEN "none" ELSE "ended"]]
    /\ UNCHANGED <<status, lockedBy, lock>>

-----------------------------------------------------------------------------
Pass(r) ==
    \/ ExpireScan(r) \/ ExpireMark(r) \/ ExpireDelete(r)
    \/ ClaimRead(r) \/ AcquireLock(r) \/ TakeOverLock(r)
    \/ MarkOld(r) \/ StartTask(r) \/ ReleaseClaim(r)

Handle(r, t) ==
    \/ FinishTask(r, t) \/ FinishRelease(r, t) \/ HandlerCancelled(r, t)

Next ==
    \/ CreateSystemTask
    \/ \E r \in Runners : Pass(r) \/ ClaimFails(r) \/ Crash(r)
    \/ \E r \in Runners, t \in Tasks : Heartbeat(r, t) \/ Handle(r, t)
    \/ Tick

Spec == Init /\ [][Next]_vars

\* The 30-second ticker runs passes for ever, handlers return, time passes.
FairSpec ==
    /\ Spec
    /\ WF_vars(Tick)
    /\ \A r \in Runners : WF_vars(Pass(r))
    /\ \A r \in Runners, t \in Tasks : WF_vars(Handle(r, t))

-----------------------------------------------------------------------------
(* Properties. *)

\* The type of every variable.
TypeOK ==
    /\ status \in [Tasks -> Statuses]
    /\ lockedBy \in [Tasks -> Runners \cup {NoRunner}]
    /\ lock \in Locks
    /\ pc \in [Runners -> Stages]
    /\ seen \in [Runners -> Locks]
    /\ cand \in [Runners -> Tasks \cup {NoTask}]
    /\ handler \in [Runners -> [Tasks -> HandlerStates]]
    /\ age \in [Runners -> 0..MaxStall]
    /\ faults \in 0..MaxFaults

\* "The per-type lock guarantees only one runner executes the task": no two
\* runners ever dispatch the same task, even when a lease expires during the
\* claim and another runner takes the lock over (ClaimSystemTask).
OneRunnerPerTask ==
    \A t \in Tasks : \A r1, r2 \in Runners :
        handler[r1][t] # "none" /\ handler[r2][t] # "none" => r1 = r2

\* At most one task is active (runSystemTaskScheduler relies on active_key).
OneActiveTask ==
    \A t, u \in Tasks : Active(t) /\ Active(u) => t = u

\* A running task has its lock row, so that ExpireStaleSystemTaskLocks, which
\* looks at lock rows only, finds it when its runner dies.
RunningTaskHasLock ==
    \A t \in Tasks : status[t] = "running" => LockOf(t, lockedBy[t])

\* A finished task never changes again: neither a late FinishSystemTask nor a
\* second expiry overwrites its outcome.
FinishedIsFinal ==
    [][\A t \in Tasks : status[t] \in {"succeeded", "failed"}
                            => status'[t] = status[t]]_vars

\* Every task that is enqueued is eventually finished, whatever runner dies.
EveryTaskFinishes ==
    \A t \in Tasks : status[t] = "pending" ~> status[t] \in {"succeeded", "failed"}

\* An expired lease fails the old run and allows a new one: a running task
\* does not stay active for ever.
ExpiredLeaseFreesType ==
    \A t \in Tasks : status[t] = "running" ~> ~Active(t)
=============================================================================
