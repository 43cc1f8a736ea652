---------------------------- MODULE TaskPolling ----------------------------
(***************************************************************************)
(* Asynchronous tasks (video, music) of the gateway: a request submits a   *)
(* task and pays for it in advance, polling passes follow the task until   *)
(* it ends, and the end corrects the payment.  The row of a task is shared *)
(* by the passes (two overlap when a runner outlives its lease), by the    *)
(* timeout sweep and by the clients that ask for its state; every billing  *)
(* step is a database call of its own that may fail or be the last one the *)
(* process makes.  Source: src/service/task_polling.go,                    *)
(* src/service/task_billing.go, src/model/task.go, src/controller/relay.go *)
(* and src/relay/relay_task.go.                                            *)
(*                                                                         *)
(* Of the progress only "100%" is told apart, as the queries do; it is     *)
(* written apart from the status and may be reported for a task that still *)
(* runs.  The account of a user and its token are represented by what this *)
(* task has taken from each.                                               *)
(***************************************************************************)
EXTENDS Integers

CONSTANTS
  Tasks,            \* submissions
  Workers,          \* runners of polling passes
  Fetches,          \* GET requests for a task, one each
  Quotas,           \* amounts of quota
  Reports,          \* the statuses an upstream reports
  Times,            \* the submit times of rows, their own or reported
  LegacyCutoff,     \* TaskRefundLegacyCutoff
  Realtime,         \* tasks of Gemini and Vertex channels
  Unreachable,      \* tasks whose channel may no longer be found
  MaxPollFailures,  \* TaskPollMaxFailures, 0 when the cutoff is disabled
  MaxCutoff,        \* bound: the clock
  MaxFaults         \* bound: database errors and crashes

NonTerminal == {"NOT_START", "SUBMITTED", "QUEUED", "IN_PROGRESS"}
Terminal == {"SUCCESS", "FAILURE"}

(* How the end of a task is priced, from its BillingContext: by a usage     *)
(* expression, at a fixed price, or by the usage the upstream reports.      *)
Kinds == {"tiered", "per_call", "usage"}
Sources == {"wallet", "subscription"}

ASSUME TaskPollingAssumption ==
  /\ Quotas \subseteq Nat /\ 0 \in Quotas
  /\ Reports \subseteq NonTerminal \cup Terminal
  /\ Times \subseteq Nat \ {0}
  /\ LegacyCutoff \in Nat /\ MaxCutoff \in Nat
  /\ MaxPollFailures \in Nat /\ MaxFaults \in Nat

VARIABLES
  row,           \* the row of each task in the database
  terms,         \* its billing context and source, fixed when it is inserted
  cutoff,        \* the time TaskTimeoutMinutes ago
  surplus,       \* pre-consumed beyond the quota, not yet settled
  pass,          \* what a worker's pass is doing
  job,           \* what a worker's pass holds about each task
  fetch,         \* the state of each GET request
  charged,       \* what the task has taken from wallet or subscription
  tokenCharged,  \* what the task has taken from its token
  lost,          \* the billing steps of the task that never took effect
  faults

vars == <<row, terms, cutoff, surplus, pass, job, fetch, charged,
          tokenCharged, lost, faults>>
context == <<terms, cutoff, surplus>>
rows == <<row, context>>
ledger == <<charged, tokenCharged, lost>>

Row == [status : NonTerminal \cup Terminal \cup {"UNKNOWN", "ABSENT"},
        full : BOOLEAN,   \* progress is "100%"
        submitted : Nat, quota : Quotas, fails : Nat]
Absent == [status |-> "ABSENT", full |-> FALSE, submitted |-> 0,
           quota |-> 0, fails |-> 0]

BillingStages == {"fund", "token", "record"}
Idle == [stage |-> "idle", copy |-> Absent, target |-> 0]
Job == [stage : {"idle", "sweep", "poll"} \cup BillingStages,
        copy : Row, target : Quotas]

(* A GET request has not begun, waits for the upstream, or is answered. *)
Waiting(t, copy) == [state |-> "waiting", task |-> t, copy |-> copy]
Unstarted == [state |-> "new"]
Answered == [state |-> "answered"]

Running(t) == row[t].status \notin Terminal \cup {"ABSENT"}

(* The tasks the passes and the sweep look for, by status and progress. *)
Unfinished(t) == Running(t) /\ ~row[t].full

Init ==
  /\ row = [t \in Tasks |-> Absent]
  /\ terms = [t \in Tasks |-> [kind |-> "usage", source |-> "wallet"]]
  /\ cutoff = 0
  /\ surplus = [t \in Tasks |-> 0]
  /\ pass = [w \in Workers |-> "off"]
  /\ job = [w \in Workers |-> [t \in Tasks |-> Idle]]
  /\ fetch = [c \in Fetches |-> Unstarted]
  /\ charged = [t \in Tasks |-> 0]
  /\ tokenCharged = [t \in Tasks |-> 0]
  /\ lost = [t \in Tasks |-> {}]
  /\ faults = 0

---------------------------------------------------------------------------
(* Submission *)

\* A mutant of Reserved: a quota raised by the upstream's answer is not held.
ReservedNever(held, quota) == TRUE

(* Reserve holds what the quota has beyond the pre-consumed amount. *)
Reserved(held, quota) == quota <= held

(* The rows an insert may write.  An upstream that answers at once gives    *)
(* the first status and progress; a task that fails at once costs nothing.  *)
Inserted(quota) ==
  {new \in [status : {"NOT_START"} \cup Reports, full : BOOLEAN,
            submitted : Times, quota : {quota}, fails : {0}] :
     /\ new.status = "FAILURE" => quota = 0
     /\ new.status \notin Reports => ~new.full
     /\ new.submitted >= cutoff}

(* A task is inserted after its quota was pre-consumed and, where the       *)
(* upstream's answer raised it, reserved.                                   *)
Submit(t) ==
  /\ row[t].status = "ABSENT"
  /\ \E held \in Quotas, quota \in Quotas :
       /\ Reserved(held, quota)
       /\ \E new \in Inserted(quota) : row' = [row EXCEPT ![t] = new]
       /\ \E k \in Kinds, f \in Sources :
            terms' = [terms EXCEPT ![t] = [kind |-> k, source |-> f]]
       /\ surplus' = [surplus EXCEPT ![t] = held - quota]
       /\ charged' = [charged EXCEPT ![t] = held]
       /\ tokenCharged' = [tokenCharged EXCEPT ![t] = held]
  /\ UNCHANGED <<cutoff, pass, job, fetch, lost, faults>>

(* The settlement of the submission, after the row is visible to the        *)
(* passes: returns what was pre-consumed beyond the quota.                  *)
SettleSubmission(t) ==
  /\ surplus[t] > 0
  /\ surplus' = [surplus EXCEPT ![t] = 0]
  /\ charged' = [charged EXCEPT ![t] = @ - surplus[t]]
  /\ tokenCharged' = [tokenCharged EXCEPT ![t] = @ - surplus[t]]
  /\ UNCHANGED <<row, terms, cutoff, pass, job, fetch, lost, faults>>

(* It fails at its funding source, or only at the token. *)
SettleSubmissionFails(t) ==
  /\ surplus[t] > 0 /\ faults < MaxFaults
  /\ faults' = faults + 1
  /\ surplus' = [surplus EXCEPT ![t] = 0]
  /\ lost' = [lost EXCEPT ![t] = @ \cup {"settle"}]
  /\ \E amount \in {0, surplus[t]} :
       charged' = [charged EXCEPT ![t] = @ - amount]
  /\ UNCHANGED <<row, terms, cutoff, pass, job, fetch, tokenCharged>>

(* Time passes while a task runs. *)
Tick ==
  /\ \E t \in Tasks : Running(t)
  /\ cutoff < MaxCutoff
  /\ cutoff' = cutoff + 1
  /\ UNCHANGED <<row, terms, surplus, pass, job, fetch, ledger, faults>>

---------------------------------------------------------------------------
(* A polling pass *)

\* A mutant of TimedOut: only a task that never started times out.
TimedOutUnstarted(t) == row[t].status = "NOT_START" /\ row[t].submitted < cutoff

(* GetTimedOutUnfinishedTasks. *)
TimedOut(t) == Unfinished(t) /\ row[t].submitted < cutoff

(* A query hands the pass copies of the rows it selects. *)
Listed(stage, Chosen(_)) ==
  [t \in Tasks |-> IF Chosen(t)
                   THEN [stage |-> stage, copy |-> row[t], target |-> 0]
                   ELSE Idle]

(* A pass is scheduled while some task is unfinished; it first reads the    *)
(* tasks that timed out.                                                    *)
StartPass(w) ==
  /\ pass[w] = "off"
  /\ \E t \in Tasks : Unfinished(t)
  /\ pass' = [pass EXCEPT ![w] = "sweep"]
  /\ job' = [job EXCEPT ![w] = Listed("sweep", TimedOut)]
  /\ UNCHANGED <<rows, fetch, ledger, faults>>

AllIdle(w) == \A t \in Tasks : job[w][t].stage = "idle"

(* The sweep over, the pass reads the unfinished tasks. *)
ListUnfinished(w) ==
  /\ pass[w] = "sweep" /\ AllIdle(w)
  /\ pass' = [pass EXCEPT ![w] = "poll"]
  /\ job' = [job EXCEPT ![w] = Listed("poll", Unfinished)]
  /\ UNCHANGED <<rows, fetch, ledger, faults>>

EndPass(w) ==
  /\ pass[w] = "poll" /\ AllIdle(w)
  /\ pass' = [pass EXCEPT ![w] = "off"]
  /\ UNCHANGED <<rows, job, fetch, ledger, faults>>

\* A mutant of Wins: the write is not conditional.
WinsAlways(t, from) == TRUE

(* UpdateWithStatus: the whole row is written if its status is still the    *)
(* one the caller read.                                                     *)
Wins(t, from) == row[t].status = from

Done(w, t) == job' = [job EXCEPT ![w][t] = Idle]

(* A write that touches no billing: the caller goes on whether it wins or   *)
(* loses, and skips the task on an error.                                   *)
WriteRow(w, t, new) ==
  /\ \/ /\ row' = IF Wins(t, job[w][t].copy.status)
                  THEN [row EXCEPT ![t] = new] ELSE row
        /\ UNCHANGED faults
     \/ faults < MaxFaults /\ faults' = faults + 1 /\ UNCHANGED row
  /\ Done(w, t)
  /\ UNCHANGED <<context, pass, fetch, ledger>>

\* A mutant of FinalQuotas: a failed task billed per call keeps its price.
FinalQuotasKept(t, status, quota) ==
  IF terms[t].kind = "per_call" THEN {quota}
  ELSE IF status = "FAILURE" /\ terms[t].kind # "usage" THEN {0} ELSE Quotas

(* The quota a finished task is settled at; equal to its quota when nothing *)
(* is to be moved.  A usage settlement takes precedence over the refund of  *)
(* a failed task unless the task is tiered or billed per call.              *)
FinalQuotas(t, status, quota) ==
  IF status = "FAILURE"
  THEN IF terms[t].kind = "usage" THEN Quotas ELSE {0}
  ELSE IF terms[t].kind = "per_call" THEN {quota} ELSE Quotas

Bill(copy, target) ==
  IF target = copy.quota THEN Idle
  ELSE [stage |-> "fund", copy |-> copy, target |-> target]

(* The write of a finished status: only the winner bills the task. *)
Finish(w, t, new, targets) ==
  /\ \/ /\ Wins(t, job[w][t].copy.status)
        /\ row' = [row EXCEPT ![t] = new]
        /\ \E q \in targets : job' = [job EXCEPT ![w][t] = Bill(new, q)]
        /\ UNCHANGED faults
     \/ ~Wins(t, job[w][t].copy.status) /\ Done(w, t) /\ UNCHANGED <<row, faults>>
     \/ faults < MaxFaults /\ faults' = faults + 1 /\ Done(w, t) /\ UNCHANGED row
  /\ UNCHANGED <<context, pass, fetch, ledger>>

(* A task of the old system, by the submit time its row carries. *)
IsLegacy(r) == r.submitted > 0 /\ r.submitted < LegacyCutoff

(* The sweep takes one task after the other; a task of the old system is    *)
(* closed without a refund and its quota cleared by the same write.         *)
SweepTask(w, t) ==
  /\ job[w][t].stage = "sweep"
  /\ \A u \in Tasks : job[w][u].stage \in {"idle", "sweep"}
  /\ LET new == [job[w][t].copy EXCEPT !.status = "FAILURE", !.full = TRUE]
     IN IF IsLegacy(new) THEN Finish(w, t, [new EXCEPT !.quota = 0], {0})
                         ELSE Finish(w, t, new, {0})

(* The channel of the task is not found: its tasks are failed by id, with   *)
(* no look at their status and no billing.                                  *)
ChannelMissing(w, t) ==
  /\ job[w][t].stage = "poll" /\ t \in Unreachable
  /\ \/ row' = [row EXCEPT ![t] = [@ EXCEPT !.status = "FAILURE", !.full = TRUE]]
        /\ UNCHANGED faults
     \/ faults < MaxFaults /\ faults' = faults + 1 /\ UNCHANGED row
  /\ Done(w, t)
  /\ UNCHANGED <<context, pass, fetch, ledger>>

(* The poll says nothing of the task: it has no adaptor, the answer to a    *)
(* batch leaves it out, or a running task is as the row says.               *)
PollSkipped(w, t) ==
  /\ job[w][t].stage = "poll"
  /\ Done(w, t)
  /\ UNCHANGED <<rows, pass, fetch, ledger, faults>>

(* A batch answer may carry a submit time of the upstream's, which replaces *)
(* the one of the row.                                                      *)
SubmitTimes(copy) == {copy.submitted} \cup Times

(* The upstream says the task still runs, with the progress it reports. *)
PollRunning(w, t) ==
  /\ job[w][t].stage = "poll"
  /\ LET copy == job[w][t].copy
     IN \E s \in Reports \cap NonTerminal, f \in BOOLEAN, time \in SubmitTimes(copy) :
          WriteRow(w, t, [copy EXCEPT !.status = s, !.full = f,
                                      !.submitted = time, !.fails = 0])

(* The upstream says how the task ended; the progress it reports may replace *)
(* the "100%" of a success.                                                  *)
PollFinished(w, t) ==
  /\ job[w][t].stage = "poll"
  /\ LET copy == job[w][t].copy
     IN \E s \in Reports \cap Terminal, f \in BOOLEAN, time \in SubmitTimes(copy) :
          /\ s = "FAILURE" => f
          /\ Finish(w, t, [copy EXCEPT !.status = s, !.full = f, !.submitted = time],
                    FinalQuotas(t, s, copy.quota))

Fail(w, t, copy) ==
  Finish(w, t, [copy EXCEPT !.status = "FAILURE", !.full = TRUE],
         FinalQuotas(t, "FAILURE", copy.quota))

(* The upstream no longer knows the task. *)
PollNotFound(w, t) == job[w][t].stage = "poll" /\ Fail(w, t, job[w][t].copy)

CutOff(fails) == MaxPollFailures > 0 /\ fails >= MaxPollFailures

(* The poll fails (transport, HTTP status, unknown answer): the failure is  *)
(* counted, the last one of a run of MaxPollFailures fails the task.  The   *)
(* count matters to the cutoff alone.                                       *)
PollFails(w, t) ==
  /\ job[w][t].stage = "poll"
  /\ LET copy == [job[w][t].copy EXCEPT
                    !.fails = IF MaxPollFailures = 0 THEN 0 ELSE @ + 1]
     IN IF CutOff(copy.fails) THEN Fail(w, t, copy) ELSE WriteRow(w, t, copy)

---------------------------------------------------------------------------
(* RefundTaskQuota and RecalculateTaskQuota: funding, token, quota column *)

Delta(w, t) == job[w][t].target - job[w][t].copy.quota
NextStage(w, t, s) == job' = [job EXCEPT ![w][t].stage = s]

AdjustFunding(w, t) ==
  /\ job[w][t].stage = "fund"
  /\ charged' = [charged EXCEPT ![t] = @ + Delta(w, t)]
  /\ NextStage(w, t, "token")
  /\ UNCHANGED <<rows, pass, fetch, tokenCharged, lost, faults>>

(* A subscription may not cover a further charge. *)
FundingRefused(w, t) == terms[t].source = "subscription" /\ Delta(w, t) > 0

\* A mutant of FundingFails: the quota column is cleared all the same.
FundingFailsCleared(w, t) ==
  /\ job[w][t].stage = "fund"
  /\ \/ FundingRefused(w, t) /\ UNCHANGED faults
     \/ faults < MaxFaults /\ faults' = faults + 1
  /\ row' = [row EXCEPT ![t].quota = job[w][t].target]
  /\ lost' = [lost EXCEPT ![t] = @ \cup {"fund"}]
  /\ Done(w, t)
  /\ UNCHANGED <<context, pass, fetch, charged, tokenCharged>>

(* A database error or such a refusal: the task keeps its quota. *)
FundingFails(w, t) ==
  /\ job[w][t].stage = "fund"
  /\ \/ FundingRefused(w, t) /\ UNCHANGED faults
     \/ faults < MaxFaults /\ faults' = faults + 1
  /\ lost' = [lost EXCEPT ![t] = @ \cup {"fund"}]
  /\ Done(w, t)
  /\ UNCHANGED <<rows, pass, fetch, charged, tokenCharged>>

AdjustToken(w, t) ==
  /\ job[w][t].stage = "token"
  /\ tokenCharged' = [tokenCharged EXCEPT ![t] = @ + Delta(w, t)]
  /\ NextStage(w, t, "record")
  /\ UNCHANGED <<rows, pass, fetch, charged, lost, faults>>

(* The token is gone or the database fails: logged, and the billing goes on. *)
TokenFails(w, t) ==
  /\ job[w][t].stage = "token" /\ faults < MaxFaults
  /\ faults' = faults + 1
  /\ lost' = [lost EXCEPT ![t] = @ \cup {"token"}]
  /\ NextStage(w, t, "record")
  /\ UNCHANGED <<rows, pass, fetch, charged, tokenCharged>>

UpdateQuota(w, t) ==
  /\ job[w][t].stage = "record"
  /\ row' = [row EXCEPT ![t].quota = job[w][t].target]
  /\ Done(w, t)
  /\ UNCHANGED <<context, pass, fetch, ledger, faults>>

UpdateQuotaFails(w, t) ==
  /\ job[w][t].stage = "record" /\ faults < MaxFaults
  /\ faults' = faults + 1
  /\ lost' = [lost EXCEPT ![t] = @ \cup {"record"}]
  /\ Done(w, t)
  /\ UNCHANGED <<rows, pass, fetch, charged, tokenCharged>>

(* The process ends, or its context is cancelled with its lease: what the   *)
(* pass had in hand is never done.                                          *)
Crash(w) ==
  /\ pass[w] # "off" /\ faults < MaxFaults
  /\ faults' = faults + 1
  /\ pass' = [pass EXCEPT ![w] = "off"]
  /\ job' = [job EXCEPT ![w] = [t \in Tasks |-> Idle]]
  /\ lost' = [t \in Tasks |-> lost[t] \cup (BillingStages \cap {job[w][t].stage})]
  /\ UNCHANGED <<rows, fetch, charged, tokenCharged>>

---------------------------------------------------------------------------
(* tryRealtimeFetch: a client's GET asks the upstream of a Gemini or Vertex *)
(* task and writes the answer to the row, with no billing.                  *)

FetchRead(c, t) ==
  /\ fetch[c] = Unstarted /\ t \in Realtime
  /\ row[t].status # "ABSENT"
  /\ fetch' = [fetch EXCEPT ![c] = Waiting(t, row[t])]
  /\ UNCHANGED <<rows, pass, job, ledger, faults>>

FetchWrite(c) ==
  /\ fetch[c].state = "waiting"
  /\ LET t == fetch[c].task
         copy == fetch[c].copy
     IN \/ \E s \in Reports \cup {"UNKNOWN"}, f \in BOOLEAN :
             row' = IF Wins(t, copy.status)
                    THEN [row EXCEPT ![t] = [copy EXCEPT !.status = s, !.full = f]]
                    ELSE row
        \/ UNCHANGED row   \* the upstream fails, or nothing changed
  /\ fetch' = [fetch EXCEPT ![c] = Answered]
  /\ UNCHANGED <<context, pass, job, ledger, faults>>

---------------------------------------------------------------------------
PassStep(w) ==
  \/ StartPass(w) \/ ListUnfinished(w) \/ EndPass(w)
  \/ \E t \in Tasks :
       \/ SweepTask(w, t) \/ ChannelMissing(w, t) \/ PollSkipped(w, t)
       \/ PollRunning(w, t) \/ PollFinished(w, t)
       \/ PollNotFound(w, t) \/ PollFails(w, t)
       \/ AdjustFunding(w, t) \/ FundingFails(w, t)
       \/ AdjustToken(w, t) \/ TokenFails(w, t)
       \/ UpdateQuota(w, t) \/ UpdateQuotaFails(w, t)

(* No billing of the task is under way. *)
Quiet(t) ==
  /\ surplus[t] = 0
  /\ \A w \in Workers : job[w][t].stage \notin BillingStages

(* No pass has anything left to look for. *)
AllDone ==
  /\ \A t \in Tasks : ~Unfinished(t) /\ Quiet(t)
  /\ \A w \in Workers : pass[w] = "off"
  /\ UNCHANGED vars

Next ==
  \/ \E t \in Tasks : Submit(t) \/ SettleSubmission(t)
                        \/ SettleSubmissionFails(t)
  \/ Tick
  \/ \E w \in Workers : PassStep(w) \/ Crash(w)
  \/ \E c \in Fetches : (\E t \in Tasks : FetchRead(c, t)) \/ FetchWrite(c)
  \/ AllDone

Spec == Init /\ [][Next]_vars

(* The scheduler starts a pass again and again, a pass goes on, a submission *)
(* settles and the clock advances.                                           *)
FairSpec ==
  /\ Spec
  /\ \A w \in Workers : WF_vars(PassStep(w))
  /\ WF_vars(Tick)
  /\ \A t \in Tasks : WF_vars(SettleSubmission(t))

---------------------------------------------------------------------------
(* Properties *)

(* The rows, the passes' copies of them and the amounts have their types:   *)
(* a settled submission never owes more than was pre-consumed.              *)
TypeOK ==
  /\ row \in [Tasks -> Row]
  /\ terms \in [Tasks -> [kind : Kinds, source : Sources]]
  /\ cutoff \in 0..MaxCutoff
  /\ surplus \in [Tasks -> Nat]
  /\ pass \in [Workers -> {"off", "sweep", "poll"}]
  /\ job \in [Workers -> [Tasks -> Job]]
  /\ fetch \in [Fetches -> {Unstarted, Answered} \cup
                  [state : {"waiting"}, task : Tasks, copy : Row]]
  /\ charged \in [Tasks -> Int]
  /\ tokenCharged \in [Tasks -> Int]
  /\ lost \in [Tasks -> SUBSET (BillingStages \cup {"settle"})]
  /\ faults \in 0..MaxFaults

(* The task was closed by the rule for the old system, or could have been:  *)
(* it failed and its row carries a submit time before the cutoff.           *)
ClosedOld(t) == row[t].status = "FAILURE" /\ IsLegacy(row[t])

(* Between billing steps, the quota column of a task is what the task has   *)
(* taken from its funding source and from its token: overlapping passes, the *)
(* sweep and the late settlement of the submission never bill it twice, and *)
(* a funding failure leaves the column to reconcile with.  It is claimed    *)
(* where no later write was lost, for tasks that are not closed by the      *)
(* legacy rule and that no client's GET writes.                             *)
ChargedIsQuota ==
  \A t \in Tasks \ Realtime :
    Quiet(t) /\ ~ClosedOld(t) /\ lost[t] \subseteq {"fund"} =>
      charged[t] = row[t].quota /\ tokenCharged[t] = row[t].quota

(* A failed task billed per call or by tiers has given everything back once *)
(* its billing is over and no step of it was lost: RefundTaskQuota.  Tasks  *)
(* of a channel that cannot be read are failed without a refund.            *)
FailedTaskRefunded ==
  \A t \in Tasks \ (Realtime \cup Unreachable) :
    /\ row[t].status = "FAILURE" /\ terms[t].kind # "usage"
    /\ Quiet(t) /\ ~ClosedOld(t) /\ lost[t] = {}
    => charged[t] = 0 /\ tokenCharged[t] = 0

(* Whatever fails, and wherever a pass is cut off, a task never gives back  *)
(* more than it took.  A client's GET that writes an old copy of a refunded *)
(* row back makes a second refund possible: Realtime tasks are left out.    *)
NoOverRefund ==
  \A t \in Tasks \ Realtime : charged[t] >= 0 /\ tokenCharged[t] >= 0

(* A finished task never changes its status: only a client's GET and the    *)
(* update by id do not look at it.                                          *)
FinishedStays ==
  [][\A t \in Tasks \ (Realtime \cup Unreachable) :
       row[t].status \in Terminal => row'[t].status = row[t].status]_vars

(* The task runs and its progress reads "100%": no query selects it again. *)
Stranded(t) == Running(t) /\ row[t].full

(* A submitted task ends, by its upstream, the failure cutoff or the        *)
(* timeout, however often a batch answer replaces its submit time, and its  *)
(* billing ends.  The one exception is a task reported at 100% while it     *)
(* runs, which GetAllUnFinishSyncTasks and GetTimedOutUnfinishedTasks leave *)
(* out.                                                                     *)
EverySubmissionEnds ==
  \A t \in Tasks :
    row[t].status # "ABSENT"
      ~> (row[t].status \in Terminal \/ Stranded(t)) /\ Quiet(t)
============================================================================
