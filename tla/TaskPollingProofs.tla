------------------------- MODULE TaskPollingProofs -------------------------
(***************************************************************************)
(* Proofs about TaskPolling, for any sets of tasks, workers and amounts,   *)
(* any failure cutoff and any number of faults.  The inductive invariant   *)
(* says of every task no client's GET writes: a pass only holds copies of  *)
(* unfinished rows, at most one pass bills a finished task, and what the   *)
(* task has taken agrees with the quota column at every billing stage.     *)
(***************************************************************************)
EXTENDS TaskPolling, TLAPS

Biller(w, t) == job[w][t].stage \in BillingStages
NoBiller(t) == \A w \in Workers : ~Biller(w, t)

(* What the task has taken for good: the surplus goes back. *)
Held(t) == charged[t] - surplus[t]
TokenHeld(t) == tokenCharged[t] - surplus[t]

(* The quota column is claimed to be exact. *)
Exact(t) == ~ClosedOld(t) /\ lost[t] \subseteq {"fund"}

(* The task has to be refunded in full. *)
Refundable(t) == row[t].status = "FAILURE" /\ terms[t].kind # "usage"

CopyGood(w, t) ==
  job[w][t].stage \in {"sweep", "poll"} =>
    /\ job[w][t].copy.status \notin Terminal \cup {"ABSENT"}
    /\ row[t].status # "ABSENT"
    /\ Running(t) => job[w][t].copy.quota = row[t].quota

BillGood(w, t) ==
  Biller(w, t) =>
    /\ row[t].status \in Terminal
    /\ \A v \in Workers : Biller(v, t) => v = w
    /\ job[w][t].copy.quota = row[t].quota
    /\ job[w][t].stage = "fund" =>
         /\ Held(t) >= row[t].quota /\ TokenHeld(t) >= row[t].quota
         /\ Exact(t) => Held(t) = row[t].quota /\ TokenHeld(t) = row[t].quota
    /\ job[w][t].stage = "token" =>
         /\ Held(t) >= job[w][t].target /\ TokenHeld(t) >= row[t].quota
         /\ Exact(t) => Held(t) = job[w][t].target /\ TokenHeld(t) = row[t].quota
    /\ job[w][t].stage = "record" /\ Exact(t) =>
         Held(t) = job[w][t].target /\ TokenHeld(t) = job[w][t].target
    /\ Refundable(t) /\ t \notin Unreachable => job[w][t].target = 0

RowGood(t) ==
  /\ Held(t) >= 0 /\ TokenHeld(t) >= 0
  /\ Running(t) => Held(t) >= row[t].quota /\ TokenHeld(t) >= row[t].quota
  /\ NoBiller(t) /\ Exact(t) =>
       Held(t) = row[t].quota /\ TokenHeld(t) = row[t].quota
  /\ NoBiller(t) /\ Refundable(t) /\ t \notin Unreachable /\ ~ClosedOld(t) /\ lost[t] = {}
       => row[t].quota = 0
  /\ row[t].status = "ABSENT" => surplus[t] = 0

Good(t) ==
  /\ RowGood(t)
  /\ \A w \in Workers : CopyGood(w, t) /\ BillGood(w, t)

AllGood == \A t \in Tasks \ Realtime : Good(t)

(* A worker between two passes holds nothing. *)
OffGood == \A w \in Workers : pass[w] = "off" => AllIdle(w)

(* A GET only ever waits for a Gemini or Vertex task. *)
FetchGood ==
  \A c \in Fetches : fetch[c].state = "waiting" => fetch[c].task \in Realtime

---------------------------------------------------------------------------
(* Types *)

(* Every stage, row and job that an action builds has its type. *)
LEMMA BuiltJobs ==
  /\ Idle \in Job
  /\ \A copy \in Row : copy.quota \in Quotas /\ copy.fails \in Nat
  /\ \A copy \in Row, q \in Quotas : Bill(copy, q) \in Job
  /\ \A copy \in Row, s \in NonTerminal \cup Terminal, f \in BOOLEAN :
       /\ [copy EXCEPT !.status = s, !.full = f] \in Row
       /\ \A n \in SubmitTimes(copy) :
            [copy EXCEPT !.status = s, !.full = f, !.submitted = n] \in Row
  /\ \A copy \in Row, q \in Quotas : [copy EXCEPT !.quota = q] \in Row
  /\ \A copy \in Row, n \in Nat : [copy EXCEPT !.fails = n] \in Row
  /\ \A copy \in Row, s \in {"sweep", "poll"} :
       [stage |-> s, copy |-> copy, target |-> 0] \in Job
  /\ \A j \in Job : j.copy \in Row /\ j.target \in Quotas
  /\ \A j \in Job, s \in BillingStages : [j EXCEPT !.stage = s] \in Job
  /\ 0 \in Quotas /\ Quotas \subseteq Nat
  <1>1. 0 \in Quotas /\ Quotas \subseteq Nat /\ Times \subseteq Nat
    BY TaskPollingAssumption
  <1>2. Absent \in Row
    BY <1>1 DEF Absent, Row
  <1>3. Idle \in Job
    BY <1>1, <1>2 DEF Idle, Job
  <1>4. \A copy \in Row, q \in Quotas : Bill(copy, q) \in Job
    BY <1>3 DEF Bill, Job, BillingStages
  <1>5. ASSUME NEW copy \in Row, NEW s \in NonTerminal \cup Terminal, NEW f \in BOOLEAN
        PROVE  /\ [copy EXCEPT !.status = s, !.full = f] \in Row
               /\ \A n \in SubmitTimes(copy) :
                    [copy EXCEPT !.status = s, !.full = f, !.submitted = n] \in Row
    <2>1. SubmitTimes(copy) \subseteq Nat
      BY <1>1 DEF SubmitTimes, Row
    <2>2. QED
      BY <2>1 DEF Row
  <1>6. /\ \A copy \in Row : copy.quota \in Quotas /\ copy.fails \in Nat
        /\ \A copy \in Row, q \in Quotas : [copy EXCEPT !.quota = q] \in Row
        /\ \A copy \in Row, n \in Nat : [copy EXCEPT !.fails = n] \in Row
    BY DEF Row
  <1>7. /\ \A copy \in Row, s \in {"sweep", "poll"} :
             [stage |-> s, copy |-> copy, target |-> 0] \in Job
        /\ \A j \in Job : j.copy \in Row /\ j.target \in Quotas
        /\ \A j \in Job, s \in BillingStages : [j EXCEPT !.stage = s] \in Job
    BY <1>1 DEF Job
  <1>8. QED
    BY <1>1, <1>3, <1>4, <1>5, <1>6, <1>7

LEMMA Amounts ==
  /\ 0 \in Quotas /\ Quotas \subseteq Nat
  /\ \A copy \in Row : copy.quota \in Quotas /\ copy.quota \in Nat
  /\ \A j \in Job : j.copy \in Row /\ j.target \in Quotas /\ j.target \in Nat
  BY TaskPollingAssumption DEF Row, Job

(* Replacing one job keeps the type of all. *)
LEMMA OneJob ==
  ASSUME TypeOK, NEW w \in Workers, NEW t \in Tasks, NEW j \in Job
  PROVE  [job EXCEPT ![w][t] = j] \in [Workers -> [Tasks -> Job]]
  BY DEF TypeOK

(* A write that bills nothing keeps the types. *)
LEMMA WriteRowTypes ==
  ASSUME TypeOK, NEW w \in Workers, NEW t \in Tasks, NEW new \in Row,
         WriteRow(w, t, new)
  PROVE  TypeOK'
  <1>1. row' \in [Tasks -> Row]
    BY DEF TypeOK, WriteRow
  <1>2. job' \in [Workers -> [Tasks -> Job]]
    BY BuiltJobs DEF TypeOK, WriteRow, Done
  <1>3. faults' \in 0..MaxFaults
    BY TaskPollingAssumption DEF TypeOK, WriteRow
  <1>4. UNCHANGED <<terms, cutoff, surplus, pass, fetch, charged,
                    tokenCharged, lost>>
    BY DEF WriteRow, context, ledger
  <1>5. QED
    BY <1>1, <1>2, <1>3, <1>4 DEF TypeOK

(* The write of a finished status keeps the types. *)
LEMMA FinishTypes ==
  ASSUME TypeOK, NEW w \in Workers, NEW t \in Tasks, NEW new \in Row,
         NEW targets \in SUBSET Quotas, Finish(w, t, new, targets)
  PROVE  TypeOK'
  <1>1. row' \in [Tasks -> Row]
    BY DEF TypeOK, Finish
  <1>2. job' \in [Workers -> [Tasks -> Job]]
    <2>1. \A q \in targets : Bill(new, q) \in Job
      BY BuiltJobs
    <2>2. PICK j \in Job : job' = [job EXCEPT ![w][t] = j]
      BY <2>1, BuiltJobs DEF Finish, Done
    <2>3. QED
      BY <2>2, OneJob
  <1>3. faults' \in 0..MaxFaults
    BY TaskPollingAssumption DEF TypeOK, Finish
  <1>4. UNCHANGED <<terms, cutoff, surplus, pass, fetch, charged,
                    tokenCharged, lost>>
    BY DEF Finish, context, ledger
  <1>5. QED
    BY <1>1, <1>2, <1>3, <1>4 DEF TypeOK

(* The quotas a task may be settled at are amounts. *)
LEMMA FinalQuotasTypes ==
  ASSUME NEW t \in Tasks, NEW s, NEW q \in Quotas
  PROVE  FinalQuotas(t, s, q) \in SUBSET Quotas
  BY BuiltJobs DEF FinalQuotas

LEMMA JobTypes ==
  ASSUME TypeOK, NEW w \in Workers, NEW t \in Tasks
  PROVE  /\ job[w][t] \in Job
         /\ job[w][t].copy \in Row /\ job[w][t].copy.quota \in Quotas
         /\ job[w][t].target \in Quotas /\ Delta(w, t) \in Int
         /\ row[t] \in Row /\ row[t].quota \in Nat
         /\ surplus[t] \in Nat /\ charged[t] \in Int /\ tokenCharged[t] \in Int
  <1>1. job[w][t] \in Job /\ row[t] \in Row
    BY DEF TypeOK
  <1>2. QED
    BY <1>1, Amounts DEF TypeOK, Delta

(* The poll's outcomes and the sweep keep the types. *)
LEMMA PollTypes ==
  ASSUME TypeOK, NEW w \in Workers, NEW t \in Tasks,
         \/ SweepTask(w, t) \/ PollRunning(w, t) \/ PollFinished(w, t)
         \/ PollNotFound(w, t) \/ PollFails(w, t)
  PROVE  TypeOK'
  <1> DEFINE copy == job[w][t].copy
  <1>1. copy \in Row /\ copy.quota \in Quotas
    BY JobTypes
  <1>2. \A s \in NonTerminal \cup Terminal, f \in BOOLEAN, n \in SubmitTimes(copy) :
          [copy EXCEPT !.status = s, !.full = f, !.submitted = n] \in Row
    BY <1>1, BuiltJobs
  <1>f. \A c \in Row : Fail(w, t, c) => TypeOK'
    <2> SUFFICES ASSUME NEW c \in Row, Fail(w, t, c) PROVE TypeOK'
      OBVIOUS
    <2>1. [c EXCEPT !.status = "FAILURE", !.full = TRUE] \in Row /\ c.quota \in Quotas
      BY BuiltJobs DEF Terminal
    <2>2. FinalQuotas(t, "FAILURE", c.quota) \in SUBSET Quotas
      BY <2>1, FinalQuotasTypes
    <2>3. QED
      BY <2>1, <2>2, FinishTypes DEF Fail
  <1>3. CASE SweepTask(w, t)
    <2> DEFINE new == [copy EXCEPT !.status = "FAILURE", !.full = TRUE]
    <2>1. new \in Row /\ [new EXCEPT !.quota = 0] \in Row
      BY <1>1, BuiltJobs DEF Terminal
    <2>2. {0} \in SUBSET Quotas
      BY BuiltJobs
    <2>3. Finish(w, t, new, {0}) \/ Finish(w, t, [new EXCEPT !.quota = 0], {0})
      BY <1>3 DEF SweepTask
    <2>4. QED
      BY <2>1, <2>2, <2>3, FinishTypes
  <1>4. CASE PollRunning(w, t)
    <2>1. PICK s \in Reports \cap NonTerminal, f \in BOOLEAN, n \in SubmitTimes(copy) :
            WriteRow(w, t, [copy EXCEPT !.status = s, !.full = f,
                                        !.submitted = n, !.fails = 0])
      BY <1>4 DEF PollRunning
    <2>2. [copy EXCEPT !.status = s, !.full = f, !.submitted = n, !.fails = 0] \in Row
      BY <1>1, TaskPollingAssumption DEF Row, SubmitTimes
    <2>3. QED
      BY <2>1, <2>2, WriteRowTypes
  <1>5. CASE PollFinished(w, t)
    <2>1. PICK s \in Reports \cap Terminal, f \in BOOLEAN, n \in SubmitTimes(copy) :
            Finish(w, t, [copy EXCEPT !.status = s, !.full = f, !.submitted = n],
                   FinalQuotas(t, s, copy.quota))
      BY <1>5 DEF PollFinished
    <2>2. FinalQuotas(t, s, copy.quota) \in SUBSET Quotas
      BY <1>1, FinalQuotasTypes
    <2>3. QED
      BY <1>2, <2>1, <2>2, FinishTypes
  <1>6. CASE PollNotFound(w, t)
    BY <1>1, <1>6, <1>f DEF PollNotFound
  <1>7. CASE PollFails(w, t)
    <2> DEFINE new == [copy EXCEPT !.fails = IF MaxPollFailures = 0 THEN 0 ELSE @ + 1]
    <2>1. new \in Row
      BY <1>1 DEF Row
    <2>2. Fail(w, t, new) \/ WriteRow(w, t, new)
      BY <1>7 DEF PollFails
    <2>3. QED
      BY <2>1, <2>2, <1>f, WriteRowTypes
  <1>8. QED
    BY <1>3, <1>4, <1>5, <1>6, <1>7

(* The billing steps keep the types. *)
LEMMA BillingTypes ==
  ASSUME TypeOK, NEW w \in Workers, NEW t \in Tasks,
         \/ AdjustFunding(w, t) \/ FundingFails(w, t) \/ AdjustToken(w, t)
         \/ TokenFails(w, t) \/ UpdateQuota(w, t) \/ UpdateQuotaFails(w, t)
  PROVE  TypeOK'
  <1>1. job' \in [Workers -> [Tasks -> Job]]
    <2>1. /\ [job[w][t] EXCEPT !.stage = "token"] \in Job
          /\ [job[w][t] EXCEPT !.stage = "record"] \in Job
      BY JobTypes, BuiltJobs DEF BillingStages
    <2>2. PICK j \in Job : job' = [job EXCEPT ![w][t] = j]
      BY <2>1, BuiltJobs DEF AdjustFunding, FundingFails, AdjustToken,
         TokenFails, UpdateQuota, UpdateQuotaFails, NextStage, Done
    <2>3. QED
      BY <2>2, OneJob
  <1>2. row' \in [Tasks -> Row]
    <2>1. \A q \in Quotas : [row[t] EXCEPT !.quota = q] \in Row
      BY JobTypes, BuiltJobs
    <2>2. [row EXCEPT ![t].quota = job[w][t].target] \in [Tasks -> Row]
      BY <2>1, JobTypes DEF TypeOK
    <2>3. QED
      BY <2>2 DEF TypeOK, AdjustFunding, FundingFails, AdjustToken,
         TokenFails, UpdateQuota, UpdateQuotaFails, rows, context
  <1>3. charged' \in [Tasks -> Int] /\ tokenCharged' \in [Tasks -> Int]
    BY JobTypes DEF TypeOK, AdjustFunding, FundingFails, AdjustToken,
       TokenFails, UpdateQuota, UpdateQuotaFails, ledger
  <1>4. lost' \in [Tasks -> SUBSET (BillingStages \cup {"settle"})]
    BY DEF TypeOK, AdjustFunding, FundingFails, AdjustToken,
       TokenFails, UpdateQuota, UpdateQuotaFails, ledger, BillingStages
  <1>5. faults' \in 0..MaxFaults
    BY TaskPollingAssumption DEF TypeOK, AdjustFunding, FundingFails,
       AdjustToken, TokenFails, UpdateQuota, UpdateQuotaFails
  <1>6. UNCHANGED <<terms, cutoff, surplus, pass, fetch>>
    BY DEF AdjustFunding, FundingFails, AdjustToken,
       TokenFails, UpdateQuota, UpdateQuotaFails, rows, context
  <1>7. QED
    BY <1>1, <1>2, <1>3, <1>4, <1>5, <1>6 DEF TypeOK

(* A submission and its settlement keep the types. *)
LEMMA SubmissionTypes ==
  ASSUME TypeOK, NEW t \in Tasks,
         \/ Submit(t) \/ SettleSubmission(t) \/ SettleSubmissionFails(t)
  PROVE  TypeOK'
  <1>1. CASE Submit(t)
    <2>1. PICK held \in Quotas, quota \in Quotas :
            /\ Reserved(held, quota)
            /\ \E new \in Inserted(quota) : row' = [row EXCEPT ![t] = new]
            /\ \E k \in Kinds, f \in Sources :
                 terms' = [terms EXCEPT ![t] = [kind |-> k, source |-> f]]
            /\ surplus' = [surplus EXCEPT ![t] = held - quota]
            /\ charged' = [charged EXCEPT ![t] = held]
            /\ tokenCharged' = [tokenCharged EXCEPT ![t] = held]
      BY <1>1 DEF Submit
    <2>2. held \in Nat /\ held - quota \in Nat
      <3>1. held \in Nat /\ quota \in Nat
        BY Amounts
      <3>2. QED
        BY <2>1, <3>1 DEF Reserved
    <2>3. \A new \in Inserted(quota) : new \in Row
      BY <2>1, TaskPollingAssumption DEF Inserted, Row, NonTerminal, Terminal
    <2>4. row' \in [Tasks -> Row] /\ surplus' \in [Tasks -> Nat]
      BY <2>1, <2>2, <2>3 DEF TypeOK
    <2>5. terms' \in [Tasks -> [kind : Kinds, source : Sources]]
      BY <2>1 DEF TypeOK
    <2>6. charged' \in [Tasks -> Int] /\ tokenCharged' \in [Tasks -> Int]
      BY <2>1, <2>2 DEF TypeOK
    <2>7. QED
      BY <1>1, <2>4, <2>5, <2>6 DEF Submit, TypeOK
  <1>2. CASE SettleSubmission(t)
    <2>1. surplus' \in [Tasks -> Nat]
      BY <1>2 DEF TypeOK, SettleSubmission
    <2>2. charged' \in [Tasks -> Int] /\ tokenCharged' \in [Tasks -> Int]
      BY <1>2 DEF TypeOK, SettleSubmission
    <2>3. QED
      BY <1>2, <2>1, <2>2 DEF TypeOK, SettleSubmission
  <1>3. CASE SettleSubmissionFails(t)
    <2>1. surplus' \in [Tasks -> Nat]
      BY <1>3 DEF TypeOK, SettleSubmissionFails
    <2>2. charged' \in [Tasks -> Int]
      BY <1>3 DEF TypeOK, SettleSubmissionFails
    <2>3. lost' \in [Tasks -> SUBSET (BillingStages \cup {"settle"})]
      BY <1>3 DEF TypeOK, SettleSubmissionFails
    <2>4. faults' \in 0..MaxFaults
      BY <1>3, TaskPollingAssumption DEF TypeOK, SettleSubmissionFails
    <2>5. QED
      BY <1>3, <2>1, <2>2, <2>3, <2>4 DEF TypeOK, SettleSubmissionFails
  <1>4. QED
    BY <1>1, <1>2, <1>3

(* The steps of a pass as a whole keep the types. *)
LEMMA PassTypes ==
  ASSUME TypeOK, NEW w \in Workers,
         StartPass(w) \/ ListUnfinished(w) \/ EndPass(w) \/ Crash(w)
  PROVE  TypeOK'
  <1>1. CASE StartPass(w) \/ ListUnfinished(w)
    <2>1. /\ Listed("sweep", TimedOut) \in [Tasks -> Job]
          /\ Listed("poll", Unfinished) \in [Tasks -> Job]
      BY BuiltJobs DEF Listed, TypeOK
    <2>2. job' \in [Workers -> [Tasks -> Job]]
      BY <1>1, <2>1 DEF TypeOK, StartPass, ListUnfinished
    <2>3. pass' \in [Workers -> {"off", "sweep", "poll"}]
      BY <1>1 DEF TypeOK, StartPass, ListUnfinished
    <2>4. QED
      BY <1>1, <2>2, <2>3
         DEF TypeOK, StartPass, ListUnfinished, rows, context, ledger
  <1>2. CASE EndPass(w)
    BY <1>2 DEF EndPass, TypeOK, rows, context, ledger
  <1>3. CASE Crash(w)
    <2>1. job' \in [Workers -> [Tasks -> Job]]
      BY <1>3, BuiltJobs DEF TypeOK, Crash
    <2>2. lost' \in [Tasks -> SUBSET (BillingStages \cup {"settle"})]
      BY <1>3 DEF TypeOK, Crash
    <2>3. faults' \in 0..MaxFaults
      BY <1>3, TaskPollingAssumption DEF TypeOK, Crash
    <2>4. QED
      BY <1>3, <2>1, <2>2, <2>3 DEF TypeOK, Crash, rows, context
  <1>4. QED
    BY <1>1, <1>2, <1>3

(* A missing channel and a client's GET keep the types. *)
LEMMA OutsideTypes ==
  ASSUME TypeOK,
         \/ \E w \in Workers, t \in Tasks : ChannelMissing(w, t) \/ PollSkipped(w, t)
         \/ \E c \in Fetches, t \in Tasks : FetchRead(c, t)
         \/ \E c \in Fetches : FetchWrite(c)
  PROVE  TypeOK'
  <1>1. ASSUME NEW w \in Workers, NEW t \in Tasks, ChannelMissing(w, t)
        PROVE  TypeOK'
    <2>1. [row[t] EXCEPT !.status = "FAILURE", !.full = TRUE] \in Row
      BY BuiltJobs DEF TypeOK, Terminal
    <2>2. row' \in [Tasks -> Row]
      BY <1>1, <2>1 DEF TypeOK, ChannelMissing
    <2>3. job' \in [Workers -> [Tasks -> Job]]
      BY <1>1, OneJob, BuiltJobs DEF ChannelMissing, Done
    <2>4. faults' \in 0..MaxFaults
      <3>1. faults' = faults \/ (faults < MaxFaults /\ faults' = faults + 1)
        BY <1>1 DEF ChannelMissing
      <3>2. QED
        BY <3>1, TaskPollingAssumption DEF TypeOK
    <2>5. QED
      BY <1>1, <2>2, <2>3, <2>4 DEF TypeOK, ChannelMissing, context, ledger
  <1>s. ASSUME NEW w \in Workers, NEW t \in Tasks, PollSkipped(w, t)
        PROVE  TypeOK'
    <2>1. job' \in [Workers -> [Tasks -> Job]]
      BY <1>s, OneJob, BuiltJobs DEF PollSkipped, Done
    <2>2. QED
      BY <1>s, <2>1 DEF TypeOK, PollSkipped, rows, context, ledger
  <1>2. ASSUME NEW c \in Fetches, NEW t \in Tasks, FetchRead(c, t)
        PROVE  TypeOK'
    <2>1. Waiting(t, row[t]) \in [state : {"waiting"}, task : Tasks, copy : Row]
      BY DEF Waiting, TypeOK
    <2>2. QED
      BY <1>2, <2>1 DEF TypeOK, FetchRead, rows, context, ledger
  <1>3. ASSUME NEW c \in Fetches, FetchWrite(c)
        PROVE  TypeOK'
    <2>0. fetch[c].state = "waiting"
      BY <1>3 DEF FetchWrite
    <2>1. fetch[c].task \in Tasks /\ fetch[c].copy \in Row
      BY <2>0 DEF TypeOK, Unstarted, Answered
    <2>2. \A s \in Reports \cup {"UNKNOWN"}, f \in BOOLEAN :
            [fetch[c].copy EXCEPT !.status = s, !.full = f] \in Row
      BY <2>1, TaskPollingAssumption DEF Row
    <2>3. row' \in [Tasks -> Row]
      <3>1. \/ row' = row
            \/ \E s \in Reports \cup {"UNKNOWN"}, f \in BOOLEAN :
                 row' = [row EXCEPT ![fetch[c].task] =
                           [fetch[c].copy EXCEPT !.status = s, !.full = f]]
        BY <1>3 DEF FetchWrite
      <3>2. ASSUME NEW s \in Reports \cup {"UNKNOWN"}, NEW f \in BOOLEAN,
                   row' = [row EXCEPT ![fetch[c].task] =
                             [fetch[c].copy EXCEPT !.status = s, !.full = f]]
            PROVE  row' \in [Tasks -> Row]
        <4>1. [fetch[c].copy EXCEPT !.status = s, !.full = f] \in Row
          BY <2>2
        <4>2. QED
          BY <2>1, <3>2, <4>1 DEF TypeOK
      <3>3. QED
        BY <3>1, <3>2 DEF TypeOK
    <2>4. fetch' \in [Fetches -> {Unstarted, Answered} \cup
                        [state : {"waiting"}, task : Tasks, copy : Row]]
      BY <1>3 DEF TypeOK, FetchWrite
    <2>5. QED
      BY <1>3, <2>3, <2>4 DEF TypeOK, FetchWrite, context, ledger
  <1>4. QED
    BY <1>1, <1>s, <1>2, <1>3

(* Every step keeps the types. *)
LEMMA TypeStep == TypeOK /\ [Next]_vars => TypeOK'
  <1> SUFFICES ASSUME TypeOK, [Next]_vars PROVE TypeOK'
    OBVIOUS
  <1>1. ASSUME NEW t \in Tasks,
               Submit(t) \/ SettleSubmission(t) \/ SettleSubmissionFails(t)
        PROVE  TypeOK'
    BY <1>1, SubmissionTypes
  <1>k. CASE Tick
    BY <1>k, TaskPollingAssumption DEF Tick, TypeOK, ledger
  <1>2. ASSUME NEW w \in Workers, PassStep(w) \/ Crash(w)
        PROVE  TypeOK'
    BY <1>2, PassTypes, PollTypes, BillingTypes, OutsideTypes DEF PassStep
  <1>3. ASSUME NEW c \in Fetches,
               (\E t \in Tasks : FetchRead(c, t)) \/ FetchWrite(c)
        PROVE  TypeOK'
    BY <1>3, OutsideTypes
  <1>4. CASE UNCHANGED vars
    BY <1>4 DEF vars, TypeOK
  <1>5. QED
    BY <1>1, <1>k, <1>2, <1>3, <1>4 DEF Next, AllDone

LEMMA TypeInit == Init => TypeOK
  <1> SUFFICES ASSUME Init PROVE TypeOK
    OBVIOUS
  <1>1. Absent \in Row /\ Idle \in Job /\ 0 \in Nat /\ 0 \in 0..MaxFaults /\ 0 \in 0..MaxCutoff
    BY Amounts, TaskPollingAssumption DEF Absent, Row, Idle, Job
  <1>2. QED
    BY <1>1 DEF Init, TypeOK, Kinds, Sources, Unstarted, Answered

---------------------------------------------------------------------------
(* What a step does to the tasks *)

(* A step that leaves a task alone keeps what is known of it. *)
LEMMA Frame ==
  ASSUME NEW t \in Tasks, Good(t),
         row'[t] = row[t], terms'[t] = terms[t], surplus'[t] = surplus[t],
         charged'[t] = charged[t], tokenCharged'[t] = tokenCharged[t],
         lost'[t] = lost[t], \A w \in Workers : job'[w][t] = job[w][t]
  PROVE  Good(t)'
  BY DEF Good, RowGood, CopyGood, BillGood, NoBiller, Biller, Held, TokenHeld,
         Exact, ClosedOld, Refundable, Running

(* So does a pass that lets go of a copy it does not bill with. *)
LEMMA DropCopy ==
  ASSUME NEW t \in Tasks, NEW w \in Workers, Good(t),
         row'[t] = row[t], terms'[t] = terms[t], surplus'[t] = surplus[t],
         charged'[t] = charged[t], tokenCharged'[t] = tokenCharged[t],
         lost'[t] = lost[t],
         job[w][t].stage \notin BillingStages, job'[w][t] = Idle,
         \A v \in Workers \ {w} : job'[v][t] = job[v][t]
  PROVE  Good(t)'
  <1>1. \A v \in Workers : Biller(v, t)' <=> Biller(v, t)
    BY DEF Biller, Idle, BillingStages
  <1>2. /\ Held(t)' = Held(t) /\ TokenHeld(t)' = TokenHeld(t)
        /\ Exact(t)' <=> Exact(t)
        /\ Refundable(t)' <=> Refundable(t)
        /\ Running(t)' <=> Running(t)
        /\ NoBiller(t)' <=> NoBiller(t)
    BY <1>1 DEF Held, TokenHeld, Exact, ClosedOld, Refundable, Running, NoBiller
  <1>3. RowGood(t)'
    BY <1>2 DEF Good, RowGood, ClosedOld
  <1>4. \A v \in Workers : CopyGood(v, t)'
    BY <1>2 DEF Good, CopyGood, Idle
  <1>5. \A v \in Workers : BillGood(v, t)'
    BY <1>1, <1>2 DEF Good, BillGood, Biller
  <1>6. QED
    BY <1>3, <1>4, <1>5 DEF Good

(* No pass bills an unfinished task. *)
LEMMA RunningUnbilled ==
  ASSUME NEW t \in Tasks, Good(t), row[t].status \notin Terminal
  PROVE  NoBiller(t)
  BY DEF Good, BillGood, NoBiller

(* A write of an unfinished status. *)
LEMMA WriteRowGood ==
  ASSUME TypeOK, NEW w \in Workers, NEW t \in Tasks, Good(t), NEW new \in Row,
         WriteRow(w, t, new), job[w][t].stage = "poll",
         new.status \notin Terminal \cup {"ABSENT"},
         new.quota = job[w][t].copy.quota
  PROVE  Good(t)'
  <1>1. /\ job'[w][t] = Idle
        /\ \A v \in Workers \ {w} : job'[v][t] = job[v][t]
    BY DEF TypeOK, WriteRow, Done
  <1>2. /\ terms'[t] = terms[t] /\ surplus'[t] = surplus[t]
        /\ charged'[t] = charged[t] /\ tokenCharged'[t] = tokenCharged[t]
        /\ lost'[t] = lost[t]
    BY DEF WriteRow, context, ledger
  <1>3. job[w][t].stage \notin BillingStages
    BY DEF BillingStages
  <1>4. CASE row'[t] = row[t]
    BY <1>1, <1>2, <1>3, <1>4, DropCopy
  <1>5. CASE row' = [row EXCEPT ![t] = new] /\ Wins(t, job[w][t].copy.status)
    <2>1. Running(t) /\ row[t].quota = new.quota /\ row'[t] = new
      BY <1>5 DEF TypeOK, Good, CopyGood, Wins, Running
    <2>2. NoBiller(t) /\ NoBiller(t)'
      BY <1>1, <2>1, RunningUnbilled
         DEF Running, NoBiller, Biller, Idle, BillingStages
    <2>3. Held(t)' = Held(t) /\ TokenHeld(t)' = TokenHeld(t) /\ (Exact(t)' => Exact(t))
      BY <1>2, <2>1 DEF Held, TokenHeld, Exact, ClosedOld, Running, Terminal
    <2>4. RowGood(t)'
      BY <2>1, <2>2, <2>3 DEF Good, RowGood, Refundable, Terminal
    <2>5. \A v \in Workers : CopyGood(v, t)'
      BY <1>1, <2>1 DEF Good, CopyGood, Running, Idle
    <2>6. \A v \in Workers : BillGood(v, t)'
      BY <2>2 DEF BillGood, NoBiller
    <2>7. QED
      BY <2>4, <2>5, <2>6 DEF Good
  <1>6. QED
    BY <1>4, <1>5 DEF WriteRow

(* A write of a finished status, and the start of its billing.  A task of   *)
(* the old system is closed at no quota.                                    *)
LEMMA FinishGood ==
  ASSUME TypeOK, NEW w \in Workers, NEW t \in Tasks, Good(t), NEW new \in Row,
         NEW targets \in SUBSET Quotas, Finish(w, t, new, targets),
         job[w][t].stage \in {"sweep", "poll"}, new.status \in Terminal,
         \/ /\ new.quota = job[w][t].copy.quota
            /\ new.status = "FAILURE" /\ terms[t].kind # "usage" => targets = {0}
         \/ /\ new.status = "FAILURE" /\ IsLegacy(new)
            /\ new.quota = 0 /\ targets = {0}
  PROVE  Good(t)'
  <1>1. /\ terms'[t] = terms[t] /\ surplus'[t] = surplus[t]
        /\ charged'[t] = charged[t] /\ tokenCharged'[t] = tokenCharged[t]
        /\ lost'[t] = lost[t]
    BY DEF Finish, context, ledger
  <1>2. job[w][t].stage \notin BillingStages
    BY DEF BillingStages
  <1>3. CASE Done(w, t) /\ row' = row
    <2>1. /\ job'[w][t] = Idle
          /\ \A v \in Workers \ {w} : job'[v][t] = job[v][t]
      BY <1>3 DEF TypeOK, Done
    <2>2. QED
      BY <1>1, <1>2, <1>3, <2>1, DropCopy
  <1>4. CASE /\ Wins(t, job[w][t].copy.status)
             /\ row' = [row EXCEPT ![t] = new]
             /\ \E q \in targets : job' = [job EXCEPT ![w][t] = Bill(new, q)]
    <2>1. PICK q \in targets : job' = [job EXCEPT ![w][t] = Bill(new, q)]
      BY <1>4
    <2>2. /\ job'[w][t] = Bill(new, q)
          /\ \A v \in Workers \ {w} : job'[v][t] = job[v][t]
      BY <2>1 DEF TypeOK
    <2>3. Running(t) /\ row'[t] = new /\ job[w][t].copy.quota = row[t].quota
      BY <1>4 DEF TypeOK, Good, CopyGood, Wins, Running
    <2>4. NoBiller(t) /\ (\A v \in Workers \ {w} : ~Biller(v, t)')
      BY <2>2, <2>3, RunningUnbilled DEF Running, NoBiller, Biller
    <2>5. /\ Held(t)' = Held(t) /\ TokenHeld(t)' = TokenHeld(t)
          /\ Exact(t)' => Exact(t)
          /\ Held(t) \in Int /\ TokenHeld(t) \in Int
      BY <1>1, <2>3, JobTypes DEF Held, TokenHeld, Exact, ClosedOld, Running, Terminal
    <2>6. /\ Held(t) >= row[t].quota /\ TokenHeld(t) >= row[t].quota
          /\ Held(t) >= 0 /\ TokenHeld(t) >= 0
          /\ Exact(t) => Held(t) = row[t].quota /\ TokenHeld(t) = row[t].quota
      BY <2>3, <2>4 DEF Good, RowGood
    <2>7. \A v \in Workers : CopyGood(v, t)'
      <3>1. ~Running(t)' /\ row'[t].status # "ABSENT"
        BY <2>3 DEF Running, Terminal
      <3>2. job'[w][t].stage \notin {"sweep", "poll"}
        BY <2>2 DEF Bill, Idle
      <3>3. QED
        BY <2>2, <3>1, <3>2 DEF Good, CopyGood
    <2>8. \/ new.quota = row[t].quota
          \/ ~Exact(t)' /\ ClosedOld(t)' /\ new.quota = 0 /\ q = 0
      BY <2>3 DEF Exact, ClosedOld
    <2>9. CASE q = new.quota
      <3>1. NoBiller(t)'
        BY <2>2, <2>4, <2>9 DEF NoBiller, Biller, Bill, Idle, BillingStages
      <3>2. Refundable(t)' => new.quota = 0
        BY <1>1, <2>3, <2>9 DEF Refundable
      <3>3. RowGood(t)'
        BY <2>3, <2>5, <2>6, <2>8, <3>1, <3>2
           DEF RowGood, Running, Terminal
      <3>4. \A v \in Workers : BillGood(v, t)'
        BY <3>1 DEF BillGood, NoBiller
      <3>5. QED
        BY <2>7, <3>3, <3>4 DEF Good
    <2>10. CASE q # new.quota
      <3>1. job'[w][t] = [stage |-> "fund", copy |-> new, target |-> q]
        BY <2>2, <2>10 DEF Bill
      <3>2. Biller(w, t)' /\ ~NoBiller(t)'
        BY <3>1 DEF Biller, NoBiller, BillingStages
      <3>3. RowGood(t)'
        BY <2>3, <2>5, <2>6, <3>2 DEF RowGood, Running, Terminal
      <3>4. new.quota = row[t].quota
        BY <2>8, <2>10
      <3>5. Refundable(t)' => q = 0
        BY <1>1, <2>3, <2>8 DEF Refundable
      <3>6. BillGood(w, t)'
        BY <2>3, <2>4, <2>5, <2>6, <3>1, <3>4, <3>5 DEF BillGood
      <3>7. \A v \in Workers \ {w} : BillGood(v, t)'
        BY <2>4 DEF BillGood
      <3>8. QED
        BY <2>7, <3>3, <3>6, <3>7 DEF Good
    <2>11. QED
      BY <2>9, <2>10
  <1>5. QED
    BY <1>3, <1>4 DEF Finish

(* The billing steps of the one pass that bills the task. *)
LEMMA BillingGood ==
  ASSUME TypeOK, NEW w \in Workers, NEW t \in Tasks, Good(t),
         \/ AdjustFunding(w, t) \/ FundingFails(w, t) \/ AdjustToken(w, t)
         \/ TokenFails(w, t) \/ UpdateQuota(w, t) \/ UpdateQuotaFails(w, t)
  PROVE  Good(t)'
  <1>1. /\ Biller(w, t) /\ row[t].status \in Terminal
        /\ \A v \in Workers \ {w} : ~Biller(v, t)
        /\ Delta(w, t) = job[w][t].target - row[t].quota
    BY DEF Good, BillGood, Biller, BillingStages, Delta, AdjustFunding,
       FundingFails, AdjustToken, TokenFails, UpdateQuota, UpdateQuotaFails
  <1>2. /\ Held(t) \in Int /\ TokenHeld(t) \in Int
        /\ job[w][t].target \in Nat /\ row[t].quota \in Nat
    BY JobTypes, Amounts DEF Held, TokenHeld
  <1>3. /\ terms'[t] = terms[t] /\ surplus'[t] = surplus[t]
        /\ row'[t].status = row[t].status
        /\ Refundable(t)' <=> Refundable(t)
        /\ ~Running(t)' /\ row'[t].status # "ABSENT"
    <2>1. terms' = terms /\ surplus' = surplus
      BY DEF rows, context, AdjustFunding, FundingFails, AdjustToken,
         TokenFails, UpdateQuota, UpdateQuotaFails
    <2>2. row' = row \/ row' = [row EXCEPT ![t].quota = job[w][t].target]
      BY DEF rows, AdjustFunding, FundingFails, AdjustToken,
         TokenFails, UpdateQuota, UpdateQuotaFails
    <2>3. row'[t].status = row[t].status
      BY <2>2, JobTypes DEF TypeOK, Row
    <2>4. QED
      BY <1>1, <2>1, <2>3 DEF Refundable, Running, Terminal
  <1>4. \A v \in Workers \ {w} : job'[v][t] = job[v][t] /\ ~Biller(v, t)'
    BY <1>1 DEF TypeOK, AdjustFunding, FundingFails, AdjustToken, TokenFails,
       UpdateQuota, UpdateQuotaFails, NextStage, Done, Biller
  <1>5. \A v \in Workers \ {w} : CopyGood(v, t)' /\ BillGood(v, t)'
    BY <1>3, <1>4 DEF Good, CopyGood, BillGood
  <1>6. CASE AdjustFunding(w, t) \/ AdjustToken(w, t) \/ TokenFails(w, t)
    <2>1. /\ job'[w][t].stage \in {"token", "record"}
          /\ job'[w][t].copy = job[w][t].copy
          /\ job'[w][t].target = job[w][t].target
          /\ row' = row
          /\ AdjustFunding(w, t) => job'[w][t].stage = "token"
          /\ ~AdjustFunding(w, t) => job'[w][t].stage = "record"
      <3>1. /\ AdjustFunding(w, t) => NextStage(w, t, "token")
            /\ ~AdjustFunding(w, t) => NextStage(w, t, "record")
            /\ row' = row
        BY <1>6 DEF AdjustFunding, AdjustToken, TokenFails, rows
      <3>2. ASSUME NEW s \in {"token", "record"}, NextStage(w, t, s)
            PROVE  job'[w][t] = [job[w][t] EXCEPT !.stage = s]
        BY <3>2 DEF TypeOK, NextStage
      <3>3. \A s \in {"token", "record"} :
              LET j == [job[w][t] EXCEPT !.stage = s]
              IN j.stage = s /\ j.copy = job[w][t].copy /\ j.target = job[w][t].target
        BY JobTypes DEF Job
      <3>4. QED
        BY <3>1, <3>2, <3>3
    <2>2. Biller(w, t)' /\ ~NoBiller(t)' /\ CopyGood(w, t)'
      BY <2>1 DEF Biller, NoBiller, BillingStages, CopyGood
    <2>3. CASE AdjustFunding(w, t)
      <3>1. /\ job[w][t].stage = "fund" /\ job'[w][t].stage = "token"
            /\ Held(t)' = Held(t) + Delta(w, t) /\ TokenHeld(t)' = TokenHeld(t)
            /\ Exact(t)' <=> Exact(t)
        BY <1>3, <2>1, <2>3, JobTypes
           DEF TypeOK, AdjustFunding, Held, TokenHeld, Exact, ClosedOld
      <3>2. RowGood(t)'
        BY <1>1, <1>2, <1>3, <2>2, <3>1 DEF Good, RowGood, BillGood
      <3>3. BillGood(w, t)'
        BY <1>1, <1>2, <1>3, <1>4, <2>1, <3>1 DEF Good, BillGood
      <3>4. QED
        BY <1>5, <2>2, <3>2, <3>3 DEF Good
    <2>4. CASE AdjustToken(w, t)
      <3>1. /\ job[w][t].stage = "token" /\ job'[w][t].stage = "record"
            /\ Held(t)' = Held(t) /\ TokenHeld(t)' = TokenHeld(t) + Delta(w, t)
            /\ Exact(t)' <=> Exact(t)
        BY <1>3, <2>1, <2>4, JobTypes
           DEF TypeOK, AdjustToken, AdjustFunding, Held, TokenHeld, Exact, ClosedOld
      <3>2. RowGood(t)'
        BY <1>1, <1>2, <1>3, <2>2, <3>1 DEF Good, RowGood, BillGood
      <3>3. BillGood(w, t)'
        BY <1>1, <1>2, <1>3, <1>4, <2>1, <3>1 DEF Good, BillGood
      <3>4. QED
        BY <1>5, <2>2, <3>2, <3>3 DEF Good
    <2>5. CASE TokenFails(w, t)
      <3>1. /\ job[w][t].stage = "token" /\ job'[w][t].stage = "record"
            /\ Held(t)' = Held(t) /\ TokenHeld(t)' = TokenHeld(t)
            /\ ~Exact(t)'
        BY <1>3, <2>1, <2>5
           DEF TypeOK, TokenFails, AdjustFunding, Held, TokenHeld, Exact
      <3>2. RowGood(t)'
        BY <1>2, <1>3, <2>2, <3>1 DEF Good, RowGood
      <3>3. BillGood(w, t)'
        BY <1>1, <1>2, <1>3, <1>4, <2>1, <3>1 DEF Good, BillGood
      <3>4. QED
        BY <1>5, <2>2, <3>2, <3>3 DEF Good
    <2>6. QED
      BY <1>6, <2>3, <2>4, <2>5
  <1>7. CASE FundingFails(w, t) \/ UpdateQuota(w, t) \/ UpdateQuotaFails(w, t)
    <2>1. job'[w][t] = Idle
      BY <1>7 DEF TypeOK, FundingFails, UpdateQuota, UpdateQuotaFails, Done
    <2>2. NoBiller(t)' /\ CopyGood(w, t)' /\ BillGood(w, t)'
      BY <1>4, <2>1
         DEF NoBiller, Biller, Idle, BillingStages, CopyGood, BillGood
    <2>3. Held(t)' = Held(t) /\ TokenHeld(t)' = TokenHeld(t)
      BY <1>3, <1>7 DEF Held, TokenHeld, FundingFails, UpdateQuota,
         UpdateQuotaFails, ledger
    <2>4. CASE FundingFails(w, t)
      <3>1. /\ row'[t] = row[t] /\ lost'[t] # {} /\ (Exact(t)' => Exact(t))
            /\ job[w][t].stage = "fund"
        BY <2>4 DEF TypeOK, FundingFails, rows, Exact, ClosedOld
      <3>2. RowGood(t)'
        BY <1>1, <1>2, <1>3, <2>2, <2>3, <3>1 DEF Good, RowGood, BillGood
      <3>3. QED
        BY <1>5, <2>2, <3>2 DEF Good
    <2>5. CASE UpdateQuota(w, t)
      <3>1. /\ row'[t].quota = job[w][t].target /\ lost'[t] = lost[t]
            /\ ClosedOld(t)' <=> ClosedOld(t)
            /\ job[w][t].stage = "record"
        BY <2>5, JobTypes DEF TypeOK, Row, UpdateQuota, ledger, ClosedOld, IsLegacy
      <3>x. Exact(t)' <=> Exact(t)
        BY <3>1 DEF Exact
      <3>2. RowGood(t)'
        BY <1>1, <1>2, <1>3, <2>2, <2>3, <3>1, <3>x DEF Good, RowGood, BillGood
      <3>3. QED
        BY <1>5, <2>2, <3>2 DEF Good
    <2>6. CASE UpdateQuotaFails(w, t)
      <3>1. lost'[t] # {} /\ ~Exact(t)'
        BY <2>6 DEF TypeOK, UpdateQuotaFails, Exact
      <3>2. RowGood(t)'
        BY <1>2, <1>3, <2>2, <2>3, <3>1 DEF Good, RowGood
      <3>3. QED
        BY <1>5, <2>2, <3>2 DEF Good
    <2>7. QED
      BY <1>7, <2>4, <2>5, <2>6
  <1>8. QED
    BY <1>6, <1>7

(* A submission and its settlement. *)
LEMMA SubmissionGood ==
  ASSUME TypeOK, NEW t \in Tasks, Good(t),
         Submit(t) \/ SettleSubmission(t) \/ SettleSubmissionFails(t)
  PROVE  Good(t)'
  <1>1. job' = job
    BY DEF Submit, SettleSubmission, SettleSubmissionFails
  <1>2. \A v \in Workers : Biller(v, t)' <=> Biller(v, t)
    BY <1>1 DEF Biller
  <1>3. NoBiller(t)' <=> NoBiller(t)
    BY <1>2 DEF NoBiller
  <1>4. /\ surplus[t] \in Nat /\ charged[t] \in Int /\ tokenCharged[t] \in Int
        /\ row[t].quota \in Nat
    BY BuiltJobs DEF TypeOK
  <1>5. CASE Submit(t)
    <2>1. PICK held \in Quotas, quota \in Quotas :
            /\ Reserved(held, quota)
            /\ \E new \in Inserted(quota) : row' = [row EXCEPT ![t] = new]
            /\ surplus' = [surplus EXCEPT ![t] = held - quota]
            /\ charged' = [charged EXCEPT ![t] = held]
            /\ tokenCharged' = [tokenCharged EXCEPT ![t] = held]
      BY <1>5 DEF Submit
    <2>2. PICK new \in Inserted(quota) : row' = [row EXCEPT ![t] = new]
      BY <2>1
    <2>3. /\ held \in Nat /\ quota \in Nat /\ row'[t] = new /\ new.quota = quota
          /\ new.status \in NonTerminal \cup Terminal
          /\ new.status = "FAILURE" => quota = 0
      BY <2>1, <2>2, Amounts, TaskPollingAssumption DEF TypeOK, Inserted, NonTerminal
    <2>4. Held(t)' = quota /\ TokenHeld(t)' = quota
      BY <2>1, <2>3 DEF TypeOK, Held, TokenHeld
    <2>5. RowGood(t)'
      BY <2>3, <2>4 DEF RowGood, Refundable, NonTerminal, Terminal
    <2>6. row[t].status = "ABSENT"
      BY <1>5 DEF Submit
    <2>7. \A v \in Workers : ~Biller(v, t) /\ job[v][t].stage \notin {"sweep", "poll"}
      BY <2>6 DEF Good, CopyGood, BillGood, Terminal
    <2>8. \A v \in Workers : CopyGood(v, t)' /\ BillGood(v, t)'
      BY <1>1, <1>2, <2>7 DEF CopyGood, BillGood
    <2>9. QED
      BY <2>5, <2>8 DEF Good
  <1>6. CASE SettleSubmission(t)
    <2>1. /\ row' = row /\ terms' = terms /\ lost' = lost /\ surplus'[t] = 0
          /\ Held(t)' = Held(t) /\ TokenHeld(t)' = TokenHeld(t)
      BY <1>4, <1>6 DEF TypeOK, SettleSubmission, Held, TokenHeld
    <2>2. /\ Exact(t)' <=> Exact(t)
          /\ ClosedOld(t)' <=> ClosedOld(t)
          /\ Refundable(t)' <=> Refundable(t)
          /\ Running(t)' <=> Running(t)
      BY <2>1 DEF Exact, Refundable, Running, ClosedOld
    <2>3. RowGood(t)'
      BY <1>3, <2>1, <2>2 DEF Good, RowGood
    <2>4. \A v \in Workers : CopyGood(v, t)' /\ BillGood(v, t)'
      BY <1>1, <1>2, <2>1, <2>2 DEF Good, CopyGood, BillGood
    <2>5. QED
      BY <2>3, <2>4 DEF Good
  <1>7. CASE SettleSubmissionFails(t)
    <2>1. /\ row' = row /\ terms' = terms /\ surplus'[t] = 0 /\ ~Exact(t)'
          /\ lost'[t] # {}
          /\ Held(t)' \in Int /\ Held(t)' >= Held(t) /\ Held(t) \in Int
          /\ TokenHeld(t)' \in Int /\ TokenHeld(t)' >= TokenHeld(t)
          /\ TokenHeld(t) \in Int
      <3>1. /\ row' = row /\ terms' = terms /\ surplus'[t] = 0
            /\ "settle" \in lost'[t] /\ tokenCharged' = tokenCharged
        BY <1>7 DEF TypeOK, SettleSubmissionFails
      <3>2. charged'[t] = charged[t] \/ charged'[t] = charged[t] - surplus[t]
        BY <1>4, <1>7 DEF TypeOK, SettleSubmissionFails
      <3>3. ~Exact(t)' /\ lost'[t] # {}
        BY <3>1 DEF Exact
      <3>4. QED
        BY <1>4, <3>1, <3>2, <3>3 DEF Held, TokenHeld
    <2>2. /\ Refundable(t)' <=> Refundable(t)
          /\ Running(t)' <=> Running(t)
      BY <2>1 DEF Refundable, Running
    <2>3. RowGood(t)'
      BY <1>3, <1>4, <2>1, <2>2 DEF Good, RowGood
    <2>4. \A v \in Workers : CopyGood(v, t)'
      BY <1>1, <2>1, <2>2 DEF Good, CopyGood
    <2>5. \A v \in Workers : BillGood(v, t)'
      <3> SUFFICES ASSUME NEW v \in Workers, Biller(v, t)
                   PROVE  BillGood(v, t)'
        BY <1>2 DEF BillGood
      <3>1. job[v][t].target \in Nat
        BY JobTypes, BuiltJobs
      <3>2. QED
        BY <1>1, <1>2, <1>4, <2>1, <2>2, <3>1 DEF Good, BillGood
    <2>6. QED
      BY <2>3, <2>4, <2>5 DEF Good
  <1>8. QED
    BY <1>5, <1>6, <1>7

(* The tasks of a pass are listed, or its work is lost. *)
LEMMA PassGood ==
  ASSUME TypeOK, OffGood, NEW w \in Workers, NEW t \in Tasks, Good(t),
         StartPass(w) \/ ListUnfinished(w) \/ Crash(w)
  PROVE  Good(t)'
  <1>1. /\ row' = row /\ terms' = terms /\ surplus' = surplus
        /\ charged' = charged /\ tokenCharged' = tokenCharged
    BY DEF StartPass, ListUnfinished, Crash, rows, context, ledger
  <1>2. /\ Held(t)' = Held(t) /\ TokenHeld(t)' = TokenHeld(t)
        /\ Refundable(t)' <=> Refundable(t)
        /\ Running(t)' <=> Running(t)
    BY <1>1 DEF Held, TokenHeld, Refundable, Running
  <1>3. \A v \in Workers \ {w} : job'[v][t] = job[v][t]
    BY DEF TypeOK, StartPass, ListUnfinished, Crash
  <1>4. CASE StartPass(w) \/ ListUnfinished(w)
    <2>1. lost' = lost
      BY <1>4 DEF StartPass, ListUnfinished, ledger
    <2>2. \/ job'[w][t] = Idle
          \/ /\ Running(t)
             /\ \E s \in {"sweep", "poll"} :
                  job'[w][t] = [stage |-> s, copy |-> row[t], target |-> 0]
      BY <1>4 DEF TypeOK, StartPass, ListUnfinished, Listed, TimedOut, Unfinished
    <2>3. ~Biller(w, t)'
      BY <2>2 DEF Biller, Idle, BillingStages
    <2>4. CopyGood(w, t)' /\ BillGood(w, t)'
      BY <1>1, <2>2, <2>3 DEF CopyGood, BillGood, Running, Idle
    <2>5. ~Biller(w, t)
      BY <1>4 DEF StartPass, ListUnfinished, OffGood, AllIdle, Biller,
         BillingStages
    <2>6. \A v \in Workers : Biller(v, t)' <=> Biller(v, t)
      BY <1>3, <2>3, <2>5 DEF Biller
    <2>7. /\ NoBiller(t)' <=> NoBiller(t)
          /\ ClosedOld(t)' <=> ClosedOld(t)
          /\ Exact(t)' <=> Exact(t)
      BY <1>1, <2>1, <2>6 DEF NoBiller, Exact, ClosedOld
    <2>8. RowGood(t)'
      BY <1>1, <1>2, <2>1, <2>7 DEF Good, RowGood
    <2>9. \A v \in Workers \ {w} : CopyGood(v, t)' /\ BillGood(v, t)'
      BY <1>1, <1>2, <1>3, <2>6, <2>7 DEF Good, CopyGood, BillGood
    <2>10. QED
      BY <2>4, <2>8, <2>9 DEF Good
  <1>5. CASE Crash(w)
    <2>1. /\ job'[w][t] = Idle
          /\ lost'[t] = lost[t] \cup (BillingStages \cap {job[w][t].stage})
      BY <1>5 DEF TypeOK, Crash
    <2>2. ~Biller(w, t)' /\ CopyGood(w, t)' /\ BillGood(w, t)'
      BY <2>1 DEF Biller, Idle, BillingStages, CopyGood, BillGood
    <2>3. \A v \in Workers \ {w} : Biller(v, t)' <=> Biller(v, t)
      BY <1>3 DEF Biller
    <2>4. CASE ~Biller(w, t)
      <3>1. lost'[t] = lost[t]
        BY <2>1, <2>4 DEF Biller
      <3>2. job[w][t].stage \notin BillingStages
        BY <2>4 DEF Biller
      <3>3. QED
        BY <1>1, <1>3, <2>1, <3>1, <3>2, DropCopy
    <2>5. CASE Biller(w, t)
      <3>1. /\ row[t].status \in Terminal
            /\ \A v \in Workers \ {w} : ~Biller(v, t)
        BY <2>5 DEF Good, BillGood
      <3>2. NoBiller(t)' /\ lost'[t] # {} /\ job[w][t].stage \in lost'[t]
        BY <2>1, <2>2, <2>3, <2>5, <3>1 DEF NoBiller, Biller
      <3>3. Exact(t)' => Exact(t) /\ job[w][t].stage = "fund"
        BY <1>1, <2>1, <3>2 DEF Exact, ClosedOld
      <3>4. RowGood(t)'
        BY <1>1, <1>2, <2>5, <3>1, <3>2, <3>3
           DEF Good, RowGood, BillGood, Running, Terminal
      <3>5. \A v \in Workers \ {w} : CopyGood(v, t)' /\ BillGood(v, t)'
        BY <1>1, <1>2, <1>3, <2>3, <3>1 DEF Good, CopyGood, BillGood
      <3>6. QED
        BY <2>2, <3>4, <3>5 DEF Good
    <2>6. QED
      BY <2>4, <2>5
  <1>6. QED
    BY <1>4, <1>5

(* Tasks failed by id because their channel is missing. *)
LEMMA MissingGood ==
  ASSUME TypeOK, NEW w \in Workers, NEW t \in Tasks, Good(t),
         ChannelMissing(w, t)
  PROVE  Good(t)'
  <1>1. /\ job'[w][t] = Idle
        /\ \A v \in Workers \ {w} : job'[v][t] = job[v][t]
    BY DEF TypeOK, ChannelMissing, Done
  <1>2. /\ terms'[t] = terms[t] /\ surplus'[t] = surplus[t]
        /\ charged'[t] = charged[t] /\ tokenCharged'[t] = tokenCharged[t]
        /\ lost'[t] = lost[t]
    BY DEF ChannelMissing, context, ledger
  <1>3. job[w][t].stage = "poll" /\ t \in Unreachable
    BY DEF ChannelMissing
  <1>4. CASE row' = row
    BY <1>1, <1>2, <1>3, <1>4, DropCopy DEF BillingStages
  <1>5. CASE row' = [row EXCEPT ![t] = [@ EXCEPT !.status = "FAILURE", !.full = TRUE]]
    <2>1. /\ row'[t].status = "FAILURE" /\ row'[t].quota = row[t].quota
          /\ row'[t].submitted = row[t].submitted
      BY <1>5 DEF TypeOK, Row
    <2>2. \A v \in Workers : Biller(v, t)' <=> Biller(v, t)
      BY <1>1, <1>3 DEF Biller, Idle, BillingStages
    <2>3. /\ NoBiller(t)' <=> NoBiller(t)
          /\ Held(t)' = Held(t) /\ TokenHeld(t)' = TokenHeld(t)
          /\ Exact(t)' => Exact(t)
      BY <1>2, <2>1, <2>2 DEF NoBiller, Held, TokenHeld, Exact, ClosedOld, IsLegacy
    <2>4. RowGood(t)'
      BY <1>3, <2>1, <2>3 DEF Good, RowGood, Running, Terminal
    <2>5. \A v \in Workers : CopyGood(v, t)'
      BY <1>1, <2>1 DEF Good, CopyGood, Running, Terminal, Idle
    <2>6. \A v \in Workers : BillGood(v, t)'
      <3>1. \A v \in Workers \ {w} : BillGood(v, t)'
        BY <1>1, <1>3, <2>1, <2>2, <2>3 DEF Good, BillGood, Terminal
      <3>2. BillGood(w, t)'
        BY <1>1 DEF BillGood, Biller, Idle, BillingStages
      <3>3. QED
        BY <3>1, <3>2
    <2>7. QED
      BY <2>4, <2>5, <2>6 DEF Good
  <1>6. QED
    BY <1>4, <1>5 DEF ChannelMissing

(* A poll that says nothing of the task. *)
LEMMA SkippedGood ==
  ASSUME TypeOK, NEW w \in Workers, NEW t \in Tasks, Good(t), PollSkipped(w, t)
  PROVE  Good(t)'
  <1>1. /\ job'[w][t] = Idle
        /\ \A v \in Workers \ {w} : job'[v][t] = job[v][t]
    BY DEF TypeOK, PollSkipped, Done
  <1>2. /\ row' = row /\ terms' = terms /\ surplus' = surplus
        /\ charged' = charged /\ tokenCharged' = tokenCharged /\ lost' = lost
    BY DEF PollSkipped, rows, context, ledger
  <1>3. job[w][t].stage \notin BillingStages
    BY DEF PollSkipped, BillingStages
  <1>4. QED
    BY <1>1, <1>2, <1>3, DropCopy

(* The poll's outcomes and the sweep, on the task they are about. *)
LEMMA PollGood ==
  ASSUME TypeOK, NEW w \in Workers, NEW t \in Tasks, Good(t),
         \/ SweepTask(w, t) \/ PollRunning(w, t) \/ PollFinished(w, t)
         \/ PollNotFound(w, t) \/ PollFails(w, t)
  PROVE  Good(t)'
  <1> DEFINE copy == job[w][t].copy
  <1>1. copy \in Row /\ copy.quota \in Quotas
    BY JobTypes
  <1>f. ASSUME NEW c \in Row, Fail(w, t, c), c.quota = copy.quota,
               job[w][t].stage = "poll"
        PROVE  Good(t)'
    <2> DEFINE new == [c EXCEPT !.status = "FAILURE", !.full = TRUE]
    <2>1. new \in Row /\ new.status = "FAILURE" /\ new.quota = copy.quota
      BY <1>f DEF Row, Terminal
    <2>2. FinalQuotas(t, "FAILURE", c.quota) \in SUBSET Quotas
      BY <1>1, <1>f, FinalQuotasTypes
    <2>3. terms[t].kind # "usage" => FinalQuotas(t, "FAILURE", c.quota) = {0}
      BY DEF FinalQuotas
    <2>4. Finish(w, t, new, FinalQuotas(t, "FAILURE", c.quota))
      BY <1>f DEF Fail
    <2>5. QED
      BY <1>f, <2>1, <2>2, <2>3, <2>4, FinishGood DEF Terminal
  <1>3. CASE SweepTask(w, t)
    <2> DEFINE new == [copy EXCEPT !.status = "FAILURE", !.full = TRUE]
               closed == [new EXCEPT !.quota = 0]
    <2>1. new \in Row /\ new.status = "FAILURE" /\ new.quota = copy.quota
      BY <1>1 DEF Row, Terminal
    <2>2. /\ closed \in Row /\ closed.status = "FAILURE" /\ closed.quota = 0
          /\ IsLegacy(new) => IsLegacy(closed)
      BY <2>1, BuiltJobs DEF Row, IsLegacy
    <2>3. {0} \in SUBSET Quotas /\ job[w][t].stage \in {"sweep", "poll"}
      BY <1>3, BuiltJobs DEF SweepTask
    <2>4. CASE IsLegacy(new)
      <3>1. Finish(w, t, closed, {0})
        BY <1>3, <2>4 DEF SweepTask
      <3>2. QED
        BY <2>2, <2>3, <2>4, <3>1, FinishGood DEF Terminal
    <2>5. CASE ~IsLegacy(new)
      <3>1. Finish(w, t, new, {0})
        BY <1>3, <2>5 DEF SweepTask
      <3>2. QED
        BY <2>1, <2>3, <3>1, FinishGood DEF Terminal
    <2>6. QED
      BY <2>4, <2>5
  <1>4. CASE PollRunning(w, t)
    <2>1. PICK s \in Reports \cap NonTerminal, f \in BOOLEAN, n \in SubmitTimes(copy) :
            WriteRow(w, t, [copy EXCEPT !.status = s, !.full = f,
                                        !.submitted = n, !.fails = 0])
      BY <1>4 DEF PollRunning
    <2> DEFINE new == [copy EXCEPT !.status = s, !.full = f,
                                   !.submitted = n, !.fails = 0]
    <2>2. new \in Row /\ new.status = s /\ new.quota = copy.quota
      BY <1>1, TaskPollingAssumption DEF Row, SubmitTimes
    <2>3. s \notin Terminal \cup {"ABSENT"} /\ job[w][t].stage = "poll"
      BY <1>4 DEF NonTerminal, Terminal, PollRunning
    <2>4. QED
      BY <2>1, <2>2, <2>3, WriteRowGood
  <1>5. CASE PollFinished(w, t)
    <2>1. PICK s \in Reports \cap Terminal, f \in BOOLEAN, n \in SubmitTimes(copy) :
            Finish(w, t, [copy EXCEPT !.status = s, !.full = f, !.submitted = n],
                   FinalQuotas(t, s, copy.quota))
      BY <1>5 DEF PollFinished
    <2> DEFINE new == [copy EXCEPT !.status = s, !.full = f, !.submitted = n]
    <2>2. FinalQuotas(t, s, copy.quota) \in SUBSET Quotas
      BY <1>1, FinalQuotasTypes
    <2>3. s = "FAILURE" /\ terms[t].kind # "usage" =>
            FinalQuotas(t, s, copy.quota) = {0}
      BY DEF FinalQuotas
    <2>4. new \in Row /\ new.status = s /\ new.quota = copy.quota
      BY <1>1, <2>1, TaskPollingAssumption DEF Row, SubmitTimes, Terminal
    <2>5. job[w][t].stage = "poll"
      BY <1>5 DEF PollFinished
    <2>6. QED
      BY <2>1, <2>2, <2>3, <2>4, <2>5, FinishGood
  <1>6. CASE PollNotFound(w, t)
    BY <1>1, <1>6, <1>f DEF PollNotFound
  <1>7. CASE PollFails(w, t)
    <2> DEFINE new == [copy EXCEPT !.fails = IF MaxPollFailures = 0 THEN 0 ELSE @ + 1]
    <2>1. new \in Row /\ new.quota = copy.quota /\ new.status = copy.status
      BY <1>1 DEF Row
    <2>2. Fail(w, t, new) \/ WriteRow(w, t, new)
      BY <1>7 DEF PollFails
    <2>3. job[w][t].stage = "poll"
      BY <1>7 DEF PollFails
    <2>4. copy.status \notin Terminal \cup {"ABSENT"}
      BY <2>3 DEF Good, CopyGood
    <2>5. QED
      BY <2>1, <2>2, <2>3, <2>4, <1>f, WriteRowGood
  <1>8. QED
    BY <1>3, <1>4, <1>5, <1>6, <1>7

(* A step about one task leaves the others alone. *)
TaskStep(w, t) ==
  \/ SweepTask(w, t) \/ ChannelMissing(w, t) \/ PollSkipped(w, t)
  \/ PollRunning(w, t) \/ PollFinished(w, t)
  \/ PollNotFound(w, t) \/ PollFails(w, t)
  \/ AdjustFunding(w, t) \/ FundingFails(w, t)
  \/ AdjustToken(w, t) \/ TokenFails(w, t)
  \/ UpdateQuota(w, t) \/ UpdateQuotaFails(w, t)

LEMMA TaskStepShape ==
  ASSUME TypeOK, NEW w \in Workers, NEW t \in Tasks, TaskStep(w, t)
  PROVE  /\ \E r : row' = [row EXCEPT ![t] = r]
         /\ \E j : job' = [job EXCEPT ![w][t] = j]
         /\ \E x : charged' = [charged EXCEPT ![t] = x]
         /\ \E x : tokenCharged' = [tokenCharged EXCEPT ![t] = x]
         /\ \E x : lost' = [lost EXCEPT ![t] = x]
         /\ UNCHANGED <<terms, surplus, pass, fetch>>
         /\ job[w][t].stage # "idle"
  <1>0. /\ row = [row EXCEPT ![t] = row[t]]
        /\ charged = [charged EXCEPT ![t] = charged[t]]
        /\ tokenCharged = [tokenCharged EXCEPT ![t] = tokenCharged[t]]
        /\ lost = [lost EXCEPT ![t] = lost[t]]
    BY DEF TypeOK
  <1>1. ASSUME NEW new, WriteRow(w, t, new), job[w][t].stage # "idle"
        PROVE  /\ \E r : row' = [row EXCEPT ![t] = r]
               /\ \E j : job' = [job EXCEPT ![w][t] = j]
               /\ UNCHANGED <<terms, surplus, pass, fetch, charged,
                              tokenCharged, lost>>
    BY <1>0, <1>1 DEF WriteRow, Done, context, ledger
  <1>2. ASSUME NEW new, NEW targets, Finish(w, t, new, targets),
               job[w][t].stage # "idle"
        PROVE  /\ \E r : row' = [row EXCEPT ![t] = r]
               /\ \E j : job' = [job EXCEPT ![w][t] = j]
               /\ UNCHANGED <<terms, surplus, pass, fetch, charged,
                              tokenCharged, lost>>
    BY <1>0, <1>2 DEF Finish, Done, context, ledger
  <1>3. CASE \/ SweepTask(w, t) \/ PollRunning(w, t) \/ PollFinished(w, t)
             \/ PollNotFound(w, t) \/ PollFails(w, t)
    <2>1. /\ job[w][t].stage # "idle"
          /\ \/ \E new : WriteRow(w, t, new)
             \/ \E new, targets : Finish(w, t, new, targets)
      BY <1>3 DEF SweepTask, PollRunning, PollFinished, PollNotFound, PollFails,
         Fail
    <2>2. QED
      BY <1>0, <1>1, <1>2, <2>1
  <1>4. CASE ChannelMissing(w, t)
    BY <1>0, <1>4 DEF ChannelMissing, Done, context, ledger
  <1>s. CASE PollSkipped(w, t)
    BY <1>0, <1>s DEF PollSkipped, Done, rows, context, ledger
  <1>5. CASE \/ AdjustFunding(w, t) \/ FundingFails(w, t) \/ AdjustToken(w, t)
             \/ TokenFails(w, t) \/ UpdateQuota(w, t) \/ UpdateQuotaFails(w, t)
    <2>1. job[w][t].stage # "idle" /\ UNCHANGED <<terms, surplus, pass, fetch>>
      BY <1>5 DEF AdjustFunding, FundingFails, AdjustToken, TokenFails,
         UpdateQuota, UpdateQuotaFails, rows, context
    <2>2. \E j : job' = [job EXCEPT ![w][t] = j]
      BY <1>5 DEF AdjustFunding, FundingFails, AdjustToken, TokenFails,
         UpdateQuota, UpdateQuotaFails, NextStage, Done
    <2>3. /\ \E r : row' = [row EXCEPT ![t] = r]
          /\ \E x : charged' = [charged EXCEPT ![t] = x]
          /\ \E x : tokenCharged' = [tokenCharged EXCEPT ![t] = x]
          /\ \E x : lost' = [lost EXCEPT ![t] = x]
      BY <1>0, <1>5 DEF AdjustFunding, FundingFails, AdjustToken, TokenFails,
         UpdateQuota, UpdateQuotaFails, rows, ledger
    <2>4. QED
      BY <2>1, <2>2, <2>3
  <1>6. QED
    BY <1>3, <1>4, <1>s, <1>5 DEF TaskStep

---------------------------------------------------------------------------
(* The inductive invariant *)

Invariant == TypeOK /\ AllGood /\ OffGood /\ FetchGood

LEMMA InvariantInit == Init => Invariant
  <1> SUFFICES ASSUME Init PROVE Invariant
    OBVIOUS
  <1>1. TypeOK
    BY TypeInit
  <1>2. ASSUME NEW t \in Tasks PROVE Good(t)
    <2>1. /\ row[t] = Absent /\ charged[t] = 0 /\ tokenCharged[t] = 0
          /\ surplus[t] = 0 /\ \A w \in Workers : job[w][t] = Idle
      BY DEF Init
    <2>2. RowGood(t)
      BY <2>1 DEF RowGood, Held, TokenHeld, Absent, Running, Refundable
    <2>3. \A w \in Workers : CopyGood(w, t) /\ BillGood(w, t)
      BY <2>1 DEF CopyGood, BillGood, Biller, Idle, BillingStages
    <2>4. QED
      BY <2>2, <2>3 DEF Good
  <1>3. OffGood /\ FetchGood
    BY DEF Init, OffGood, FetchGood, AllIdle, Idle, Unstarted
  <1>4. QED
    BY <1>1, <1>2, <1>3 DEF Invariant, AllGood

(* Steps about one task. *)
LEMMA TaskStepGood ==
  ASSUME TypeOK, AllGood, OffGood, FetchGood,
         NEW w \in Workers, NEW t \in Tasks, TaskStep(w, t)
  PROVE  AllGood' /\ OffGood' /\ FetchGood'
  <1>1. ASSUME NEW u \in Tasks \ Realtime PROVE Good(u)'
    <2>0. Good(u)
      BY DEF AllGood
    <2>1. CASE u = t
      BY <2>0, <2>1, PollGood, BillingGood, MissingGood, SkippedGood DEF TaskStep
    <2>2. CASE u # t
      <3>1. /\ row'[u] = row[u] /\ terms'[u] = terms[u]
            /\ surplus'[u] = surplus[u] /\ charged'[u] = charged[u]
            /\ tokenCharged'[u] = tokenCharged[u] /\ lost'[u] = lost[u]
        BY <2>2, TaskStepShape DEF TypeOK
      <3>2. \A v \in Workers : job'[v][u] = job[v][u]
        BY <2>2, TaskStepShape DEF TypeOK
      <3>3. QED
        BY <2>0, <3>1, <3>2, Frame
    <2>3. QED
      BY <2>1, <2>2
  <1>2. OffGood'
    <2>1. pass' = pass /\ pass[w] # "off"
      BY TaskStepShape DEF OffGood, AllIdle
    <2>2. \A v \in Workers \ {w}, u \in Tasks : job'[v][u] = job[v][u]
      BY TaskStepShape DEF TypeOK
    <2>3. QED
      BY <2>1, <2>2 DEF OffGood, AllIdle
  <1>3. FetchGood'
    BY TaskStepShape DEF FetchGood
  <1>4. QED
    BY <1>1, <1>2, <1>3 DEF AllGood

LEMMA SubmissionStepGood ==
  ASSUME TypeOK, AllGood, OffGood, FetchGood, NEW t \in Tasks,
         \/ Submit(t) \/ SettleSubmission(t) \/ SettleSubmissionFails(t)
  PROVE  AllGood' /\ OffGood' /\ FetchGood'
  <1>0. job' = job /\ pass' = pass /\ fetch' = fetch
    BY DEF Submit, SettleSubmission, SettleSubmissionFails
  <1>1. ASSUME NEW u \in Tasks \ Realtime PROVE Good(u)'
    <2>0. Good(u)
      BY DEF AllGood
    <2>1. CASE u = t
      BY <2>0, <2>1, SubmissionGood
    <2>2. CASE u # t
      <3>1. /\ row'[u] = row[u] /\ terms'[u] = terms[u]
            /\ surplus'[u] = surplus[u] /\ charged'[u] = charged[u]
            /\ tokenCharged'[u] = tokenCharged[u] /\ lost'[u] = lost[u]
        BY <2>2 DEF TypeOK, Submit, SettleSubmission, SettleSubmissionFails,
           ledger
      <3>2. QED
        BY <1>0, <2>0, <3>1, Frame
    <2>3. QED
      BY <2>1, <2>2
  <1>2. QED
    BY <1>0, <1>1 DEF AllGood, OffGood, FetchGood, AllIdle

LEMMA PassStepGood ==
  ASSUME TypeOK, AllGood, OffGood, FetchGood, NEW w \in Workers,
         StartPass(w) \/ ListUnfinished(w) \/ EndPass(w) \/ Crash(w)
  PROVE  AllGood' /\ OffGood' /\ FetchGood'
  <1>1. ASSUME NEW u \in Tasks \ Realtime PROVE Good(u)'
    <2>0. Good(u)
      BY DEF AllGood
    <2>1. CASE StartPass(w) \/ ListUnfinished(w) \/ Crash(w)
      BY <2>0, <2>1, PassGood
    <2>2. CASE EndPass(w)
      BY <2>0, <2>2, Frame DEF EndPass, rows, context, ledger
    <2>3. QED
      BY <2>1, <2>2
  <1>2. OffGood'
    <2>1. CASE StartPass(w) \/ ListUnfinished(w)
      <3>1. /\ pass'[w] # "off"
            /\ \A v \in Workers \ {w} : pass'[v] = pass[v] /\ job'[v] = job[v]
        BY <2>1 DEF TypeOK, StartPass, ListUnfinished
      <3>2. QED
        BY <3>1 DEF OffGood, AllIdle
    <2>2. CASE EndPass(w)
      BY <2>2 DEF TypeOK, OffGood, AllIdle, EndPass
    <2>3. CASE Crash(w)
      BY <2>3 DEF TypeOK, OffGood, AllIdle, Crash, Idle
    <2>4. QED
      BY <2>1, <2>2, <2>3
  <1>3. FetchGood'
    BY DEF FetchGood, StartPass, ListUnfinished, EndPass, Crash
  <1>4. QED
    BY <1>1, <1>2, <1>3 DEF AllGood

(* A client's GET writes no task but a Gemini or Vertex one. *)
LEMMA FetchStepGood ==
  ASSUME TypeOK, AllGood, OffGood, FetchGood, NEW c \in Fetches,
         (\E t \in Tasks : FetchRead(c, t)) \/ FetchWrite(c)
  PROVE  AllGood' /\ OffGood' /\ FetchGood'
  <1>0. /\ job' = job /\ pass' = pass /\ terms' = terms /\ surplus' = surplus
        /\ charged' = charged /\ tokenCharged' = tokenCharged /\ lost' = lost
    BY DEF FetchRead, FetchWrite, rows, context, ledger
  <1>1. \A u \in Tasks \ Realtime : row'[u] = row[u]
    BY DEF TypeOK, FetchGood, FetchRead, FetchWrite, rows
  <1>2. AllGood'
    BY <1>0, <1>1, Frame DEF AllGood
  <1>3. OffGood'
    BY <1>0 DEF OffGood, AllIdle
  <1>4. FetchGood'
    <2>1. \/ fetch' = [fetch EXCEPT ![c] = Answered]
          \/ \E t \in Realtime : fetch' = [fetch EXCEPT ![c] = Waiting(t, row[t])]
      BY DEF FetchRead, FetchWrite
    <2>2. \A d \in Fetches \ {c} : fetch'[d] = fetch[d]
      BY <2>1 DEF TypeOK
    <2>3. fetch'[c] = Answered \/ \E t \in Realtime : fetch'[c] = Waiting(t, row[t])
      BY <2>1 DEF TypeOK
    <2>4. fetch'[c].state = "waiting" => fetch'[c].task \in Realtime
      <3>1. CASE fetch'[c] = Answered
        <4>1. Answered.state = "answered"
          BY DEF Answered
        <4>2. QED
          BY <3>1, <4>1
      <3>2. ASSUME NEW t \in Realtime, fetch'[c] = Waiting(t, row[t])
            PROVE  fetch'[c].task \in Realtime
        <4>1. Waiting(t, row[t]).task = t
          BY DEF Waiting
        <4>2. QED
          BY <3>2, <4>1
      <3>3. QED
        BY <2>3, <3>1, <3>2
    <2>5. QED
      BY <2>2, <2>4 DEF FetchGood
  <1>5. QED
    BY <1>2, <1>3, <1>4

LEMMA InvariantStep == Invariant /\ [Next]_vars => Invariant'
  <1> SUFFICES ASSUME Invariant, [Next]_vars PROVE Invariant'
    OBVIOUS
  <1> USE DEF Invariant
  <1>0. TypeOK'
    BY TypeStep
  <1>1. ASSUME NEW t \in Tasks,
               Submit(t) \/ SettleSubmission(t) \/ SettleSubmissionFails(t)
        PROVE  AllGood' /\ OffGood' /\ FetchGood'
    BY <1>1, SubmissionStepGood
  <1>k. CASE Tick
    <2>1. /\ UNCHANGED <<row, terms, surplus, pass, job, fetch, charged,
                         tokenCharged, lost>>
      BY <1>k DEF Tick, ledger
    <2>2. \A t \in Tasks \ Realtime : Good(t)'
      BY <2>1, Frame DEF AllGood
    <2>3. OffGood' /\ FetchGood'
      BY <2>1 DEF OffGood, FetchGood, AllIdle
    <2>4. QED
      BY <2>2, <2>3, <1>0 DEF AllGood
  <1>2. ASSUME NEW w \in Workers, PassStep(w) \/ Crash(w)
        PROVE  AllGood' /\ OffGood' /\ FetchGood'
    BY <1>2, PassStepGood, TaskStepGood DEF PassStep, TaskStep
  <1>3. ASSUME NEW c \in Fetches,
               (\E t \in Tasks : FetchRead(c, t)) \/ FetchWrite(c)
        PROVE  AllGood' /\ OffGood' /\ FetchGood'
    BY <1>3, FetchStepGood
  <1>4. CASE UNCHANGED vars
    <2>1. \A t \in Tasks \ Realtime : Good(t)'
      BY <1>4, Frame DEF vars, AllGood
    <2>2. pass' = pass /\ job' = job /\ fetch' = fetch
      BY <1>4 DEF vars
    <2>3. OffGood' /\ FetchGood'
      BY <2>2 DEF OffGood, FetchGood, AllIdle
    <2>4. QED
      BY <2>1, <2>3, <1>0 DEF AllGood
  <1>5. QED
    BY <1>0, <1>1, <1>k, <1>2, <1>3, <1>4 DEF Next, AllDone

LEMMA InvariantHolds == Spec => []Invariant
  BY InvariantInit, InvariantStep, PTL DEF Spec

---------------------------------------------------------------------------
(* Theorems *)

(* Rows, jobs and amounts keep their types; a submission never settles more *)
(* than it held (RelayTaskSubmit reserves before the insert).               *)
THEOREM PollingTypes == Spec => []TypeOK
  BY InvariantHolds, PTL DEF Invariant

(* The quota column of every settled task is what the task has taken from   *)
(* its funding source and its token, however many passes overlap            *)
(* (UpdateWithStatus, RefundTaskQuota, RecalculateTaskQuota).               *)
THEOREM QuotaIsCharge == Spec => []ChargedIsQuota
  <1>1. Invariant => ChargedIsQuota
    <2> SUFFICES ASSUME Invariant, NEW t \in Tasks \ Realtime,
                        Quiet(t), ~ClosedOld(t), lost[t] \subseteq {"fund"}
                 PROVE  charged[t] = row[t].quota /\ tokenCharged[t] = row[t].quota
      BY DEF ChargedIsQuota
    <2>1. NoBiller(t) /\ Exact(t) /\ surplus[t] = 0
      BY DEF Quiet, NoBiller, Biller, Exact
    <2>2. Held(t) = row[t].quota /\ TokenHeld(t) = row[t].quota
      BY <2>1 DEF Invariant, AllGood, Good, RowGood
    <2>3. QED
      BY <2>1, <2>2 DEF Invariant, TypeOK, Held, TokenHeld
  <1>2. QED
    BY <1>1, InvariantHolds, PTL

(* A failed task of a fixed price or a usage expression has given back all  *)
(* it took once its billing is over (failTaskFromPoll, sweepTimedOutTasks). *)
THEOREM FailureRefunds == Spec => []FailedTaskRefunded
  <1>1. Invariant => FailedTaskRefunded
    <2> SUFFICES ASSUME Invariant,
                        NEW t \in Tasks \ (Realtime \cup Unreachable),
                        row[t].status = "FAILURE", terms[t].kind # "usage",
                        Quiet(t), ~ClosedOld(t), lost[t] = {}
                 PROVE  charged[t] = 0 /\ tokenCharged[t] = 0
      BY DEF FailedTaskRefunded
    <2>1. NoBiller(t) /\ Exact(t) /\ surplus[t] = 0 /\ Refundable(t)
      BY DEF Quiet, NoBiller, Biller, Exact, Refundable
    <2>2. Held(t) = 0 /\ TokenHeld(t) = 0
      BY <2>1 DEF Invariant, AllGood, Good, RowGood
    <2>3. QED
      BY <2>1, <2>2 DEF Invariant, TypeOK, Held, TokenHeld
  <1>2. QED
    BY <1>1, InvariantHolds, PTL

(* No fault, crash or overlap makes a task give back more than it took. *)
THEOREM NeverOverRefunded == Spec => []NoOverRefund
  <1>1. Invariant => NoOverRefund
    <2> SUFFICES ASSUME Invariant, NEW t \in Tasks \ Realtime
                 PROVE  charged[t] >= 0 /\ tokenCharged[t] >= 0
      BY DEF NoOverRefund
    <2>1. charged[t] - surplus[t] >= 0 /\ tokenCharged[t] - surplus[t] >= 0
      BY DEF Invariant, AllGood, Good, RowGood, Held, TokenHeld
    <2>2. surplus[t] \in Nat /\ charged[t] \in Int /\ tokenCharged[t] \in Int
      BY DEF Invariant, TypeOK
    <2>3. QED
      BY <2>1, <2>2
  <1>2. QED
    BY <1>1, InvariantHolds, PTL

(* A finished row keeps its status: every conditional write starts from the *)
(* unfinished status its pass has read.                                     *)
LEMMA FinishedStep ==
  ASSUME Invariant, [Next]_vars, NEW t \in Tasks \ (Realtime \cup Unreachable),
         row[t].status \in Terminal
  PROVE  row'[t].status = row[t].status
  <1> USE DEF Invariant
  <1>1. ASSUME NEW u \in Tasks,
               Submit(u) \/ SettleSubmission(u) \/ SettleSubmissionFails(u)
        PROVE  row'[t] = row[t]
    BY <1>1 DEF TypeOK, Submit, SettleSubmission, SettleSubmissionFails,
       Terminal
  <1>k. CASE Tick
    BY <1>k DEF Tick
  <1>2. ASSUME NEW w \in Workers, NEW u \in Tasks, TaskStep(w, u)
        PROVE  row'[t].status = row[t].status
    <2>1. CASE u # t
      BY <1>2, <2>1, TaskStepShape DEF TypeOK
    <2>2. CASE u = t
      <3>1. job[w][t].stage \in {"sweep", "poll"} =>
              ~Wins(t, job[w][t].copy.status)
        BY DEF AllGood, Good, CopyGood, Wins
      <3>2. ASSUME NEW new, WriteRow(w, t, new),
                   job[w][t].stage \in {"sweep", "poll"}
            PROVE  row'[t] = row[t]
        BY <3>1, <3>2 DEF WriteRow
      <3>3. ASSUME NEW new, NEW targets, Finish(w, t, new, targets),
                   job[w][t].stage \in {"sweep", "poll"}
            PROVE  row'[t] = row[t]
        BY <3>1, <3>3 DEF Finish
      <3>4. CASE \/ SweepTask(w, t) \/ PollRunning(w, t) \/ PollFinished(w, t)
                 \/ PollNotFound(w, t) \/ PollFails(w, t)
        <4>1. /\ job[w][t].stage \in {"sweep", "poll"}
              /\ \/ \E new : WriteRow(w, t, new)
                 \/ \E new, targets : Finish(w, t, new, targets)
          BY <3>4 DEF SweepTask, PollRunning, PollFinished, PollNotFound,
             PollFails, Fail
        <4>2. QED
          BY <3>2, <3>3, <4>1
      <3>5. ~ChannelMissing(w, t)
        BY DEF ChannelMissing
      <3>6. CASE \/ AdjustFunding(w, t) \/ FundingFails(w, t) \/ AdjustToken(w, t)
                 \/ TokenFails(w, t) \/ UpdateQuota(w, t) \/ UpdateQuotaFails(w, t)
        <4>1. row' = row \/ row' = [row EXCEPT ![t].quota = job[w][t].target]
          BY <3>6 DEF rows, AdjustFunding, FundingFails, AdjustToken,
             TokenFails, UpdateQuota, UpdateQuotaFails
        <4>2. QED
          BY <4>1, JobTypes DEF TypeOK, Row
      <3>7. QED
        BY <1>2, <2>2, <3>4, <3>5, <3>6 DEF TaskStep, PollSkipped, rows
    <2>3. QED
      BY <2>1, <2>2
  <1>3. ASSUME NEW w \in Workers,
               StartPass(w) \/ ListUnfinished(w) \/ EndPass(w) \/ Crash(w)
        PROVE  row' = row
    BY <1>3 DEF StartPass, ListUnfinished, EndPass, Crash, rows
  <1>4. ASSUME NEW c \in Fetches,
               (\E u \in Tasks : FetchRead(c, u)) \/ FetchWrite(c)
        PROVE  row'[t] = row[t]
    BY <1>4 DEF TypeOK, FetchGood, FetchRead, FetchWrite, rows
  <1>5. CASE UNCHANGED vars
    BY <1>5 DEF vars
  <1>6. QED
    BY <1>1, <1>k, <1>2, <1>3, <1>4, <1>5 DEF Next, AllDone, PassStep, TaskStep

(* A finished task never changes its status (UpdateWithStatus), whatever    *)
(* the passes, the sweep and their faults do.                               *)
THEOREM FinishedTaskStays == Spec => FinishedStays
  <1>1. Invariant /\ [Next]_vars =>
          [\A t \in Tasks \ (Realtime \cup Unreachable) :
             row[t].status \in Terminal => row'[t].status = row[t].status]_vars
    BY FinishedStep
  <1>2. QED
    BY <1>1, InvariantHolds, PTL DEF Spec, FinishedStays
============================================================================
