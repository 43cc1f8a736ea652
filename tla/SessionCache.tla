---------------------------- MODULE SessionCache ----------------------------
(***************************************************************************)
(* One row of user_sessions and its snapshot in Redis, under concurrent    *)
(* validations, revocations, refresh rotations and security-version        *)
(* advances by the processes of a cluster (model/user_session.go).         *)
(*                                                                         *)
(* Every database statement or transaction and every Redis script is one   *)
(* step.  Time is relative: cache.ttl is what is left of the entry, and    *)
(* op[p].age the ticks since p captured its cacheDeadline, so the deadline *)
(* has passed once age = TTL.  Sessions that reach ExpiresAt are left      *)
(* out: every reader compares it itself.                                   *)
(***************************************************************************)
EXTENDS Integers

CONSTANTS
    Procs,          \* goroutines that work on the session
    TTL,            \* userCacheTTLSeconds in ticks
    MaxStall,       \* an operation that takes longer is slow
    MaxVersion,     \* bound: the version the session can get to
    MaxFaults       \* bound: Redis commands that fail

ASSUME CacheAssumption ==
    /\ TTL \in Nat \ {0} /\ MaxStall \in Nat /\ 2 * MaxStall < TTL
    /\ MaxVersion \in Nat \ {0} /\ MaxFaults \in Nat

VARIABLES
    row,      \* the row: status and version
    cache,    \* the hash auth:session:<digest> in Redis
    op,       \* op[p]: the operation p is in
    last,     \* history: the validation that this step accepted, if any
    since,    \* history: since[v]: ticks since version v stopped being good
    told,     \* history: the highest version an advance has returned
    slow,     \* history: some operation took longer than MaxStall
    faults    \* Redis commands that have failed

vars == <<row, cache, op, last, since, told, slow, faults>>
history == <<since, told, slow>>

Versions == 1..MaxVersion
Absent == [status |-> "absent", ver |-> 0, ttl |-> 0]
Denies == {"revoking", "revoked"}

\* late: the session was revoked when the operation began; floor: the
\* version that had been returned by then.
Idle == [kind |-> "none", at |-> "idle", ver |-> 1, age |-> 0,
         late |-> FALSE, floor |-> 1]

\* source: what the answer rests on; lag: for how long its version had not
\* been good; late, old: the caller could have known better.
Nothing == [source |-> "none", lag |-> 0, late |-> FALSE, old |-> FALSE]

Init ==
    /\ row = [status |-> "active", ver |-> 1]
    /\ cache = Absent
    /\ op = [p \in Procs |-> Idle]
    /\ last = Nothing
    /\ since = [v \in Versions |-> 0]
    /\ told = 1
    /\ slow = FALSE
    /\ faults = 0

-----------------------------------------------------------------------------
(* writeUserSessionCache. *)

\* A mutant of Refused: the version is not compared.
RefusedByStatus(status, ver) == status = "active" /\ cache.status \in Denies

\* The script leaves the entry alone.
Refused(status, ver) ==
    \/ status = "active" /\ cache.status \in Denies
    \/ cache.ver > ver

\* A mutant of Lifetime: every entry gets the whole lifetime.
LifetimeWhole(age) == TTL

\* An active snapshot lives until the deadline captured before its read.
Lifetime(age) == TTL - age

\* The deadline has passed.
Stale(p) == op[p].age = TTL

Entry(status, ver, ttl) == [status |-> status, ver |-> ver, ttl |-> ttl]

\* The entry after a deny state has been written.
Denied(status, ver) ==
    IF Refused(status, ver) THEN cache ELSE Entry(status, ver, TTL)

\* A mutant of Filled: an entry may be written with no lifetime left.
FilledLate(ver, age) == Entry("active", ver, Lifetime(age))

\* The entry after an active snapshot has been written: PEXPIREAT in the past
\* deletes it.
Filled(ver, age) ==
    IF age = TTL THEN Absent ELSE Entry("active", ver, Lifetime(age))

\* A Redis command fails, before or after the server has run it.
RedisFails == faults < MaxFaults /\ faults' = faults + 1

Move(p, at) ==
    /\ op' = [op EXCEPT ![p].at = at]
    /\ last' = Nothing

Reject(p) ==
    /\ op' = [op EXCEPT ![p] = Idle]
    /\ last' = Nothing

\* p ends well with the snapshot it holds.
Accept(p, source) ==
    /\ op' = [op EXCEPT ![p] = Idle]
    /\ last' = [source |-> source, lag |-> since[op[p].ver],
                late |-> op[p].late, old |-> op[p].ver < op[p].floor]

\* The same for an operation that may be an advance: it returns its version.
AcceptSnapshot(p, source) ==
    /\ Accept(p, source)
    /\ told' = IF op[p].kind = "advance" /\ op[p].ver > told
                 THEN op[p].ver ELSE told
    /\ UNCHANGED <<since, slow>>

Begin(p, kind, at, ver) ==
    /\ op[p] = Idle
    /\ op' = [op EXCEPT ![p] = [kind |-> kind, at |-> at, ver |-> ver,
                                age |-> 0, late |-> row.status # "active",
                                floor |-> told]]
    /\ last' = Nothing

-----------------------------------------------------------------------------
(* GetUserSessionCached. *)

\* A cached entry answers by itself: any goroutine may ask it in one step.
ReadHit ==
    /\ cache # Absent
    /\ last' = IF cache.status \in Denies THEN Nothing
               ELSE [source |-> "cache", lag |-> since[cache.ver],
                     late |-> row.status # "active", old |-> cache.ver < told]
    /\ UNCHANGED <<row, cache, op, history, faults>>

\* A miss, or an error, asks the database.
ReadMiss(p) ==
    /\ Begin(p, "read", "load", 1)
    /\ IF cache = Absent THEN UNCHANGED faults ELSE RedisFails
    /\ UNCHANGED <<row, cache, history>>

Load(p) ==
    /\ op[p].at = "load"
    /\ op' = [op EXCEPT ![p].ver = row.ver,
                        ![p].at = IF row.status = "active" THEN "fill" ELSE "bury"]
    /\ last' = Nothing
    /\ UNCHANGED <<row, cache, history, faults>>

\* A revoked row is published as a tombstone, whatever comes of it.
Bury(p) ==
    /\ op[p].at = "bury"
    /\ \/ cache' = Denied("revoked", op[p].ver) /\ UNCHANGED faults
       \/ RedisFails /\ UNCHANGED cache
    /\ Reject(p)
    /\ UNCHANGED <<row, history>>

\* writeUserSessionCache looks at the deadline of an active snapshot.
Fill(p) ==
    /\ op[p].at = "fill"
    /\ Move(p, IF Stale(p) THEN "confirm" ELSE "eval")
    /\ UNCHANGED <<row, cache, history, faults>>

\* The script runs.
Eval(p) ==
    /\ op[p].at = "eval"
    /\ IF Refused("active", op[p].ver)
         THEN Reject(p) /\ UNCHANGED cache
         ELSE Move(p, "filled") /\ cache' = Filled(op[p].ver, op[p].age)
    /\ UNCHANGED <<row, history, faults>>

\* Redis fails: an advance fails too, the others go on without the cache.
EvalFails(p) ==
    /\ op[p].at = "eval"
    /\ RedisFails
    /\ \/ UNCHANGED cache
       \/ /\ ~Refused("active", op[p].ver)
          /\ cache' = Filled(op[p].ver, op[p].age)
    /\ IF op[p].kind = "advance" THEN Reject(p) ELSE Accept(p, "unsaved")
    /\ UNCHANGED <<row, history>>

\* The script has run: was it before the deadline?
Check(p) ==
    /\ op[p].at = "filled"
    /\ IF Stale(p) THEN Move(p, "confirm") /\ UNCHANGED history
       ELSE AcceptSnapshot(p, "database")
    /\ UNCHANGED <<row, cache, faults>>

\* A mutant of Confirm: a snapshot that came too late is believed.
ConfirmBlindly(p) ==
    /\ op[p].at = "confirm"
    /\ AcceptSnapshot(p, "database")
    /\ UNCHANGED <<row, cache, faults>>

\* confirmUserSessionActiveSnapshot.
Confirm(p) ==
    /\ op[p].at = "confirm"
    /\ IF row = [status |-> "active", ver |-> op[p].ver]
         THEN AcceptSnapshot(p, "database")
         ELSE Reject(p) /\ UNCHANGED history
    /\ UNCHANGED <<row, cache, faults>>

-----------------------------------------------------------------------------
(* RotateUserSessionRefresh and AdvanceUserSessionAuthVersion. *)

\* The deadline, then the row, are read.
RotateRead(p) ==
    /\ row.status = "active"
    /\ Begin(p, "rotate", "swap", row.ver)
    /\ UNCHANGED <<row, cache, history, faults>>

\* The compare-and-swap of refresh_hash: it asks for an active row, not for
\* the version that was read.
RotateSwap(p) ==
    /\ op[p].at = "swap"
    /\ IF row.status = "active" THEN Move(p, "fill") ELSE Reject(p)
    /\ UNCHANGED <<row, cache, history, faults>>

AdvanceBegin(p) ==
    /\ Begin(p, "advance", "advance", 1)
    /\ UNCHANGED <<row, cache, history, faults>>

\* The transaction: the version goes up.
Advance(p) ==
    /\ op[p].at = "advance"
    /\ row.status = "active" /\ row.ver < MaxVersion
    /\ row' = [row EXCEPT !.ver = @ + 1]
    /\ op' = [op EXCEPT ![p].at = "fill", ![p].ver = row.ver + 1]
    /\ last' = Nothing
    /\ UNCHANGED <<cache, history, faults>>

AdvanceDenied(p) ==
    /\ op[p].at = "advance"
    /\ row.status # "active" \/ row.ver = MaxVersion
    /\ Reject(p)
    /\ UNCHANGED <<row, cache, history, faults>>

-----------------------------------------------------------------------------
(* RevokeUserSession, and with it RevokeUserSessionByRefreshHash, the bulk  *)
(* revocations and the reuse path of a rotation, which take the same steps. *)

RevokeRead(p) ==
    /\ row.status = "active"
    /\ Begin(p, "revoke", "fence", row.ver)
    /\ UNCHANGED <<row, cache, history, faults>>

\* A mutant of Fence: the row is revoked without a fence.
FenceSkipped(p) ==
    /\ op[p].at = "fence"
    /\ Move(p, "commit")
    /\ UNCHANGED <<row, cache, history, faults>>

\* The deny fence; without it the revocation is not tried.
Fence(p) ==
    /\ op[p].at = "fence"
    /\ \/ /\ cache' = Denied("revoking", op[p].ver)
          /\ IF Refused("revoking", op[p].ver) THEN Reject(p) ELSE Move(p, "commit")
          /\ UNCHANGED faults
       \/ RedisFails /\ Reject(p) /\ cache' \in {cache, Denied("revoking", op[p].ver)}
    /\ UNCHANGED <<row, history>>

\* The transaction revokes the row unless somebody else has.
Commit(p) ==
    /\ op[p].at = "commit"
    /\ IF row.status = "active"
         THEN row' = [row EXCEPT !.status = "revoked"] /\ Move(p, "final")
         ELSE Reject(p) /\ UNCHANGED row
    /\ UNCHANGED <<cache, history, faults>>

\* The tombstone; a failure is only logged.
Final(p) ==
    /\ op[p].at = "final"
    /\ \/ cache' = Denied("revoked", op[p].ver) /\ UNCHANGED faults
       \/ RedisFails /\ UNCHANGED cache
    /\ Reject(p)
    /\ UNCHANGED <<row, history>>

\* The process ends in the middle, or a database statement fails.
Abort(p) ==
    /\ op[p] # Idle
    /\ Reject(p)
    /\ UNCHANGED <<row, cache, history, faults>>

-----------------------------------------------------------------------------
\* The version has been committed and is not good any more.
Over(v) == v < row.ver \/ (v = row.ver /\ row.status = "revoked")

Older(n) == IF n < TTL THEN n + 1 ELSE n

\* One tick: entries expire, deadlines come nearer.
Tick ==
    /\ op' = [p \in Procs |-> IF op[p] = Idle THEN Idle
                              ELSE [op[p] EXCEPT !.age = Older(@)]]
    /\ cache' = IF cache.ttl <= 1 THEN Absent ELSE [cache EXCEPT !.ttl = @ - 1]
    /\ since' = [v \in Versions |-> IF Over(v) THEN Older(since[v]) ELSE 0]
    /\ slow' = (slow \/ \E p \in Procs : op[p] # Idle /\ op[p].age >= MaxStall)
    /\ last' = Nothing
    /\ UNCHANGED <<row, told, faults>>

Next ==
    \/ \E p \in Procs :
         \/ ReadMiss(p) \/ Load(p) \/ Bury(p)
         \/ Fill(p) \/ Eval(p) \/ EvalFails(p) \/ Check(p) \/ Confirm(p)
         \/ RotateRead(p) \/ RotateSwap(p)
         \/ AdvanceBegin(p) \/ Advance(p) \/ AdvanceDenied(p)
         \/ RevokeRead(p) \/ Fence(p) \/ Commit(p) \/ Final(p)
         \/ Abort(p)
    \/ ReadHit
    \/ Tick

Spec == Init /\ [][Next]_vars

-----------------------------------------------------------------------------
(* Properties. *)

Entries ==
    [status: {"active"} \cup Denies, ver: Versions, ttl: 1..TTL] \cup {Absent}

\* Every variable keeps its type; an entry in Redis always has a lifetime
\* left, and no more than userCacheTTLSeconds.
TypeOK ==
    /\ row \in [status: {"active", "revoked"}, ver: Versions]
    /\ cache \in Entries
    /\ op \in [Procs -> [kind: {"none", "read", "rotate", "advance", "revoke"},
                         at: {"idle", "load", "bury", "fill", "eval", "filled",
                              "confirm", "swap", "advance", "fence", "commit",
                              "final"},
                         ver: Versions, age: 0..TTL, late: BOOLEAN,
                         floor: Versions]]
    /\ last \in [source: {"none", "cache", "database", "unsaved"}, lag: 0..TTL,
                 late: BOOLEAN, old: BOOLEAN]
    /\ since \in [Versions -> 0..TTL]
    /\ told \in Versions
    /\ slow \in BOOLEAN
    /\ faults \in 0..MaxFaults

\* Stale snapshots die in time: whatever processes stall, crash or lose their
\* Redis commands, no validation accepts a session userCacheTTLSeconds after
\* it was revoked, or a version as long after it was replaced.  The one
\* exception is a process that holds a snapshot it could not save because
\* Redis failed: it does not look at the clock again.
BoundedStaleness == last.source \in {"cache", "database"} => last.lag < TTL

\* The deny fence works at once: when no operation takes long and Redis does
\* not fail, a validation that begins after the revocation was committed does
\* not accept the session, from the cache or from a late fill of it.
NoLateAccept == ~slow /\ faults = 0 => ~last.late

\* The version fence works at once: under the same conditions a validation
\* that begins after an advance has returned does not accept the version
\* before it.
NoOldVersion == ~slow /\ faults = 0 => ~last.old

\* Operations that hold a snapshot they have read as active.
Holding(p) == op[p].at \in {"swap", "fill", "eval", "filled"}

\* Why stale snapshots die: an operation has held a version for at least as
\* long as that version has not been good, and an entry has no more left than
\* the version has of its TTL.
SnapshotsAge ==
    /\ \A v \in Versions : ~Over(v) => since[v] = 0
    /\ \A p \in Procs : Holding(p) => since[op[p].ver] <= op[p].age
    /\ cache.status = "active" => since[cache.ver] + cache.ttl <= TTL
=============================================================================
