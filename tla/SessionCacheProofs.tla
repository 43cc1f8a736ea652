------------------------- MODULE SessionCacheProofs -------------------------
(***************************************************************************)
(* Theorems about SessionCache, for any number of processes, any lifetime  *)
(* of a cached session, any number of versions and of failing commands.    *)
(***************************************************************************)
EXTENDS SessionCache, TLAPS

Kinds == {"none", "read", "rotate", "advance", "revoke"}

Stages == {"idle", "load", "bury", "fill", "eval", "filled", "confirm", "swap",
           "advance", "fence", "commit", "final"}

Ops == [kind: Kinds, at: Stages, ver: Versions, age: 0..TTL, late: BOOLEAN,
        floor: Versions]

Rows == [status: {"active", "revoked"}, ver: Versions]

Answers == [source: {"none", "cache", "database", "unsaved"}, lag: 0..TTL,
            late: BOOLEAN, old: BOOLEAN]

\* TypeOK, with names for its sets.
LEMMA TypeNames ==
    TypeOK <=> /\ row \in Rows /\ cache \in Entries /\ op \in [Procs -> Ops]
               /\ last \in Answers /\ since \in [Versions -> 0..TTL]
               /\ told \in Versions /\ slow \in BOOLEAN /\ faults \in 0..MaxFaults
  BY DEF TypeOK, Rows, Ops, Answers, Kinds, Stages

\* The values that operations are reset to have their types.
LEMMA Constants ==
    /\ 1 \in Versions
    /\ Idle \in Ops /\ Nothing \in Answers /\ Absent \in Entries
    /\ 0 \in 0..TTL
  BY CacheAssumption
  DEF Idle, Nothing, Absent, Entries, Ops, Kinds, Stages, Versions, Answers

\* An entry that is not Absent is a snapshot or a tombstone with time left.
LEMMA EntryFields ==
    ASSUME NEW c \in Entries, c # Absent
    PROVE  c.status \in {"active"} \cup Denies /\ c.ver \in Versions /\ c.ttl \in 1..TTL
  BY DEF Entries

\* What writeUserSessionCache leaves in Redis is an entry.
LEMMA WrittenEntries ==
    ASSUME TypeOK, NEW ver \in Versions
    PROVE  /\ \A s \in Denies : Denied(s, ver) \in Entries
           /\ \A age \in 0..TTL : Filled(ver, age) \in Entries
  <1>1. \A s \in Denies : Denied(s, ver) \in Entries
    BY CacheAssumption DEF TypeOK, Denied, Entry, Entries, Denies
  <1>2. ASSUME NEW age \in 0..TTL PROVE Filled(ver, age) \in Entries
    BY <1>2, CacheAssumption DEF Filled, Lifetime, Entry, Entries
  <1> QED BY <1>1, <1>2

\* Every step that ends or moves an operation keeps the types.
LEMMA MoveTypes ==
    ASSUME TypeOK, NEW p \in Procs, NEW at \in Stages, Move(p, at)
    PROVE  op' \in [Procs -> Ops] /\ last' \in Answers
  BY TypeNames, Constants DEF Move, Ops

LEMMA RejectTypes ==
    ASSUME TypeOK, NEW p \in Procs, Reject(p)
    PROVE  op' \in [Procs -> Ops] /\ last' \in Answers
  BY TypeNames, Constants DEF Reject

LEMMA AcceptTypes ==
    ASSUME TypeOK, NEW p \in Procs, NEW source \in {"database", "unsaved"},
           Accept(p, source)
    PROVE  op' \in [Procs -> Ops] /\ last' \in Answers
  <1>1. op[p] \in Ops
    BY TypeNames
  <1>2. since[op[p].ver] \in 0..TTL
    BY <1>1, TypeNames DEF Ops
  <1> QED BY <1>1, <1>2, TypeNames, Constants DEF Accept, Ops, Answers

LEMMA SnapshotTypes ==
    ASSUME TypeOK, NEW p \in Procs, AcceptSnapshot(p, "database")
    PROVE  /\ op' \in [Procs -> Ops] /\ last' \in Answers
           /\ told' \in Versions /\ UNCHANGED <<since, slow>>
  <1>1. op[p] \in Ops
    BY TypeNames
  <1> QED BY <1>1, AcceptTypes, TypeNames DEF AcceptSnapshot, Ops

LEMMA BeginTypes ==
    ASSUME TypeOK, NEW p \in Procs, NEW kind \in Kinds, NEW at \in Stages,
           NEW ver \in Versions, Begin(p, kind, at, ver)
    PROVE  op' \in [Procs -> Ops] /\ last' \in Answers
  BY TypeNames, Constants DEF Begin, Ops

-----------------------------------------------------------------------------
(* Types. *)

\* No step of the specification leaves the types.
LEMMA TypeStep ==
    ASSUME TypeOK, [Next]_vars
    PROVE  TypeOK'
  <1> USE TypeNames, Constants
  <1>0. TypeOK' <=> /\ row' \in Rows /\ cache' \in Entries
                    /\ op' \in [Procs -> Ops] /\ last' \in Answers
                    /\ since' \in [Versions -> 0..TTL] /\ told' \in Versions
                    /\ slow' \in BOOLEAN /\ faults' \in 0..MaxFaults
    BY DEF TypeOK, Rows, Ops, Answers, Kinds, Stages, Entries, Absent, Denies
  <1>f. ASSUME RedisFails PROVE faults' \in 0..MaxFaults
    BY <1>f, CacheAssumption DEF RedisFails
  <1>o. \A p \in Procs : op[p] \in Ops
    OBVIOUS
  <1>1. ASSUME NEW p \in Procs, ReadMiss(p) PROVE TypeOK'
    BY <1>0, <1>1, <1>f, BeginTypes DEF ReadMiss, history, Kinds, Stages
  <1>2. ASSUME NEW p \in Procs, Load(p) PROVE TypeOK'
    BY <1>0, <1>2, <1>o DEF Load, history, Ops, Stages, Rows
  <1>3. ASSUME NEW p \in Procs, Bury(p) PROVE TypeOK'
    <2>1. op[p].ver \in Versions /\ "revoked" \in Denies
      BY <1>o DEF Ops, Denies
    <2> QED BY <1>0, <1>3, <1>f, <2>1, RejectTypes, WrittenEntries DEF Bury, history
  <1>4. ASSUME NEW p \in Procs, Fill(p) PROVE TypeOK'
    BY <1>0, <1>4, MoveTypes DEF Fill, history, Stages
  <1>5. ASSUME NEW p \in Procs, Eval(p) PROVE TypeOK'
    <2>1. op[p].ver \in Versions /\ op[p].age \in 0..TTL
      BY <1>o DEF Ops
    <2> QED BY <1>0, <1>5, <2>1, MoveTypes, RejectTypes, WrittenEntries
            DEF Eval, history, Stages
  <1>6. ASSUME NEW p \in Procs, EvalFails(p) PROVE TypeOK'
    <2>1. op[p].ver \in Versions /\ op[p].age \in 0..TTL
      BY <1>o DEF Ops
    <2>2. cache' \in Entries
      BY <1>6, <2>1, WrittenEntries DEF EvalFails
    <2> QED BY <1>0, <1>6, <1>f, <2>2, RejectTypes, AcceptTypes
            DEF EvalFails, history
  <1>7. ASSUME NEW p \in Procs, Check(p) PROVE TypeOK'
    BY <1>0, <1>7, MoveTypes, SnapshotTypes DEF Check, history, Stages
  <1>8. ASSUME NEW p \in Procs, Confirm(p) PROVE TypeOK'
    BY <1>0, <1>8, RejectTypes, SnapshotTypes DEF Confirm, history
  <1>9. ASSUME NEW p \in Procs, RotateRead(p) PROVE TypeOK'
    BY <1>0, <1>9, BeginTypes DEF RotateRead, history, Kinds, Stages, Rows
  <1>10. ASSUME NEW p \in Procs, RotateSwap(p) PROVE TypeOK'
    BY <1>0, <1>10, MoveTypes, RejectTypes DEF RotateSwap, history, Stages
  <1>11. ASSUME NEW p \in Procs, AdvanceBegin(p) PROVE TypeOK'
    BY <1>0, <1>11, BeginTypes DEF AdvanceBegin, history, Kinds, Stages
  <1>12. ASSUME NEW p \in Procs, Advance(p) PROVE TypeOK'
    <2>1. row.ver + 1 \in Versions
      BY <1>12, CacheAssumption DEF Advance, Rows, Versions
    <2> QED BY <1>0, <1>12, <1>o, <2>1 DEF Advance, history, Rows, Ops, Stages
  <1>13. ASSUME NEW p \in Procs, AdvanceDenied(p) PROVE TypeOK'
    BY <1>0, <1>13, RejectTypes DEF AdvanceDenied, history
  <1>14. ASSUME NEW p \in Procs, RevokeRead(p) PROVE TypeOK'
    BY <1>0, <1>14, BeginTypes DEF RevokeRead, history, Kinds, Stages, Rows
  <1>15. ASSUME NEW p \in Procs, Fence(p) PROVE TypeOK'
    <2>1. op[p].ver \in Versions /\ "revoking" \in Denies
      BY <1>o DEF Ops, Denies
    <2> QED BY <1>0, <1>15, <1>f, <2>1, MoveTypes, RejectTypes, WrittenEntries
            DEF Fence, history, Stages
  <1>16. ASSUME NEW p \in Procs, Commit(p) PROVE TypeOK'
    BY <1>0, <1>16, MoveTypes, RejectTypes DEF Commit, history, Stages, Rows
  <1>17. ASSUME NEW p \in Procs, Final(p) PROVE TypeOK'
    <2>1. op[p].ver \in Versions /\ "revoked" \in Denies
      BY <1>o DEF Ops, Denies
    <2> QED BY <1>0, <1>17, <1>f, <2>1, RejectTypes, WrittenEntries DEF Final, history
  <1>18. ASSUME NEW p \in Procs, Abort(p) PROVE TypeOK'
    BY <1>0, <1>18, RejectTypes DEF Abort, history
  <1>19. CASE ReadHit
    <2>1. cache.ver \in Versions /\ since[cache.ver] \in 0..TTL
      BY <1>19, EntryFields DEF ReadHit
    <2>2. last' \in Answers
      BY <1>19, <2>1 DEF ReadHit, Answers
    <2> QED BY <1>0, <1>19, <2>2 DEF ReadHit, history
  <1>20. CASE Tick
    <2>1. \A n \in 0..TTL : Older(n) \in 0..TTL
      BY CacheAssumption DEF Older
    <2>2. op' \in [Procs -> Ops]
      BY <1>20, <1>o, <2>1 DEF Tick, Ops
    <2>3. cache' \in Entries
      BY <1>20, CacheAssumption DEF Tick, Entries, Absent
    <2>4. since' \in [Versions -> 0..TTL]
      BY <1>20, <2>1 DEF Tick
    <2>5. slow' \in BOOLEAN
      BY <1>20 DEF Tick
    <2> QED BY <1>0, <1>20, <2>2, <2>3, <2>4, <2>5 DEF Tick
  <1>21. CASE UNCHANGED vars
    BY <1>0, <1>21 DEF vars
  <1> QED BY <1>1, <1>2, <1>3, <1>4, <1>5, <1>6, <1>7, <1>8, <1>9, <1>10,
             <1>11, <1>12, <1>13, <1>14, <1>15, <1>16, <1>17, <1>18, <1>19,
             <1>20, <1>21 DEF Next

LEMMA TypeInit == Init => TypeOK
  <1>1. 0 \in 0..MaxFaults
    BY CacheAssumption
  <1> SUFFICES ASSUME Init PROVE TypeOK
    OBVIOUS
  <1>2. op \in [Procs -> Ops] /\ cache \in Entries /\ last \in Answers
    BY Constants DEF Init
  <1>3. since \in [Versions -> 0..TTL] /\ told \in Versions /\ row \in Rows
    BY Constants DEF Init, Rows
  <1>4. slow \in BOOLEAN /\ faults \in 0..MaxFaults
    BY <1>1 DEF Init
  <1> QED BY <1>2, <1>3, <1>4, TypeNames

\* The row, the entry in Redis, the operations and the history keep their
\* types; an entry in Redis always has a lifetime left, of at most
\* userCacheTTLSeconds.
THEOREM SessionTypes == Spec => []TypeOK
  BY TypeInit, TypeStep, PTL DEF Spec

-----------------------------------------------------------------------------
(* Stale snapshots die in time. *)

\* The three parts of SnapshotsAge.
GoodIsNew == \A v \in Versions : ~Over(v) => since[v] = 0
HeldLongEnough == \A p \in Procs : Holding(p) => since[op[p].ver] <= op[p].age
EntryShortEnough == cache.status = "active" => since[cache.ver] + cache.ttl <= TTL

\* An operation that is moved, ended or begun elsewhere is as it was; one that
\* begins to hold a snapshot holds a version that is good.
LEMMA HeldStep ==
    ASSUME TypeOK, SnapshotsAge, NEW p \in Procs, since' = since,
           op' \in [Procs -> Ops], \A q \in Procs \ {p} : op'[q] = op[q],
           Holding(p)' =>
               \/ Holding(p) /\ op'[p].ver = op[p].ver /\ op'[p].age = op[p].age
               \/ since[op'[p].ver] = 0
    PROVE  HeldLongEnough'
  <1> SUFFICES ASSUME NEW q \in Procs, Holding(q)'
               PROVE  since'[op'[q].ver] <= op'[q].age
    BY DEF HeldLongEnough
  <1>1. op'[q] \in Ops
    OBVIOUS
  <1>2. CASE q = p
    BY <1>1, <1>2 DEF SnapshotsAge, Ops
  <1>3. CASE q # p
    BY <1>3 DEF SnapshotsAge, Holding
  <1> QED BY <1>2, <1>3

\* Versions only go out of use.
LEMMA OverGrows ==
    ASSUME TypeOK, SnapshotsAge, since' = since,
           row' = row \/ (\E p \in Procs : Advance(p) \/ Commit(p))
    PROVE  GoodIsNew'
  <1> SUFFICES ASSUME NEW v \in Versions, Over(v) PROVE Over(v)'
    BY DEF GoodIsNew, SnapshotsAge
  <1>1. CASE row' = row
    BY <1>1 DEF Over
  <1>2. ASSUME NEW p \in Procs, Advance(p) PROVE Over(v)'
    BY <1>2, TypeNames DEF Over, Advance, Rows, Versions
  <1>3. ASSUME NEW p \in Procs, Commit(p) PROVE Over(v)'
    BY <1>3, TypeNames DEF Over, Commit, Rows, Versions
  <1> QED BY <1>1, <1>2, <1>3

\* The version of the row is good while the session is active.
LEMMA CurrentIsNew ==
    ASSUME TypeOK, SnapshotsAge, row.status = "active"
    PROVE  /\ row.ver \in Versions
           /\ \A v \in Versions : v >= row.ver => since[v] = 0
  BY TypeNames DEF SnapshotsAge, Over, Rows, Versions

\* A tombstone says nothing of active snapshots.
LEMMA DeniedShort ==
    ASSUME TypeOK, SnapshotsAge, since' = since,
           \/ cache' = cache
           \/ \E s \in Denies, v \in Versions : cache' = Denied(s, v)
    PROVE  EntryShortEnough'
  BY DEF SnapshotsAge, EntryShortEnough, Denied, Entry, Denies

\* Only the operation of p changes.
LEMMA Alone ==
    ASSUME TypeOK, NEW p \in Procs, NEW e, op' = [op EXCEPT ![p] = e]
    PROVE  op'[p] = e /\ \A q \in Procs \ {p} : op'[q] = op[q]
  BY TypeNames

LEMMA AgeStep ==
    ASSUME TypeOK, TypeOK', SnapshotsAge, [Next]_vars
    PROVE  SnapshotsAge'
  <1> USE TypeNames
  <1>0. SnapshotsAge' <=> GoodIsNew' /\ HeldLongEnough' /\ EntryShortEnough'
    BY DEF SnapshotsAge, GoodIsNew, HeldLongEnough, EntryShortEnough
  <1>o. op' \in [Procs -> Ops] /\ \A p \in Procs : op[p] \in Ops /\ op'[p] \in Ops
    BY DEF TypeOK, Ops, Kinds, Stages
  <1>r. ASSUME NEW p \in Procs, Reject(p), since' = since PROVE HeldLongEnough'
    BY <1>r, <1>o, HeldStep, Alone DEF Reject, Holding, Idle
  <1>m. ASSUME NEW p \in Procs, NEW at, Move(p, at), since' = since,
               Holding(p) \/ at \notin {"swap", "fill", "eval", "filled"}
        PROVE  HeldLongEnough'
    BY <1>m, <1>o, HeldStep DEF Move, Holding, Ops
  <1>a. ASSUME NEW p \in Procs, NEW source, Accept(p, source), since' = since
        PROVE  HeldLongEnough'
    BY <1>a, <1>o, HeldStep, Alone DEF Accept, Holding, Idle
  <1>b. ASSUME NEW p \in Procs, NEW kind, NEW at, NEW ver,
               Begin(p, kind, at, ver), since' = since,
               at \in {"swap", "fill", "eval", "filled"} => since[ver] = 0
        PROVE  HeldLongEnough'
    BY <1>b, <1>o, HeldStep DEF Begin, Holding, Ops
  <1>s. "revoked" \in Denies /\ "revoking" \in Denies
        /\ \A p \in Procs : op[p].ver \in Versions
    BY <1>o DEF Denies, Ops
  <1>1. ASSUME NEW p \in Procs, ReadMiss(p) PROVE SnapshotsAge'
    BY <1>0, <1>1, <1>b, OverGrows, DeniedShort DEF ReadMiss, history
  <1>2. ASSUME NEW p \in Procs, Load(p) PROVE SnapshotsAge'
    <2>1. row.status = "active" => since[row.ver] = 0
      BY CurrentIsNew DEF Versions
    <2>2. op'[p].ver = row.ver /\ (Holding(p)' => row.status = "active")
      BY <1>2, <1>o DEF Load, Holding, Ops
    <2>3. since' = since /\ \A q \in Procs \ {p} : op'[q] = op[q]
      BY <1>2 DEF Load, history
    <2>4. HeldLongEnough'
      BY <1>o, <2>1, <2>2, <2>3, HeldStep
    <2> QED BY <1>0, <1>2, <2>4, OverGrows, DeniedShort DEF Load, history
  <1>3. ASSUME NEW p \in Procs, Bury(p) PROVE SnapshotsAge'
    BY <1>0, <1>3, <1>r, <1>s, OverGrows, DeniedShort DEF Bury, history
  <1>4. ASSUME NEW p \in Procs, Fill(p) PROVE SnapshotsAge'
    BY <1>0, <1>4, <1>m, OverGrows, DeniedShort DEF Fill, history, Holding
  <1>5. ASSUME NEW p \in Procs, Eval(p) PROVE SnapshotsAge'
    <2>1. CASE Refused("active", op[p].ver)
      BY <1>0, <1>5, <1>r, <2>1, OverGrows, DeniedShort DEF Eval, history
    <2>2. CASE ~Refused("active", op[p].ver)
      <3>1. Holding(p) /\ since' = since
        BY <1>5 DEF Eval, Holding, history
      <3>2. HeldLongEnough' /\ GoodIsNew'
        BY <1>5, <1>m, <2>2, <3>1, OverGrows DEF Eval, history
      <3>3. since[op[p].ver] <= op[p].age /\ op[p].age \in 0..TTL
            /\ since[op[p].ver] \in 0..TTL
        BY <1>o, <3>1 DEF SnapshotsAge, Ops
      <3>4. EntryShortEnough'
        BY <1>5, <2>2, <3>1, <3>3, CacheAssumption
        DEF Eval, Filled, Absent, Entry, Lifetime, EntryShortEnough
      <3> QED BY <1>0, <3>2, <3>4
    <2> QED BY <2>1, <2>2
  <1>6. ASSUME NEW p \in Procs, EvalFails(p) PROVE SnapshotsAge'
    <2>1. Holding(p) /\ since' = since
      BY <1>6 DEF EvalFails, Holding, history
    <2>2. HeldLongEnough' /\ GoodIsNew'
      BY <1>6, <1>r, <1>a, <2>1, OverGrows DEF EvalFails
    <2>3. since[op[p].ver] <= op[p].age /\ op[p].age \in 0..TTL
          /\ since[op[p].ver] \in 0..TTL
      BY <1>o, <2>1 DEF SnapshotsAge, Ops
    <2>4. CASE cache' = cache
      BY <1>0, <2>1, <2>2, <2>4, DeniedShort
    <2>5. CASE cache' = Filled(op[p].ver, op[p].age)
      <3>1. EntryShortEnough'
        BY <2>1, <2>3, <2>5, CacheAssumption
        DEF Filled, Absent, Entry, Lifetime, EntryShortEnough
      <3> QED BY <1>0, <2>2, <3>1
    <2> QED BY <1>6, <2>4, <2>5 DEF EvalFails
  <1>7. ASSUME NEW p \in Procs, Check(p) PROVE SnapshotsAge'
    BY <1>0, <1>7, <1>m, <1>a, OverGrows, DeniedShort
    DEF Check, history, AcceptSnapshot
  <1>8. ASSUME NEW p \in Procs, Confirm(p) PROVE SnapshotsAge'
    BY <1>0, <1>8, <1>r, <1>a, OverGrows, DeniedShort
    DEF Confirm, history, AcceptSnapshot
  <1>9. ASSUME NEW p \in Procs, RotateRead(p) PROVE SnapshotsAge'
    <2>1. since[row.ver] = 0
      BY <1>9, CurrentIsNew DEF RotateRead, Versions
    <2> QED BY <1>0, <1>9, <1>b, <2>1, OverGrows, DeniedShort
            DEF RotateRead, history
  <1>10. ASSUME NEW p \in Procs, RotateSwap(p) PROVE SnapshotsAge'
    BY <1>0, <1>10, <1>m, <1>r, OverGrows, DeniedShort
    DEF RotateSwap, history, Holding
  <1>11. ASSUME NEW p \in Procs, AdvanceBegin(p) PROVE SnapshotsAge'
    BY <1>0, <1>11, <1>b, OverGrows, DeniedShort DEF AdvanceBegin, history
  <1>12. ASSUME NEW p \in Procs, Advance(p) PROVE SnapshotsAge'
    <2>1. row.ver + 1 \in Versions /\ row.ver + 1 >= row.ver
      BY <1>12, CacheAssumption DEF Advance, Rows, Versions
    <2>2. since[row.ver + 1] = 0
      BY <1>12, <2>1, CurrentIsNew DEF Advance
    <2>3. op'[p].ver = row.ver + 1 /\ since' = since
          /\ \A q \in Procs \ {p} : op'[q] = op[q]
      BY <1>12, <1>o DEF Advance, history, Ops
    <2>4. HeldLongEnough'
      BY <1>o, <2>2, <2>3, HeldStep
    <2> QED BY <1>0, <1>12, <2>4, OverGrows, DeniedShort DEF Advance, history
  <1>13. ASSUME NEW p \in Procs, AdvanceDenied(p) PROVE SnapshotsAge'
    BY <1>0, <1>13, <1>r, OverGrows, DeniedShort DEF AdvanceDenied, history
  <1>14. ASSUME NEW p \in Procs, RevokeRead(p) PROVE SnapshotsAge'
    BY <1>0, <1>14, <1>b, OverGrows, DeniedShort DEF RevokeRead, history
  <1>15. ASSUME NEW p \in Procs, Fence(p) PROVE SnapshotsAge'
    BY <1>0, <1>15, <1>r, <1>m, <1>s, OverGrows, DeniedShort DEF Fence, history
  <1>16. ASSUME NEW p \in Procs, Commit(p) PROVE SnapshotsAge'
    BY <1>0, <1>16, <1>r, <1>m, OverGrows, DeniedShort DEF Commit, history
  <1>17. ASSUME NEW p \in Procs, Final(p) PROVE SnapshotsAge'
    BY <1>0, <1>17, <1>r, <1>s, OverGrows, DeniedShort DEF Final, history
  <1>18. ASSUME NEW p \in Procs, Abort(p) PROVE SnapshotsAge'
    BY <1>0, <1>18, <1>r, OverGrows, DeniedShort DEF Abort, history
  <1>19. CASE ReadHit
    BY <1>19 DEF ReadHit, history, SnapshotsAge, Over, Holding
  <1>20. CASE Tick
    <2>1. GoodIsNew'
      BY <1>20 DEF Tick, GoodIsNew, Over
    <2>2. \A m, n \in 0..TTL : /\ Older(n) \in 0..TTL /\ n <= Older(n)
                               /\ m <= n => Older(m) <= Older(n)
      BY CacheAssumption DEF Older
    <2>3. \A v \in Versions : since'[v] \in 0..TTL /\ since'[v] <= Older(since[v])
      BY <1>20, <2>2, CacheAssumption DEF Tick, Older
    <2>4. ASSUME NEW p \in Procs, Holding(p)'
          PROVE  since'[op'[p].ver] <= op'[p].age
      <3>1. op'[p].ver = op[p].ver /\ op'[p].age = Older(op[p].age) /\ Holding(p)
        BY <1>20, <1>o, <2>4 DEF Tick, Holding, Idle, Ops
      <3>2. /\ op[p].ver \in Versions /\ op[p].age \in 0..TTL
            /\ since[op[p].ver] \in 0..TTL /\ since[op[p].ver] <= op[p].age
        BY <1>o, <3>1 DEF SnapshotsAge, Ops
      <3>3. Older(since[op[p].ver]) <= Older(op[p].age)
        BY <2>2, <3>2
      <3> QED BY <2>2, <2>3, <3>1, <3>2, <3>3
    <2>5. EntryShortEnough'
      <3> SUFFICES ASSUME cache'.status = "active"
                   PROVE  since'[cache'.ver] + cache'.ttl <= TTL
        BY DEF EntryShortEnough
      <3>1. cache # Absent /\ cache.ttl # 1 /\ cache' = [cache EXCEPT !.ttl = @ - 1]
        BY <1>20, CacheAssumption DEF Tick, Absent
      <3>2. cache.ver \in Versions /\ cache.ttl \in 1..TTL
        BY <3>1, EntryFields
      <3>3. cache.status = "active" /\ cache'.ver = cache.ver
            /\ cache'.ttl = cache.ttl - 1
        BY <3>1 DEF Entries, Absent
      <3>4. since[cache.ver] \in 0..TTL /\ since[cache.ver] + cache.ttl <= TTL
        BY <3>2, <3>3 DEF SnapshotsAge
      <3>5. since'[cache.ver] \in 0..TTL /\ since'[cache.ver] <= since[cache.ver] + 1
        BY <2>3, <3>2, <3>4, CacheAssumption DEF Older
      <3> QED BY <3>2, <3>3, <3>4, <3>5, CacheAssumption
    <2> QED BY <1>0, <2>1, <2>4, <2>5 DEF HeldLongEnough
  <1>21. CASE UNCHANGED vars
    BY <1>21 DEF vars, SnapshotsAge, Over, Holding
  <1> QED BY <1>1, <1>2, <1>3, <1>4, <1>5, <1>6, <1>7, <1>8, <1>9, <1>10,
             <1>11, <1>12, <1>13, <1>14, <1>15, <1>16, <1>17, <1>18, <1>19,
             <1>20, <1>21 DEF Next

\* No validation accepts what has not been good for a lifetime of an entry.
LEMMA StalenessStep ==
    ASSUME TypeOK, SnapshotsAge, BoundedStaleness, [Next]_vars
    PROVE  BoundedStaleness'
  <1> USE TypeNames
  <1>o. \A p \in Procs : op[p] \in Ops
    OBVIOUS
  <1>n. ASSUME last' = Nothing PROVE BoundedStaleness'
    BY <1>n DEF BoundedStaleness, Nothing
  <1>1. CASE ReadHit
    <2>1. CASE cache.status \in Denies
      BY <1>1, <1>n, <2>1 DEF ReadHit
    <2>2. CASE cache.status \notin Denies
      <3>1. cache.status = "active" /\ cache.ver \in Versions /\ cache.ttl \in 1..TTL
        BY <1>1, <2>2, EntryFields DEF ReadHit
      <3>2. since[cache.ver] \in 0..TTL /\ since[cache.ver] + cache.ttl <= TTL
        BY <3>1 DEF SnapshotsAge
      <3> QED BY <1>1, <2>2, <3>1, <3>2, CacheAssumption
              DEF ReadHit, BoundedStaleness
    <2> QED BY <2>1, <2>2
  <1>2. ASSUME NEW p \in Procs, Check(p) PROVE BoundedStaleness'
    <2>1. CASE Stale(p)
      BY <1>2, <1>n, <2>1 DEF Check, Move
    <2>2. CASE ~Stale(p)
      <3>1. Holding(p) /\ op[p].age \in 0..TTL /\ since[op[p].ver] \in 0..TTL
        BY <1>2, <1>o DEF Check, Holding, Ops
      <3>2. since[op[p].ver] <= op[p].age /\ op[p].age # TTL
        BY <2>2, <3>1 DEF SnapshotsAge, Stale
      <3> QED BY <1>2, <2>2, <3>1, <3>2, CacheAssumption
              DEF Check, AcceptSnapshot, Accept, BoundedStaleness
    <2> QED BY <2>1, <2>2
  <1>3. ASSUME NEW p \in Procs, Confirm(p) PROVE BoundedStaleness'
    <2>1. CASE row = [status |-> "active", ver |-> op[p].ver]
      <3>1. since[op[p].ver] = 0
        BY <2>1, CurrentIsNew DEF Versions
      <3> QED BY <1>3, <2>1, <3>1, CacheAssumption
              DEF Confirm, AcceptSnapshot, Accept, BoundedStaleness
    <2>2. CASE row # [status |-> "active", ver |-> op[p].ver]
      BY <1>3, <1>n, <2>2 DEF Confirm, Reject
    <2> QED BY <2>1, <2>2
  <1>4. ASSUME NEW p \in Procs, EvalFails(p) PROVE BoundedStaleness'
    BY <1>4, <1>n DEF EvalFails, Reject, Accept, BoundedStaleness
  <1>5. ASSUME NEW p \in Procs,
               \/ ReadMiss(p) \/ Load(p) \/ Bury(p) \/ Fill(p) \/ Eval(p)
               \/ RotateRead(p) \/ RotateSwap(p)
               \/ AdvanceBegin(p) \/ Advance(p) \/ AdvanceDenied(p)
               \/ RevokeRead(p) \/ Fence(p) \/ Commit(p) \/ Final(p) \/ Abort(p)
        PROVE  BoundedStaleness'
    BY <1>5, <1>n DEF ReadMiss, Load, Bury, Fill, Eval, RotateRead, RotateSwap,
       AdvanceBegin, Advance, AdvanceDenied, RevokeRead, Fence, Commit, Final,
       Abort, Begin, Move, Reject
  <1>6. CASE Tick
    BY <1>6, <1>n DEF Tick
  <1>7. CASE UNCHANGED vars
    BY <1>7 DEF vars, BoundedStaleness
  <1> QED BY <1>1, <1>2, <1>3, <1>4, <1>5, <1>6, <1>7 DEF Next

LEMMA AgeInit == Init => SnapshotsAge /\ BoundedStaleness
  BY Constants
  DEF Init, SnapshotsAge, BoundedStaleness, Holding, Idle, Absent, Nothing

\* An operation has held its snapshot for at least as long as the version in
\* it has not been good, and an entry has no more time left than that version.
THEOREM SnapshotsGrowOld == Spec => []SnapshotsAge
  <1>1. TypeOK /\ TypeOK' /\ SnapshotsAge /\ [Next]_vars => SnapshotsAge'
    BY AgeStep
  <1> QED BY <1>1, AgeInit, SessionTypes, PTL DEF Spec

\* Stale snapshots die in time: no validation accepts a session, or a version
\* of it, a whole userCacheTTLSeconds after it was revoked or replaced, however
\* many processes stall, die or lose their Redis commands.
THEOREM StaleSnapshotsDie == Spec => []BoundedStaleness
  <1>1. TypeOK /\ SnapshotsAge /\ BoundedStaleness /\ [Next]_vars
            => BoundedStaleness'
    BY StalenessStep
  <1> QED BY <1>1, AgeInit, SessionTypes, SnapshotsGrowOld, PTL DEF Spec

-----------------------------------------------------------------------------
(* The deny fence works at once. *)

Calm == ~slow /\ faults = 0

\* Versions go out of use in order.
SinceOrder == \A v, w \in Versions : v <= w => since[w] <= since[v]

\* What an operation holds was committed.
HeldVersions == \A p \in Procs : Holding(p) => op[p].ver <= row.ver

\* An operation that began after the revocation never gets to hold a snapshot.
LateOps ==
    \A p \in Procs : op[p].late =>
        row.status = "revoked" /\ op[p].at \in {"load", "bury", "advance"}

\* No operation has been going on for longer than MaxStall.
AllPrompt == \A p \in Procs : op[p].age <= MaxStall

\* A revocation that is about to commit has its fence in Redis.
AllFenced ==
    \A p \in Procs : op[p].at = "commit" =>
        cache.status \in Denies /\ cache.ttl >= TTL - op[p].age

\* A revoked session has no active entry, and for as long as an operation
\* may hold a snapshot of it there is a tombstone.
Buried ==
    row.status = "revoked" =>
        /\ cache.status # "active"
        /\ since[row.ver] <= MaxStall =>
             cache.status \in Denies /\ cache.ttl >= TTL - MaxStall - since[row.ver]

LateInv ==
    /\ SinceOrder /\ HeldVersions /\ LateOps
    /\ Calm => AllPrompt /\ AllFenced /\ Buried

\* Neither a stall nor a failure is ever undone.
LEMMA CalmBefore ==
    ASSUME TypeOK, [Next]_vars, Calm'
    PROVE  Calm /\ (faults' = faults) /\ ~RedisFails
  <1>1. ~RedisFails
    BY TypeNames, CacheAssumption DEF RedisFails, Calm
  <1>2. faults' = faults
    BY <1>1 DEF Next, vars, ReadMiss, Load, Bury, Fill, Eval, EvalFails, Check,
       Confirm, RotateRead, RotateSwap, AdvanceBegin, Advance, AdvanceDenied,
       RevokeRead, Fence, Commit, Final, Abort, ReadHit, Tick
  <1>3. slow' = slow \/ Tick
    BY DEF Next, vars, history, ReadMiss, Load, Bury, Fill, Eval, EvalFails,
       Check, Confirm, RotateRead, RotateSwap, AdvanceBegin, Advance,
       AdvanceDenied, RevokeRead, Fence, Commit, Final, Abort, ReadHit,
       AcceptSnapshot
  <1>4. ~slow
    BY <1>3, Zenon DEF Calm, Tick
  <1> QED BY <1>1, <1>2, <1>4 DEF Calm

LEMMA OrderStep ==
    ASSUME TypeOK, SnapshotsAge, SinceOrder, [Next]_vars
    PROVE  SinceOrder'
  <1>1. CASE since' = since
    BY <1>1 DEF SinceOrder
  <1>2. CASE Tick
    <2> SUFFICES ASSUME NEW v \in Versions, NEW w \in Versions, v <= w
                 PROVE  since'[w] <= since'[v]
      BY DEF SinceOrder
    <2>1. since[w] <= since[v] /\ since[v] \in 0..TTL /\ since[w] \in 0..TTL
      BY TypeNames DEF SinceOrder
    <2>2. Over(w) => Over(v)
      BY TypeNames DEF Over, Rows, Versions
    <2> QED BY <1>2, <2>1, <2>2, CacheAssumption DEF Tick, Older
  <1> QED BY <1>1, <1>2 DEF Next, vars, history, ReadMiss, Load, Bury, Fill,
     Eval, EvalFails, Check, Confirm, RotateRead, RotateSwap, AdvanceBegin,
     Advance, AdvanceDenied, RevokeRead, Fence, Commit, Final, Abort, ReadHit,
     AcceptSnapshot

\* What a step of p does to its own operation: it stays as it is, ends, goes
\* on with the same snapshot, reads a new one, or begins.
Ends(p) == op'[p] = Idle

GoesOn(p) ==
    /\ op'[p].late = op[p].late /\ op'[p].age = op[p].age
    /\ op'[p].kind = op[p].kind /\ op'[p].floor = op[p].floor
    /\ op'[p].ver = op[p].ver
    /\ \/ op[p].at = "fill" /\ op'[p].at = "eval"
       \/ op[p].at \in {"fill", "filled"} /\ op'[p].at = "confirm" /\ Stale(p)
       \/ op[p].at = "eval" /\ op'[p].at = "filled" /\ Eval(p)
       \/ op[p].at = "swap" /\ op'[p].at = "fill"
       \/ op[p].at = "fence" /\ op'[p].at = "commit" /\ Fence(p)
       \/ op[p].at = "commit" /\ op'[p].at = "final" /\ Commit(p)

Reads(p) ==
    /\ op'[p].late = op[p].late /\ op'[p].age = op[p].age
    /\ op'[p].kind = op[p].kind /\ op'[p].floor = op[p].floor
    /\ op'[p].ver = row'.ver
    /\ \/ op[p].at = "load" /\ op'[p].at \in {"fill", "bury"}
          /\ (op'[p].at = "fill" => row.status = "active")
       \/ /\ op[p].at = "advance" /\ op'[p].at = "fill" /\ row.status = "active"
          /\ row'.ver = row.ver + 1

Begins(p) ==
    /\ op'[p].late = (row.status # "active") /\ op'[p].age = 0
    /\ op'[p].floor = told
    /\ op'[p].kind = "advance" => op'[p].at = "advance"
    /\ \/ op'[p].at \in {"load", "advance"}
       \/ op'[p].at \in {"swap", "fence"} /\ op'[p].ver = row.ver
          /\ row.status = "active"

\* Every step but a tick is a step of one operation, or of none.
LEMMA OneOperation ==
    ASSUME TypeOK, [Next]_vars, ~Tick
    PROVE  \/ op' = op /\ row' = row /\ cache' = cache
           \/ \E p \in Procs : /\ \A q \in Procs \ {p} : op'[q] = op[q]
                               /\ Ends(p) \/ GoesOn(p) \/ Reads(p) \/ Begins(p)
  <1> DEFINE One(p) == /\ \A q \in Procs \ {p} : op'[q] = op[q]
                       /\ Ends(p) \/ GoesOn(p) \/ Reads(p) \/ Begins(p)
  <1>o. \A p \in Procs : op[p] \in Ops
    BY TypeNames
  <1>r. ASSUME NEW p \in Procs, Reject(p) PROVE One(p)
    BY <1>r, Alone DEF Reject, Ends
  <1>a. ASSUME NEW p \in Procs, NEW source, Accept(p, source) PROVE One(p)
    BY <1>a, Alone DEF Accept, Ends
  <1>m. ASSUME NEW p \in Procs, NEW at, Move(p, at)
        PROVE  /\ \A q \in Procs \ {p} : op'[q] = op[q]
               /\ op'[p].late = op[p].late /\ op'[p].age = op[p].age
               /\ op'[p].ver = op[p].ver /\ op'[p].at = at
               /\ op'[p].kind = op[p].kind /\ op'[p].floor = op[p].floor
    BY <1>m, <1>o, TypeNames DEF Move, Ops
  <1>b. ASSUME NEW p \in Procs, NEW kind, NEW at, NEW ver, Begin(p, kind, at, ver)
        PROVE  /\ \A q \in Procs \ {p} : op'[q] = op[q]
               /\ op'[p].late = (row.status # "active") /\ op'[p].age = 0
               /\ op'[p].at = at /\ op'[p].ver = ver
               /\ op'[p].kind = kind /\ op'[p].floor = told
    BY <1>b, TypeNames DEF Begin
  <1>1. ASSUME NEW p \in Procs, ReadMiss(p) \/ AdvanceBegin(p) PROVE One(p)
    BY <1>1, <1>b DEF ReadMiss, AdvanceBegin, Begins
  <1>2. ASSUME NEW p \in Procs, RotateRead(p) \/ RevokeRead(p) PROVE One(p)
    BY <1>2, <1>b DEF RotateRead, RevokeRead, Begins
  <1>3. ASSUME NEW p \in Procs, Load(p) PROVE One(p)
    BY <1>3, <1>o, TypeNames DEF Load, Reads, Ops
  <1>4. ASSUME NEW p \in Procs, Advance(p) PROVE One(p)
    BY <1>4, <1>o, TypeNames DEF Advance, Reads, Ops, Rows
  <1>5. ASSUME NEW p \in Procs, Bury(p) \/ AdvanceDenied(p) \/ Final(p) \/ Abort(p)
        PROVE  One(p)
    BY <1>5, <1>r DEF Bury, AdvanceDenied, Final, Abort
  <1>6. ASSUME NEW p \in Procs, Fill(p) PROVE One(p)
    <2>1. PICK at \in {"confirm", "eval"} :
            op[p].at = "fill" /\ Move(p, at) /\ (at = "confirm" => Stale(p))
      BY <1>6 DEF Fill
    <2> QED BY <1>m, <2>1 DEF GoesOn
  <1>7. ASSUME NEW p \in Procs, Eval(p) PROVE One(p)
    <2>1. op[p].at = "eval" /\ (Reject(p) \/ Move(p, "filled"))
      BY <1>7 DEF Eval
    <2> QED BY <1>7, <1>m, <1>r, <2>1 DEF GoesOn
  <1>8. ASSUME NEW p \in Procs, EvalFails(p) PROVE One(p)
    BY <1>8, <1>a, <1>r DEF EvalFails
  <1>9. ASSUME NEW p \in Procs, Check(p) PROVE One(p)
    <2>1. /\ op[p].at = "filled"
          /\ (Stale(p) /\ Move(p, "confirm")) \/ Accept(p, "database")
      BY <1>9 DEF Check, AcceptSnapshot
    <2> QED BY <1>m, <1>a, <2>1 DEF GoesOn
  <1>10. ASSUME NEW p \in Procs, Confirm(p) PROVE One(p)
    BY <1>10, <1>a, <1>r DEF Confirm, AcceptSnapshot
  <1>11. ASSUME NEW p \in Procs, RotateSwap(p) PROVE One(p)
    <2>1. op[p].at = "swap" /\ (Reject(p) \/ Move(p, "fill"))
      BY <1>11 DEF RotateSwap
    <2> QED BY <1>m, <1>r, <2>1 DEF GoesOn
  <1>12. ASSUME NEW p \in Procs, Fence(p) PROVE One(p)
    <2>1. CASE Reject(p)
      BY <1>r, <2>1
    <2>2. CASE Move(p, "commit")
      <3>1. op[p].at = "fence"
        BY <1>12 DEF Fence
      <3> QED BY <1>12, <1>m, <2>2, <3>1 DEF GoesOn
    <2> QED BY <1>12, <2>1, <2>2 DEF Fence
  <1>13. ASSUME NEW p \in Procs, Commit(p) PROVE One(p)
    <2>1. CASE Reject(p)
      BY <1>r, <2>1
    <2>2. CASE Move(p, "final")
      <3>1. op[p].at = "commit"
        BY <1>13 DEF Commit
      <3> QED BY <1>13, <1>m, <2>2, <3>1 DEF GoesOn
    <2> QED BY <1>13, <2>1, <2>2 DEF Commit
  <1>14. CASE ReadHit \/ UNCHANGED vars
    BY <1>14 DEF ReadHit, vars
  <1> QED BY <1>1, <1>2, <1>3, <1>4, <1>5, <1>6, <1>7, <1>8, <1>9, <1>10, <1>11,
             <1>12, <1>13, <1>14 DEF Next

\* The row changes by an advance or by a revocation, never back.
LEMMA RowStep ==
    ASSUME TypeOK, [Next]_vars
    PROVE  \/ row' = row
           \/ row.status = "active" /\ row'.status = "active" /\ row'.ver = row.ver + 1
           \/ /\ row.status = "active" /\ row'.status = "revoked"
              /\ row'.ver = row.ver
              /\ \E p \in Procs : Commit(p) /\ op[p].at = "commit"
  <1>1. ASSUME NEW p \in Procs, Advance(p)
        PROVE  row.status = "active" /\ row'.status = "active" /\ row'.ver = row.ver + 1
    BY <1>1, TypeNames DEF Advance, Rows
  <1>2. ASSUME NEW p \in Procs, Commit(p)
        PROVE  \/ row' = row
               \/ /\ row.status = "active" /\ row'.status = "revoked"
                  /\ row'.ver = row.ver /\ op[p].at = "commit"
    BY <1>2, TypeNames DEF Commit, Rows
  <1>3. CASE row' = row
    BY <1>3
  <1> QED BY <1>1, <1>2, <1>3 DEF Next, vars, ReadMiss, Load, Bury, Fill, Eval,
     EvalFails, Check, Confirm, RotateRead, RotateSwap, AdvanceBegin,
     AdvanceDenied, RevokeRead, Fence, Final, Abort, ReadHit, Tick

\* A tombstone with its whole lifetime.
FreshDeny(c) == c.status \in Denies /\ c.ttl = TTL

\* Redis changes by a new tombstone or by a fill that is not refused.
LEMMA CacheStep ==
    ASSUME TypeOK, [Next]_vars, ~Tick
    PROVE  \/ cache' = cache
           \/ FreshDeny(cache')
           \/ /\ cache.status \notin Denies /\ row' = row
              /\ \E p \in Procs : op[p].at = "eval"
  <1>1. ASSUME NEW s \in Denies, NEW v, cache' = Denied(s, v)
        PROVE  cache' = cache \/ FreshDeny(cache')
    BY <1>1 DEF Denied, Entry, FreshDeny
  <1>2. "revoked" \in Denies /\ "revoking" \in Denies
    BY DEF Denies
  <1>3. ASSUME NEW p \in Procs, Bury(p) \/ Fence(p) \/ Final(p)
        PROVE  cache' = cache \/ FreshDeny(cache')
    BY <1>1, <1>2, <1>3 DEF Bury, Fence, Final
  <1>4. ASSUME NEW p \in Procs, Eval(p) \/ EvalFails(p)
        PROVE  \/ cache' = cache
               \/ cache.status \notin Denies /\ row' = row /\ op[p].at = "eval"
    BY <1>4 DEF Eval, EvalFails, Refused
  <1>5. CASE cache' = cache
    BY <1>5
  <1> QED BY <1>3, <1>4, <1>5 DEF Next, vars, ReadMiss, Load, Fill,
     Check, Confirm, RotateRead, RotateSwap, AdvanceBegin, Advance,
     AdvanceDenied, RevokeRead, Commit, Abort, ReadHit

\* A tick leaves the stage and the snapshot of an operation alone.
LEMMA TickOps ==
    ASSUME TypeOK, Tick, NEW p \in Procs
    PROVE  /\ op'[p].at = op[p].at /\ op'[p].ver = op[p].ver
           /\ op'[p].late = op[p].late
           /\ op'[p].kind = op[p].kind /\ op'[p].floor = op[p].floor
           /\ op'[p].age = IF op[p] = Idle THEN 0 ELSE Older(op[p].age)
  <1>1. op[p] \in Ops
    BY TypeNames
  <1>2. op'[p] = IF op[p] = Idle THEN Idle ELSE [op[p] EXCEPT !.age = Older(@)]
    BY DEF Tick
  <1>3. CASE op[p] = Idle
    BY <1>2, <1>3 DEF Idle
  <1>4. CASE op[p] # Idle
    BY <1>1, <1>2, <1>4 DEF Ops
  <1> QED BY <1>3, <1>4

LEMMA OpsStep ==
    ASSUME TypeOK, TypeOK', HeldVersions, LateOps, [Next]_vars
    PROVE  HeldVersions' /\ LateOps'
  <1>o. \A p \in Procs : op[p] \in Ops /\ op'[p] \in Ops
    BY TypeNames DEF TypeOK, Ops, Kinds, Stages
  <1>r. row.ver \in Versions /\ row'.ver \in Versions /\ row.ver <= row'.ver
        /\ (row.status = "revoked" => row'.status = "revoked")
    BY RowStep, TypeNames DEF Rows, TypeOK, Versions
  <1>s. row.status \in {"active", "revoked"}
    BY TypeNames DEF Rows
  <1>1. CASE Tick
    BY <1>1, <1>r, TickOps DEF HeldVersions, LateOps, Holding, Tick
  <1>2. CASE ~Tick /\ op' = op
    BY <1>2, <1>o, <1>r DEF HeldVersions, LateOps, Holding, Ops, Versions
  <1>3. ASSUME NEW p \in Procs, \A q \in Procs \ {p} : op'[q] = op[q],
               Ends(p) \/ GoesOn(p) \/ Reads(p) \/ Begins(p)
        PROVE  HeldVersions' /\ LateOps'
    <2>1. \A q \in Procs \ {p} : Holding(q)' => op'[q].ver <= row'.ver
      BY <1>3, <1>o, <1>r DEF HeldVersions, Holding, Ops, Versions
    <2>2. \A q \in Procs \ {p} : op'[q].late =>
             row'.status = "revoked" /\ op'[q].at \in {"load", "bury", "advance"}
      BY <1>3, <1>r DEF LateOps
    <2>3. Holding(p)' => op'[p].ver <= row'.ver
      <3>1. CASE Ends(p)
        BY <3>1 DEF Ends, Holding, Idle
      <3>2. CASE GoesOn(p)
        BY <1>o, <1>r, <3>2 DEF GoesOn, HeldVersions, Holding, Ops, Versions
      <3>3. CASE Reads(p)
        BY <1>r, <3>3 DEF Reads, Versions
      <3>4. CASE Begins(p)
        BY <1>r, <3>4 DEF Begins, Holding, Versions
      <3> QED BY <1>3, <3>1, <3>2, <3>3, <3>4
    <2>4. op'[p].late =>
             row'.status = "revoked" /\ op'[p].at \in {"load", "bury", "advance"}
      <3>1. CASE Ends(p)
        BY <3>1 DEF Ends, Idle
      <3>2. CASE GoesOn(p)
        BY <3>2 DEF GoesOn, LateOps
      <3>3. CASE Reads(p)
        BY <1>r, <3>3 DEF Reads, LateOps
      <3>4. CASE Begins(p)
        BY <1>r, <1>s, <3>4 DEF Begins
      <3> QED BY <1>3, <3>1, <3>2, <3>3, <3>4
    <2> QED BY <2>1, <2>2, <2>3, <2>4 DEF HeldVersions, LateOps
  <1> QED BY <1>1, <1>2, <1>3, OneOperation

LEMMA PromptStep ==
    ASSUME TypeOK, Calm', AllPrompt, [Next]_vars
    PROVE  AllPrompt' /\ (Tick => \A p \in Procs : op'[p].age <= op[p].age + 1)
  <1>o. \A p \in Procs : op[p] \in Ops
    BY TypeNames
  <1>1. CASE Tick
    <2>1. \A p \in Procs : op[p] = Idle \/ ~(op[p].age >= MaxStall)
      BY <1>1, Zenon DEF Tick, Calm
    <2> SUFFICES ASSUME NEW p \in Procs
                 PROVE  op'[p].age <= MaxStall /\ op'[p].age <= op[p].age + 1
      BY DEF AllPrompt
    <2>2. op[p].age \in 0..TTL
      BY <1>o DEF Ops
    <2> QED BY <1>1, <2>1, <2>2, TickOps, CacheAssumption DEF Older
  <1>2. CASE ~Tick /\ op' = op
    BY <1>2 DEF AllPrompt
  <1>3. ASSUME NEW p \in Procs, \A q \in Procs \ {p} : op'[q] = op[q],
               Ends(p) \/ GoesOn(p) \/ Reads(p) \/ Begins(p)
        PROVE  AllPrompt'
    BY <1>3, CacheAssumption DEF AllPrompt, Ends, GoesOn, Reads, Begins, Idle
  <1> QED BY <1>1, <1>2, <1>3, OneOperation

\* A tick takes one from the lifetime of an entry, and makes none active.
LEMMA TickCache ==
    ASSUME TypeOK, Tick
    PROVE  /\ cache'.status = "active" => cache.status = "active"
           /\ cache.ttl > 1 => cache'.status = cache.status /\ cache'.ttl = cache.ttl - 1
  BY TypeNames, CacheAssumption DEF Tick, Entries, Absent

LEMMA SinceStep ==
    ASSUME [Next]_vars, ~Tick
    PROVE  since' = since
  BY DEF Next, vars, history, ReadMiss, Load, Bury, Fill, Eval, EvalFails, Check,
     Confirm, RotateRead, RotateSwap, AdvanceBegin, Advance, AdvanceDenied,
     RevokeRead, Fence, Commit, Final, Abort, ReadHit, AcceptSnapshot

\* Only Fence brings a revocation to its transaction.
LEMMA FencedFirst ==
    ASSUME TypeOK, [Next]_vars, ~Tick, NEW q \in Procs, op'[q].at = "commit"
    PROVE  op'[q] = op[q] \/ FreshDeny(cache')
  <1>1. CASE op' = op
    BY <1>1
  <1>2. ASSUME NEW p \in Procs, \A x \in Procs \ {p} : op'[x] = op[x],
               Ends(p) \/ GoesOn(p) \/ Reads(p) \/ Begins(p)
        PROVE  op'[q] = op[q] \/ FreshDeny(cache')
    <2>1. CASE q # p
      BY <1>2, <2>1
    <2>2. CASE q = p
      <3>1. Fence(p) /\ op'[p] # Idle
        BY <1>2, <2>2 DEF Ends, GoesOn, Reads, Begins, Idle
      <3>2. ~Reject(p)
        BY <3>1, Alone DEF Reject
      <3> QED BY <3>1, <3>2 DEF Fence, Denied, Entry, FreshDeny, Denies
    <2> QED BY <2>1, <2>2
  <1> QED BY <1>1, <1>2, OneOperation

LEMMA FencedStep ==
    ASSUME TypeOK, TypeOK', AllPrompt, AllPrompt', AllFenced, [Next]_vars
    PROVE  AllFenced'
  <1> SUFFICES ASSUME NEW q \in Procs, op'[q].at = "commit"
               PROVE  cache'.status \in Denies /\ cache'.ttl >= TTL - op'[q].age
    BY DEF AllFenced
  <1>a. op[q].age \in 0..TTL /\ op'[q].age \in 0..TTL
    BY TypeNames DEF TypeOK, Ops
  <1>1. CASE Tick
    <2>1. op[q].at = "commit" /\ op[q] # Idle /\ op'[q].age = Older(op[q].age)
      BY <1>1, TickOps DEF Idle
    <2>2. cache.status \in Denies /\ cache.ttl >= TTL - op[q].age
      BY <2>1 DEF AllFenced
    <2>3. op[q].age <= MaxStall /\ op'[q].age <= MaxStall
      BY DEF AllPrompt
    <2>4. op'[q].age = op[q].age + 1
      BY <1>a, <2>1, <2>3, CacheAssumption DEF Older
    <2>5. cache \in Entries /\ cache.ttl \in 0..TTL
      BY TypeNames, CacheAssumption DEF Entries, Absent
    <2>6. cache.ttl > 1
      BY <1>a, <2>2, <2>3, <2>4, <2>5, CacheAssumption
    <2> QED BY <1>1, <1>a, <2>2, <2>4, <2>5, <2>6, TickCache, CacheAssumption
  <1>2. CASE ~Tick
    <2>1. CASE FreshDeny(cache')
      BY <1>a, <2>1, CacheAssumption DEF FreshDeny
    <2>2. CASE ~FreshDeny(cache')
      <3>1. op'[q] = op[q]
        BY <1>2, <2>2, FencedFirst
      <3>2. cache.status \in Denies /\ cache.ttl >= TTL - op[q].age
        BY <3>1 DEF AllFenced
      <3> QED BY <1>2, <2>2, <3>1, <3>2, CacheStep
    <2> QED BY <2>1, <2>2
  <1> QED BY <1>1, <1>2

LEMMA BuriedStep ==
    ASSUME TypeOK, TypeOK', SnapshotsAge, SinceOrder, HeldVersions,
           AllPrompt, AllFenced, Buried, [Next]_vars
    PROVE  Buried'
  <1> SUFFICES ASSUME row'.status = "revoked"
               PROVE  /\ cache'.status # "active"
                      /\ since'[row'.ver] <= MaxStall =>
                            /\ cache'.status \in Denies
                            /\ cache'.ttl >= TTL - MaxStall - since'[row'.ver]
    BY DEF Buried
  <1>t. row.ver \in Versions /\ since[row.ver] \in 0..TTL
    BY TypeNames DEF Rows
  <1>d. "active" \notin Denies
    BY DEF Denies
  <1>1. CASE row' = row /\ Tick
    <2>1. since'[row.ver] = Older(since[row.ver])
      BY <1>1, <1>t DEF Tick, Over
    <2>2. cache'.status # "active"
      BY <1>1, TickCache DEF Buried
    <2>3. ASSUME since'[row.ver] <= MaxStall
          PROVE  cache'.status \in Denies /\ cache'.ttl >= TTL - MaxStall - since'[row.ver]
      <3>1. since'[row.ver] = since[row.ver] + 1 /\ since[row.ver] <= MaxStall
        BY <1>t, <2>1, <2>3, CacheAssumption DEF Older
      <3>2. cache.status \in Denies /\ cache.ttl >= TTL - MaxStall - since[row.ver]
        BY <1>1, <3>1 DEF Buried
      <3>3. cache.ttl \in 0..TTL
        BY TypeNames, CacheAssumption DEF Entries, Absent
      <3>4. cache.ttl > 1
        BY <1>t, <2>3, <3>1, <3>2, <3>3, CacheAssumption
      <3> QED BY <1>1, <1>t, <3>1, <3>2, <3>3, <3>4, TickCache, CacheAssumption
    <2> QED BY <1>1, <2>2, <2>3
  <1>2. CASE row' = row /\ ~Tick
    <2>1. since' = since
      BY <1>2, SinceStep
    <2>2. CASE cache' = cache
      BY <1>2, <2>1, <2>2 DEF Buried
    <2>3. CASE FreshDeny(cache')
      BY <1>2, <1>t, <1>d, <2>1, <2>3, CacheAssumption DEF FreshDeny
    <2>4. ASSUME NEW p \in Procs, op[p].at = "eval" PROVE cache.status \in Denies
      <3>1. Holding(p) /\ op[p].ver \in Versions /\ op[p].age \in 0..TTL
            /\ since[op[p].ver] \in 0..TTL
        BY <2>4, TypeNames DEF Holding, Ops
      <3>2. since[row.ver] <= since[op[p].ver]
        BY <1>t, <3>1 DEF SinceOrder, HeldVersions
      <3>3. since[op[p].ver] <= op[p].age /\ op[p].age <= MaxStall
        BY <3>1 DEF SnapshotsAge, AllPrompt
      <3> QED BY <1>2, <1>t, <3>1, <3>2, <3>3, CacheAssumption DEF Buried
    <2> QED BY <1>2, <2>2, <2>3, <2>4, CacheStep
  <1>3. ASSUME NEW p \in Procs, Commit(p), op[p].at = "commit", row'.ver = row.ver
        PROVE  cache' = cache /\ since' = since /\ cache.status \in Denies
               /\ cache.ttl >= TTL - MaxStall
    <2>1. cache.status \in Denies /\ cache.ttl >= TTL - op[p].age
          /\ op[p].age <= MaxStall
      BY <1>3 DEF AllFenced, AllPrompt
    <2>2. op[p].age \in 0..TTL /\ cache.ttl \in 0..TTL
      BY TypeNames, CacheAssumption DEF Ops, Entries, Absent
    <2> QED BY <1>3, <2>1, <2>2, CacheAssumption DEF Commit, history
  <1>4. cache.ttl \in 0..TTL
    BY TypeNames, CacheAssumption DEF Entries, Absent
  <1> QED BY <1>1, <1>2, <1>3, <1>4, <1>t, <1>d, RowStep, CacheAssumption

\* The conjuncts of LateInv hold in every step.
LEMMA LateStep ==
    ASSUME TypeOK, TypeOK', SnapshotsAge, LateInv, [Next]_vars
    PROVE  LateInv'
  <1>1. SinceOrder' /\ HeldVersions' /\ LateOps'
    BY OrderStep, OpsStep DEF LateInv
  <1>2. ASSUME Calm' PROVE AllPrompt' /\ AllFenced' /\ Buried'
    <2>1. AllPrompt /\ AllFenced /\ Buried
      BY <1>2, CalmBefore DEF LateInv
    <2>2. AllPrompt'
      BY <1>2, <2>1, PromptStep
    <2> QED BY <2>1, <2>2, FencedStep, BuriedStep DEF LateInv
  <1> QED BY <1>1, <1>2 DEF LateInv

\* What is accepted was not revoked when the validation began.
LEMMA AcceptStep ==
    ASSUME TypeOK, LateInv, NoLateAccept, [Next]_vars
    PROVE  NoLateAccept'
  <1> SUFFICES ASSUME Calm' PROVE ~last'.late
    BY DEF NoLateAccept, Calm
  <1>c. Calm
    BY CalmBefore
  <1>n. last' = Nothing => ~last'.late
    BY DEF Nothing
  <1>1. CASE ReadHit
    <2>1. CASE cache.status \in Denies
      BY <1>1, <1>n, <2>1 DEF ReadHit
    <2>2. CASE cache.status \notin Denies
      <3>1. cache.status = "active"
        BY <1>1, <2>2, TypeNames, EntryFields DEF ReadHit
      <3>2. row.status = "active"
        BY <1>c, <3>1, TypeNames DEF LateInv, Buried, Rows
      <3> QED BY <1>1, <2>2, <3>2 DEF ReadHit
    <2> QED BY <2>1, <2>2
  <1>2. ASSUME NEW p \in Procs, NEW source, Accept(p, source),
               op[p].at \in {"filled", "confirm", "eval"}
        PROVE  ~last'.late
    <2>1. ~op[p].late
      BY <1>2 DEF LateInv, LateOps
    <2> QED BY <1>2, <2>1 DEF Accept
  <1>3. ASSUME NEW p \in Procs, Check(p) \/ Confirm(p) \/ EvalFails(p)
        PROVE  ~last'.late
    BY <1>2, <1>3, <1>n DEF Check, Confirm, EvalFails, AcceptSnapshot, Move, Reject
  <1>4. ASSUME NEW p \in Procs,
               \/ ReadMiss(p) \/ Load(p) \/ Bury(p) \/ Fill(p) \/ Eval(p)
               \/ RotateRead(p) \/ RotateSwap(p)
               \/ AdvanceBegin(p) \/ Advance(p) \/ AdvanceDenied(p)
               \/ RevokeRead(p) \/ Fence(p) \/ Commit(p) \/ Final(p) \/ Abort(p)
        PROVE  ~last'.late
    BY <1>4, <1>n DEF ReadMiss, Load, Bury, Fill, Eval, RotateRead, RotateSwap,
       AdvanceBegin, Advance, AdvanceDenied, RevokeRead, Fence, Commit, Final,
       Abort, Begin, Move, Reject
  <1>5. CASE Tick
    BY <1>5, <1>n DEF Tick
  <1>6. CASE UNCHANGED vars
    BY <1>6, <1>c DEF vars, NoLateAccept, Calm
  <1> QED BY <1>1, <1>3, <1>4, <1>5, <1>6 DEF Next

LEMMA LateInit == Init => LateInv /\ NoLateAccept
  BY Constants, CacheAssumption
  DEF Init, LateInv, NoLateAccept, SinceOrder, HeldVersions, LateOps, Calm,
      AllPrompt, AllFenced, Buried, Holding, Idle, Nothing

\* The deny fence works at once: as long as no operation takes longer than
\* MaxStall and Redis does not fail, no validation that begins after a
\* revocation was committed accepts the session, whatever fills of the cache
\* are under way and wherever processes die.
THEOREM RevokedAtOnce == Spec => []NoLateAccept
  <1>1. /\ TypeOK /\ TypeOK' /\ SnapshotsAge /\ LateInv /\ NoLateAccept
        /\ [Next]_vars
        => LateInv' /\ NoLateAccept'
    BY LateStep, AcceptStep
  <1> QED BY <1>1, LateInit, SessionTypes, SnapshotsGrowOld, PTL DEF Spec

-----------------------------------------------------------------------------
(* The version fence works at once. *)

\* What an advance has returned was committed, and no operation began with
\* more.
ToldIsCommitted ==
    /\ told <= row.ver
    /\ \A p \in Procs : op[p].floor <= told

\* The stages in which an operation has a snapshot to accept.
Snapshot == {"swap", "fill", "eval", "filled", "confirm"}

\* A snapshot is read after the operation began.
AboveFloor == \A p \in Procs : op[p].at \in Snapshot => op[p].floor <= op[p].ver

\* An advance has been at work since it committed its version.
AdvanceAges ==
    \A p \in Procs : op[p].kind = "advance" =>
        /\ op[p].at \in {"advance", "fill", "eval", "filled", "confirm"}
        /\ op[p].at \in {"fill", "eval", "filled"} =>
             op[p].ver > 1 /\ since[op[p].ver - 1] <= op[p].age

\* Only a snapshot whose deadline has passed is confirmed in the database.
ConfirmsStale == \A p \in Procs : op[p].at = "confirm" => op[p].age = TTL

\* For as long as an operation may hold the version before w, Redis has an
\* entry that refuses it.
Shielded(w) ==
    w > 1 /\ since[w - 1] <= MaxStall =>
        cache.ver >= w /\ cache.ttl >= TTL - MaxStall - since[w - 1]

ShieldInv ==
    /\ cache.status = "active" => told <= cache.ver
    /\ Shielded(told)
    /\ \A p \in Procs : op[p].at = "filled" => Shielded(op[p].ver)

VersionInv ==
    /\ ToldIsCommitted /\ AboveFloor /\ AdvanceAges /\ ConfirmsStale
    /\ Calm => ShieldInv

\* told goes up when an advance ends, to the version it has committed.
LEMMA ToldStep ==
    ASSUME TypeOK, [Next]_vars
    PROVE  \/ told' = told
           \/ \E p \in Procs : /\ op[p].kind = "advance" /\ told' = op[p].ver
                               /\ told < told' /\ UNCHANGED <<row, cache, since>>
                               /\ op' = [op EXCEPT ![p] = Idle]
                               /\ \/ op[p].at = "filled"
                                  \/ op[p].at = "confirm" /\ op[p].ver = row.ver
  <1>1. ASSUME NEW p \in Procs, AcceptSnapshot(p, "database")
        PROVE  \/ told' = told
               \/ /\ op[p].kind = "advance" /\ told' = op[p].ver /\ told < told'
                  /\ op' = [op EXCEPT ![p] = Idle] /\ since' = since
    BY <1>1 DEF AcceptSnapshot, Accept
  <1>2. ASSUME NEW p \in Procs, Check(p)
        PROVE  \/ told' = told
               \/ AcceptSnapshot(p, "database") /\ op[p].at = "filled"
                  /\ UNCHANGED <<row, cache>>
    BY <1>2 DEF Check, history
  <1>3. ASSUME NEW p \in Procs, Confirm(p)
        PROVE  \/ told' = told
               \/ AcceptSnapshot(p, "database") /\ op[p].at = "confirm"
                  /\ op[p].ver = row.ver /\ UNCHANGED <<row, cache>>
    BY <1>3 DEF Confirm, history
  <1>4. ASSUME NEW p \in Procs, Check(p) \/ Confirm(p), told' # told
        PROVE  /\ op[p].kind = "advance" /\ told' = op[p].ver
               /\ told < told' /\ UNCHANGED <<row, cache, since>>
               /\ op' = [op EXCEPT ![p] = Idle]
               /\ \/ op[p].at = "filled"
                  \/ op[p].at = "confirm" /\ op[p].ver = row.ver
    BY <1>1, <1>2, <1>3, <1>4
  <1>5. CASE told' = told
    BY <1>5
  <1> QED BY <1>4, <1>5 DEF Next, vars, history, ReadMiss, Load, Bury, Fill, Eval,
     EvalFails, RotateRead, RotateSwap, AdvanceBegin, Advance, AdvanceDenied,
     RevokeRead, Fence, Commit, Final, Abort, ReadHit, Tick

\* The order of versions survives every step, stalled or not.
LEMMA VersionOps ==
    ASSUME TypeOK, TypeOK', SnapshotsAge, HeldVersions, ToldIsCommitted, AboveFloor,
           AdvanceAges, ConfirmsStale, [Next]_vars
    PROVE  ToldIsCommitted' /\ AboveFloor' /\ AdvanceAges' /\ ConfirmsStale'
  <1>o. \A p \in Procs : op[p] \in Ops /\ op'[p] \in Ops
    BY TypeNames DEF TypeOK, Ops, Kinds, Stages
  <1>v. \A p \in Procs : /\ op[p].ver \in Versions /\ op'[p].ver \in Versions
                         /\ op[p].floor \in Versions /\ op'[p].floor \in Versions
                         /\ op[p].age \in 0..TTL /\ op'[p].age \in 0..TTL
    BY <1>o DEF Ops
  <1>w. row.ver \in Versions /\ row'.ver \in Versions
    BY TypeNames DEF Rows, TypeOK
  <1>r. row.ver \in Versions /\ row'.ver \in Versions /\ row.ver <= row'.ver
    BY <1>w, RowStep DEF Versions
  <1>t. told \in Versions /\ told' \in Versions
    BY DEF TypeOK
  <1>i. Idle.floor = 1 /\ Idle.at = "idle" /\ Idle.kind = "none"
    BY DEF Idle
  <1>s. since \in [Versions -> 0..TTL] /\ since' \in [Versions -> 0..TTL]
    BY DEF TypeOK
  <1>1. told <= told' /\ told' <= row'.ver
    <2>1. CASE told' = told
      BY <1>r, <1>t, <2>1 DEF ToldIsCommitted, Versions
    <2>2. ASSUME NEW p \in Procs, told' = op[p].ver, told < told', row' = row,
                 op[p].at = "filled" \/ op[p].ver = row.ver
          PROVE  told <= told' /\ told' <= row'.ver
      BY <1>r, <1>t, <1>v, <2>2 DEF HeldVersions, Holding, Versions
    <2> QED BY <2>1, <2>2, ToldStep
  <1>2. CASE Tick
    <2>1. ToldIsCommitted'
      BY <1>1, <1>2, <1>v, <1>t, TickOps DEF ToldIsCommitted, Versions
    <2>2. AboveFloor' /\ ConfirmsStale'
      BY <1>2, <1>v, TickOps, CacheAssumption
      DEF AboveFloor, ConfirmsStale, Older, Idle
    <2>3. AdvanceAges'
      <3> SUFFICES ASSUME NEW p \in Procs, op'[p].kind = "advance"
                   PROVE  /\ op'[p].at \in {"advance", "fill", "eval", "filled", "confirm"}
                          /\ op'[p].at \in {"fill", "eval", "filled"} =>
                               op'[p].ver > 1 /\ since'[op'[p].ver - 1] <= op'[p].age
        BY DEF AdvanceAges
      <3>1. /\ op[p].kind = "advance" /\ op[p] # Idle
            /\ op'[p].at = op[p].at /\ op'[p].ver = op[p].ver
            /\ op'[p].age = Older(op[p].age)
        BY <1>2, TickOps DEF Idle
      <3>2. ASSUME op[p].at \in {"fill", "eval", "filled"}
            PROVE  op[p].ver > 1 /\ since'[op[p].ver - 1] <= Older(op[p].age)
        <4>1. op[p].ver > 1 /\ since[op[p].ver - 1] <= op[p].age
          BY <3>1, <3>2 DEF AdvanceAges
        <4>2. op[p].ver - 1 \in Versions
          <5>1. op[p].ver \in Versions
            BY <1>v
          <5> QED BY <4>1, <5>1, CacheAssumption DEF Versions
        <4>3. since'[op[p].ver - 1] \in {0, Older(since[op[p].ver - 1])}
          BY <1>2, <4>2 DEF Tick
        <4>4. since[op[p].ver - 1] \in 0..TTL
          BY <1>s, <4>2
        <4> QED BY <1>v, <4>1, <4>3, <4>4, CacheAssumption DEF Older
      <3> QED BY <3>1, <3>2 DEF AdvanceAges
    <2> QED BY <2>1, <2>2, <2>3
  <1>3. CASE ~Tick /\ op' = op
    <2>1. since' = since
      BY <1>3, SinceStep
    <2> QED BY <1>1, <1>3, <1>v, <1>t, <2>1
            DEF ToldIsCommitted, AboveFloor, AdvanceAges, ConfirmsStale, Versions
  <1>4. ASSUME ~Tick, NEW p \in Procs, \A q \in Procs \ {p} : op'[q] = op[q],
               Ends(p) \/ GoesOn(p) \/ Reads(p) \/ Begins(p)
        PROVE  ToldIsCommitted' /\ AboveFloor' /\ AdvanceAges' /\ ConfirmsStale'
    <2>0. since' = since
      BY <1>4, SinceStep
    <2>1. \A q \in Procs \ {p} :
             /\ op'[q].floor <= told'
             /\ op'[q].at \in Snapshot => op'[q].floor <= op'[q].ver
             /\ op'[q].at = "confirm" => op'[q].age = TTL
             /\ op'[q].kind = "advance" =>
                  /\ op'[q].at \in {"advance", "fill", "eval", "filled", "confirm"}
                  /\ op'[q].at \in {"fill", "eval", "filled"} =>
                       op'[q].ver > 1 /\ since'[op'[q].ver - 1] <= op'[q].age
      BY <1>1, <1>4, <1>v, <1>t, <2>0
      DEF ToldIsCommitted, AboveFloor, AdvanceAges, ConfirmsStale, Versions
    <2>2. /\ op'[p].floor <= told'
          /\ op'[p].at \in Snapshot => op'[p].floor <= op'[p].ver
          /\ op'[p].at = "confirm" => op'[p].age = TTL
          /\ op'[p].kind = "advance" =>
               /\ op'[p].at \in {"advance", "fill", "eval", "filled", "confirm"}
               /\ op'[p].at \in {"fill", "eval", "filled"} =>
                    op'[p].ver > 1 /\ since'[op'[p].ver - 1] <= op'[p].age
      <3>1. CASE Ends(p)
        BY <1>i, <1>t, <3>1 DEF Ends, Snapshot, Versions
      <3>2. CASE GoesOn(p)
        BY <1>1, <1>t, <1>v, <2>0, <3>2
        DEF GoesOn, Stale, ToldIsCommitted, AboveFloor, AdvanceAges, ConfirmsStale,
            Snapshot, Versions
      <3>3. CASE Reads(p)
        <4>1. op[p].floor <= told /\ told <= row'.ver
          BY <1>1, <1>t, <1>r DEF ToldIsCommitted, Versions
        <4>2. /\ op'[p].floor <= told' /\ op'[p].floor <= op'[p].ver
              /\ op'[p].at \in {"fill", "bury"}
          BY <1>1, <1>t, <1>v, <1>r, <3>3, <4>1 DEF Reads, Versions
        <4>3. ASSUME op'[p].kind = "advance"
              PROVE  /\ op'[p].at = "fill"
                     /\ op'[p].ver > 1 /\ since'[op'[p].ver - 1] <= op'[p].age
          <5>1. /\ op'[p].at = "fill" /\ op'[p].ver = row.ver + 1
            BY <3>3, <4>3 DEF Reads, AdvanceAges
          <5>2. row.status = "active"
            BY <3>3, <4>3 DEF Reads, AdvanceAges
          <5>3. since[row.ver] = 0
            BY <1>r, <5>2 DEF SnapshotsAge, Over, Versions
          <5> QED BY <1>r, <1>v, <2>0, <5>1, <5>3 DEF Versions
        <4> QED BY <4>2, <4>3 DEF Snapshot
      <3>4. CASE Begins(p)
        BY <1>1, <1>t, <1>r, <3>4
        DEF Begins, ToldIsCommitted, Snapshot, Versions
      <3> QED BY <1>4, <3>1, <3>2, <3>3, <3>4
    <2> QED BY <1>1, <2>1, <2>2
            DEF ToldIsCommitted, AboveFloor, AdvanceAges, ConfirmsStale
  <1> QED BY <1>2, <1>3, <1>4, OneOperation

\* An entry is replaced by a tombstone with its whole lifetime, or by a fill
\* that the version fence lets through; its version never goes down.
LEMMA WriteStep ==
    ASSUME TypeOK, [Next]_vars, ~Tick
    PROVE  \/ cache' = cache
           \/ FreshDeny(cache') /\ cache.ver <= cache'.ver
           \/ \E p \in Procs : /\ op[p].at = "eval" /\ cache.ver <= op[p].ver
                               /\ cache' = Filled(op[p].ver, op[p].age)
  <1>c. cache.ver \in Int
    BY TypeNames, CacheAssumption DEF Entries, Absent, Versions
  <1>o. \A p \in Procs : op[p].ver \in Int
    BY TypeNames DEF Ops, Versions
  <1>1. ASSUME NEW s \in Denies, NEW v \in Int, cache' = Denied(s, v)
        PROVE  cache' = cache \/ (FreshDeny(cache') /\ cache.ver <= cache'.ver)
    BY <1>1, <1>c DEF Denied, Refused, Entry, FreshDeny
  <1>2. "revoked" \in Denies /\ "revoking" \in Denies
    BY DEF Denies
  <1>3. ASSUME NEW p \in Procs, Bury(p) \/ Fence(p) \/ Final(p)
        PROVE  cache' = cache \/ (FreshDeny(cache') /\ cache.ver <= cache'.ver)
    BY <1>1, <1>2, <1>3, <1>o DEF Bury, Fence, Final
  <1>4. ASSUME NEW p \in Procs, Eval(p) \/ EvalFails(p)
        PROVE  \/ cache' = cache
               \/ /\ op[p].at = "eval" /\ cache.ver <= op[p].ver
                  /\ cache' = Filled(op[p].ver, op[p].age)
    BY <1>4, <1>c, <1>o DEF Eval, EvalFails, Refused
  <1>5. CASE cache' = cache
    BY <1>5
  <1> QED BY <1>3, <1>4, <1>5 DEF Next, vars, ReadMiss, Load, Fill,
     Check, Confirm, RotateRead, RotateSwap, AdvanceBegin, Advance,
     AdvanceDenied, RevokeRead, Commit, Abort, ReadHit

\* The numbers in an entry, absent or not.
LEMMA EntryNumbers ==
    \A c \in Entries : c.ver \in Int /\ c.ttl \in 0..TTL
  BY CacheAssumption DEF Entries, Absent, Versions

\* A tick leaves the version of an entry that does not expire alone.
LEMMA TickVersion ==
    ASSUME TypeOK, Tick
    PROVE  /\ cache.ttl > 1 => cache'.ver = cache.ver
           /\ cache'.status = "active" =>
                cache.status = "active" /\ cache'.ver = cache.ver
  BY TypeNames, CacheAssumption DEF Tick, Entries, Absent

\* The entry that a prompt operation writes has most of its lifetime.
LEMMA PromptFill ==
    ASSUME TypeOK, AllPrompt, NEW p \in Procs
    PROVE  /\ Filled(op[p].ver, op[p].age).ver = op[p].ver
           /\ Filled(op[p].ver, op[p].age).ttl \in Int
           /\ Filled(op[p].ver, op[p].age).ttl >= TTL - MaxStall
  <1>1. op[p].age \in 0..TTL /\ op[p].age <= MaxStall
    BY TypeNames DEF Ops, AllPrompt
  <1>2. op[p].age # TTL
    BY <1>1, CacheAssumption
  <1>3. Filled(op[p].ver, op[p].age) = Entry("active", op[p].ver, TTL - op[p].age)
    BY <1>2 DEF Filled, Lifetime
  <1> QED BY <1>1, <1>3, CacheAssumption DEF Entry

\* The entry that refuses the version before w stays for long enough,
\* whatever is written over it.
LEMMA ShieldKeeps ==
    ASSUME TypeOK, TypeOK', AllPrompt, [Next]_vars,
           NEW w \in Versions, w <= row.ver, Shielded(w)
    PROVE  Shielded(w)'
  <1>r. row.ver \in Versions
    BY TypeNames DEF Rows
  <1>c. /\ cache.ver \in Int /\ cache.ttl \in 0..TTL
        /\ cache'.ver \in Int /\ cache'.ttl \in 0..TTL
    BY EntryNumbers DEF TypeOK
  <1> SUFFICES ASSUME w > 1, since'[w - 1] <= MaxStall
               PROVE  cache'.ver >= w /\ cache'.ttl >= TTL - MaxStall - since'[w - 1]
    BY DEF Shielded
  <1>w. w - 1 \in Versions
    BY CacheAssumption DEF Versions
  <1>s. since[w - 1] \in 0..TTL /\ since'[w - 1] \in 0..TTL
    BY <1>w DEF TypeOK
  <1>1. CASE Tick
    <2>1. since'[w - 1] = Older(since[w - 1])
      <3>1. Over(w - 1)
        BY <1>r, <1>w DEF Over, Versions
      <3> QED BY <1>1, <1>w, <3>1 DEF Tick
    <2>2. since'[w - 1] = since[w - 1] + 1
      BY <1>s, <2>1, CacheAssumption DEF Older
    <2>3. cache.ver >= w /\ cache.ttl >= TTL - MaxStall - since[w - 1]
      BY <1>s, <2>2, CacheAssumption DEF Shielded
    <2>4. cache.ttl > 1
      BY <1>s, <1>c, <2>2, <2>3, CacheAssumption
    <2>5. cache'.ver = cache.ver /\ cache'.ttl = cache.ttl - 1
      BY <1>1, <2>4, TickCache, TickVersion
    <2> QED BY <1>s, <1>c, <2>2, <2>3, <2>5, CacheAssumption
  <1>2. CASE ~Tick
    <2>1. since' = since
      BY <1>2, SinceStep
    <2>2. cache.ver >= w /\ cache.ttl >= TTL - MaxStall - since[w - 1]
      BY <2>1 DEF Shielded
    <2>3. CASE cache' = cache
      BY <2>1, <2>2, <2>3
    <2>4. CASE FreshDeny(cache') /\ cache.ver <= cache'.ver
      BY <1>c, <1>s, <2>1, <2>2, <2>4, CacheAssumption DEF FreshDeny, Versions
    <2>5. ASSUME NEW p \in Procs, cache.ver <= op[p].ver,
                 cache' = Filled(op[p].ver, op[p].age)
          PROVE  cache'.ver >= w /\ cache'.ttl >= TTL - MaxStall - since[w - 1]
      <3>1. cache'.ver = op[p].ver /\ cache'.ttl >= TTL - MaxStall
        BY <2>5, PromptFill
      <3> QED BY <1>c, <1>s, <2>2, <2>5, <3>1, CacheAssumption DEF Versions
    <2> QED BY <1>2, <2>1, <2>3, <2>4, <2>5, WriteStep
  <1> QED BY <1>1, <1>2

\* Only Eval brings an operation to the check after the script, and it has
\* then written its snapshot.
LEMMA FilledFirst ==
    ASSUME TypeOK, [Next]_vars, ~Tick, NEW q \in Procs, op'[q].at = "filled"
    PROVE  \/ op'[q] = op[q]
           \/ op'[q].ver = op[q].ver /\ cache' = Filled(op[q].ver, op[q].age)
  <1>1. CASE op' = op
    BY <1>1
  <1>2. ASSUME NEW p \in Procs, \A x \in Procs \ {p} : op'[x] = op[x],
               Ends(p) \/ GoesOn(p) \/ Reads(p) \/ Begins(p)
        PROVE  \/ op'[q] = op[q]
               \/ op'[q].ver = op[q].ver /\ cache' = Filled(op[q].ver, op[q].age)
    <2>1. CASE q # p
      BY <1>2, <2>1
    <2>2. CASE q = p
      <3>1. Eval(p) /\ op'[p] # Idle /\ op'[p].ver = op[p].ver
        BY <1>2, <2>2 DEF Ends, GoesOn, Reads, Begins, Idle
      <3>2. ~Reject(p)
        BY <3>1, Alone DEF Reject
      <3> QED BY <2>2, <3>1, <3>2 DEF Eval
    <2> QED BY <2>1, <2>2
  <1> QED BY <1>1, <1>2, OneOperation

\* A fill that is let through is not older than what an advance has returned.
LEMMA FillIsCurrent ==
    ASSUME TypeOK, SnapshotsAge, SinceOrder, AllPrompt, Shielded(told),
           NEW p \in Procs, op[p].at = "eval", cache.ver <= op[p].ver
    PROVE  told <= op[p].ver
  <1>1. /\ Holding(p) /\ op[p].ver \in Versions /\ op[p].age \in 0..TTL
        /\ since[op[p].ver] \in 0..TTL /\ told \in Versions
    BY TypeNames DEF Holding, Ops
  <1>2. since[op[p].ver] <= op[p].age /\ op[p].age <= MaxStall
    BY <1>1 DEF SnapshotsAge, AllPrompt
  <1>c. cache.ver \in Int
    BY TypeNames, CacheAssumption DEF Entries, Absent, Versions
  <1> SUFFICES ASSUME op[p].ver < told PROVE FALSE
    BY <1>1 DEF Versions
  <1>3. told > 1 /\ told - 1 \in Versions /\ op[p].ver <= told - 1
    BY <1>1, CacheAssumption DEF Versions
  <1>4. since[told - 1] <= since[op[p].ver] /\ since[told - 1] \in 0..TTL
    BY <1>1, <1>3, TypeNames DEF SinceOrder
  <1>5. since[told - 1] <= MaxStall
    BY <1>1, <1>2, <1>4, CacheAssumption
  <1>6. cache.ver >= told
    BY <1>3, <1>5 DEF Shielded
  <1> QED BY <1>1, <1>3, <1>6, <1>c DEF Versions

\* The shield goes up with every fill and every advance, and stays.
LEMMA ShieldStep ==
    ASSUME TypeOK, TypeOK', SnapshotsAge, SinceOrder, HeldVersions, AllPrompt,
           ToldIsCommitted, AdvanceAges, ConfirmsStale, ShieldInv, [Next]_vars
    PROVE  ShieldInv'
  <1>v. \A p \in Procs : op[p].ver \in Versions /\ op[p].age \in 0..TTL
    BY TypeNames DEF Ops
  <1>t. told \in Versions /\ told' \in Versions
    BY DEF TypeOK
  <1>h. \A p \in Procs : op[p].at = "filled" => op[p].ver <= row.ver
    BY DEF HeldVersions, Holding
  <1>c. cache.ver \in Int /\ cache'.ver \in Int /\ cache'.ttl \in Int
    BY EntryNumbers DEF TypeOK
  \* told goes up only to the version of an advance that has written it.
  <1>1. ASSUME told' # told
        PROVE  \E p \in Procs : /\ op[p].kind = "advance" /\ told' = op[p].ver
                                /\ UNCHANGED <<cache, since>>
                                /\ op[p].at = "filled"
    <2>1. PICK p \in Procs :
             /\ op[p].kind = "advance" /\ told' = op[p].ver
             /\ UNCHANGED <<row, cache, since>>
             /\ op[p].at = "filled" \/ op[p].at = "confirm"
      BY <1>1, ToldStep
    <2>2. op[p].at # "confirm"
      <3>1. op[p].age <= MaxStall /\ op[p].age \in 0..TTL
        BY <1>v DEF AllPrompt
      <3> QED BY <3>1, CacheAssumption DEF ConfirmsStale
    <2> QED BY <2>1, <2>2
  <1>2. Shielded(told)'
    <2>1. CASE told' = told
      <3>1. Shielded(told) /\ told <= row.ver
        BY DEF ShieldInv, ToldIsCommitted
      <3>2. ASSUME NEW w \in Versions, w <= row.ver, Shielded(w) PROVE Shielded(w)'
        BY <3>2, ShieldKeeps
      <3>3. ASSUME NEW w \in Versions, Shielded(w)', w = told' PROVE Shielded(told)'
        BY <3>3 DEF Shielded
      <3> QED BY <1>t, <2>1, <3>1, <3>2, <3>3
    <2>2. CASE told' # told
      BY <1>1, <2>2 DEF ShieldInv, Shielded
    <2> QED BY <2>1, <2>2
  <1>3. ASSUME NEW q \in Procs, op'[q].at = "filled" PROVE Shielded(op[q].ver)'
    <2>1. CASE op'[q].at = op[q].at /\ op'[q].ver = op[q].ver
      <3>1. Shielded(op[q].ver) /\ op[q].ver <= row.ver
        BY <1>3, <1>h, <2>1 DEF ShieldInv
      <3>2. ASSUME NEW w \in Versions, w <= row.ver, Shielded(w) PROVE Shielded(w)'
        BY <3>2, ShieldKeeps
      <3>3. ASSUME NEW w \in Versions, Shielded(w)', w = op'[q].ver
            PROVE  Shielded(op[q].ver)'
        BY <3>3 DEF Shielded
      <3> QED BY <1>v, <2>1, <3>1, <3>2, <3>3
    <2>2. CASE ~Tick /\ op'[q].ver = op[q].ver
               /\ cache' = Filled(op[q].ver, op[q].age)
      <3>1. cache'.ver = op'[q].ver /\ cache'.ttl >= TTL - MaxStall
        BY <2>2, PromptFill
      <3>2. ASSUME op'[q].ver > 1 PROVE since'[op'[q].ver - 1] \in 0..TTL
        <4>1. op'[q].ver \in Versions
          BY <1>v, <2>2
        <4>2. op'[q].ver - 1 \in Versions
          BY <3>2, <4>1, CacheAssumption DEF Versions
        <4> QED BY <4>2 DEF TypeOK
      <3>3. op'[q].ver \in Int
        BY <1>v, <2>2 DEF Versions
      <3> QED BY <1>c, <3>1, <3>2, <3>3, CacheAssumption DEF Shielded
    <2>3. CASE Tick
      BY <2>1, <2>3, TickOps
    <2> QED BY <1>3, <2>1, <2>2, <2>3, FilledFirst
  <1>4. cache'.status = "active" => told' <= cache'.ver
    <2>1. CASE told' # told
      <3>1. PICK p \in Procs : /\ op[p].kind = "advance" /\ told' = op[p].ver
                               /\ cache' = cache /\ op[p].at = "filled"
        BY <1>1, <2>1
      <3>2. op[p].ver > 1 /\ since[op[p].ver - 1] <= op[p].age /\ op[p].age <= MaxStall
        BY <3>1 DEF AdvanceAges, AllPrompt
      <3>3. op[p].ver \in Versions /\ op[p].age \in 0..TTL
        BY <1>v
      <3>4. op[p].ver - 1 \in Versions
        BY <3>2, <3>3, CacheAssumption DEF Versions
      <3>5. since[op[p].ver - 1] \in 0..TTL
        BY <3>4 DEF TypeOK
      <3>6. since[op[p].ver - 1] <= MaxStall
        BY <3>2, <3>3, <3>5, CacheAssumption
      <3>7. cache.ver >= op[p].ver
        BY <3>1, <3>2, <3>6 DEF ShieldInv, Shielded
      <3> QED BY <1>c, <3>1, <3>3, <3>7 DEF Versions
    <2>2. CASE told' = told /\ Tick
      BY <2>2, TickVersion DEF ShieldInv
    <2>3. CASE told' = told /\ ~Tick
      <3>1. CASE cache' = cache
        BY <2>3, <3>1 DEF ShieldInv
      <3>2. CASE FreshDeny(cache')
        BY <3>2 DEF FreshDeny, Denies
      <3>3. ASSUME NEW p \in Procs, op[p].at = "eval", cache.ver <= op[p].ver,
                   cache' = Filled(op[p].ver, op[p].age)
            PROVE  told' <= cache'.ver
        <4>1. told <= op[p].ver
          BY <3>3, FillIsCurrent DEF ShieldInv
        <4>2. cache'.ver = op[p].ver
          BY <3>3, PromptFill
        <4> QED BY <2>3, <4>1, <4>2
      <3> QED BY <2>3, <3>1, <3>2, <3>3, WriteStep
    <2> QED BY <2>1, <2>2, <2>3
  <1> QED BY <1>2, <1>3, <1>4 DEF ShieldInv

\* The conjuncts of VersionInv hold in every step.
LEMMA VersionStep ==
    ASSUME TypeOK, TypeOK', SnapshotsAge, LateInv, VersionInv, [Next]_vars
    PROVE  VersionInv'
  <1>1. ToldIsCommitted' /\ AboveFloor' /\ AdvanceAges' /\ ConfirmsStale'
    BY VersionOps DEF LateInv, VersionInv
  <1>2. ASSUME Calm' PROVE ShieldInv'
    <2>1. Calm
      BY <1>2, CalmBefore
    <2> QED BY <2>1, ShieldStep DEF LateInv, VersionInv
  <1> QED BY <1>1, <1>2 DEF VersionInv

\* What is accepted is no older than what had been returned when the
\* validation began.
LEMMA CurrentStep ==
    ASSUME TypeOK, VersionInv, NoOldVersion, [Next]_vars
    PROVE  NoOldVersion'
  <1> SUFFICES ASSUME Calm' PROVE ~last'.old
    BY DEF NoOldVersion, Calm
  <1>c. Calm
    BY CalmBefore
  <1>n. last' = Nothing => ~last'.old
    BY DEF Nothing
  <1>t. told \in Int /\ cache.ver \in Int
    BY EntryNumbers DEF TypeOK, Versions
  <1>1. CASE ReadHit
    <2>1. CASE cache.status \in Denies
      BY <1>1, <1>n, <2>1 DEF ReadHit
    <2>2. CASE cache.status \notin Denies
      <3>1. cache.status = "active"
        BY <1>1, <2>2, TypeNames, EntryFields DEF ReadHit
      <3>2. told <= cache.ver
        BY <1>c, <3>1 DEF VersionInv, ShieldInv
      <3>3. ~(cache.ver < told)
        BY <1>t, <3>2
      <3> QED BY <1>1, <2>2, <3>3 DEF ReadHit
    <2> QED BY <2>1, <2>2
  <1>2. ASSUME NEW p \in Procs, NEW source, Accept(p, source),
               op[p].at \in {"filled", "confirm", "eval"}
        PROVE  ~last'.old
    <2>1. op[p].floor <= op[p].ver /\ op[p].floor \in Int /\ op[p].ver \in Int
      BY <1>2, TypeNames DEF VersionInv, AboveFloor, Snapshot, Ops, Versions
    <2>2. ~(op[p].ver < op[p].floor)
      BY <2>1
    <2> QED BY <1>2, <2>2 DEF Accept
  <1>3. ASSUME NEW p \in Procs, Check(p) \/ Confirm(p) \/ EvalFails(p)
        PROVE  ~last'.old
    BY <1>2, <1>3, <1>n DEF Check, Confirm, EvalFails, AcceptSnapshot, Move, Reject
  <1>4. ASSUME NEW p \in Procs,
               \/ ReadMiss(p) \/ Load(p) \/ Bury(p) \/ Fill(p) \/ Eval(p)
               \/ RotateRead(p) \/ RotateSwap(p)
               \/ AdvanceBegin(p) \/ Advance(p) \/ AdvanceDenied(p)
               \/ RevokeRead(p) \/ Fence(p) \/ Commit(p) \/ Final(p) \/ Abort(p)
        PROVE  ~last'.old
    BY <1>4, <1>n DEF ReadMiss, Load, Bury, Fill, Eval, RotateRead, RotateSwap,
       AdvanceBegin, Advance, AdvanceDenied, RevokeRead, Fence, Commit, Final,
       Abort, Begin, Move, Reject
  <1>5. CASE Tick
    BY <1>5, <1>n DEF Tick
  <1>6. CASE UNCHANGED vars
    BY <1>6, <1>c DEF vars, NoOldVersion, Calm
  <1> QED BY <1>1, <1>3, <1>4, <1>5, <1>6 DEF Next

LEMMA VersionInit == Init => VersionInv /\ NoOldVersion
  BY Constants, CacheAssumption
  DEF Init, VersionInv, NoOldVersion, ToldIsCommitted, AboveFloor, AdvanceAges,
      ConfirmsStale, ShieldInv, Shielded, Snapshot, Absent, Idle, Nothing

\* The version fence works at once: as long as no operation takes longer than
\* MaxStall and Redis does not fail, a validation that begins after
\* AdvanceUserSessionAuthVersion has returned does not accept a version before
\* the one it returned, from Redis or from a snapshot of its own.
THEOREM OldVersionsRefused == Spec => []NoOldVersion
  <1>1. TypeOK /\ TypeOK' /\ SnapshotsAge /\ LateInv /\ NoLateAccept /\ [Next]_vars
        => LateInv' /\ NoLateAccept'
    BY LateStep, AcceptStep
  <1>2. Spec => []LateInv
    BY <1>1, LateInit, SessionTypes, SnapshotsGrowOld, PTL DEF Spec
  <1>3. /\ TypeOK /\ TypeOK' /\ SnapshotsAge /\ LateInv /\ VersionInv /\ NoOldVersion
        /\ [Next]_vars
        => VersionInv' /\ NoOldVersion'
    BY VersionStep, CurrentStep
  <1> QED BY <1>2, <1>3, VersionInit, SessionTypes, SnapshotsGrowOld, PTL DEF Spec
=============================================================================
