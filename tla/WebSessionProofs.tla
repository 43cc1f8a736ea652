-------------------------- MODULE WebSessionProofs --------------------------
(***************************************************************************)
(* Theorems about WebSession, for any number of tabs, logins, events and   *)
(* faults.                                                                 *)
(***************************************************************************)
EXTENDS WebSession, FiniteSetTheorems, TLAPS

\* What TypeOK leaves open: an answer with a bundle, and a change that comes
\* back, name a session.
Named ==
    \A t \in Tabs :
        /\ page[t].flight.ans.kind = "bundle" => page[t].flight.ans.sid \in Sids
        /\ page[t].change.at = "back" => page[t].change.sid \in Sids

-----------------------------------------------------------------------------
(* Types. *)

Rows == [status: {"absent", "active", "revoked"}, gen: Nat, prev: Nat \cup {-1},
         grace: BOOLEAN, ver: Nat, auth: Nat,
         why: {"none", "logout", "refresh_reuse", "user_revoked",
               "user_security_changed", "changed"}]

SidsOrNone == Sids \cup {NoSid}

Answers == [kind: AnswerKinds, sid: SidsOrNone, ver: Nat, gen: Nat]

Calls == [at: {"none", "sent", "wait", "first", "resent"}, single: BOOLEAN,
          tok: Bundles]

Leaves == [at: {"none", "sent", "back", "wait"}, again: BOOLEAN, tok: Bundles,
           ck: Cookies, clears: BOOLEAN, ans: {"none", "ok", "mismatch"}]

Changes == [at: {"none", "bumped", "back"}, sid: SidsOrNone, ver: Nat]

FlightStages == {"none", "queued", "sent", "checked", "back"}

FlightSet == [at: FlightStages, current: BOOLEAN, again: BOOLEAN,
              race: 0..RaceDelays, exp: SidsOrNone, tok: Cookies, ans: Answers]

Pages == [store: Bundles, boot: {"idle", "checking", "complete"},
          flight: FlightSet, call: Calls, leave: Leaves, enter: SidsOrNone,
          change: Changes]

Events == [kind: {"authenticated", "signed_out"}, sid: Sids]

Requests == [tok: Cookies, exp: SidsOrNone]

\* TypeOK, with names for its sets.
LEMMA TypeNames ==
    TypeOK <=> /\ row \in [Sids -> Rows] /\ userAuth \in Nat /\ cookie \in Cookies
               /\ page \in [Tabs -> Pages] /\ lock \in Tabs \cup {Nobody}
               /\ queue \in [Tabs -> Seq(Events)] /\ orphans \in SUBSET Requests
               /\ events \in 0..MaxEvents /\ faults \in 0..MaxFaults
               /\ dropped \in SUBSET Sids /\ left \in [Tabs -> SUBSET Sids]
               /\ astray \in BOOLEAN
  BY DEF TypeOK, Rows, Pages, FlightSet, FlightStages, Flights, Calls, Leaves,
     Changes, Answers, SidsOrNone, Events, Requests

\* The values that variables are reset to have their types.
LEMMA Constants ==
    /\ NoBundle \in Bundles /\ NoCookie \in Cookies /\ NoRow \in Rows
    /\ NoAnswer \in Answers /\ NoFlight \in FlightSet /\ NoCall \in Calls
    /\ NoLeave \in Leaves /\ NoChange \in Changes /\ NewPage \in Pages
    /\ NoSid \in SidsOrNone
  <1>1. /\ NoBundle \in Bundles /\ NoCookie \in Cookies /\ NoSid \in SidsOrNone
    BY DEF Bundles, Cookies, SidsOrNone
  <1>2. NoRow \in Rows
    BY DEF NoRow, Rows
  <1>3. NoAnswer \in Answers
    BY <1>1 DEF NoAnswer, Answers, AnswerKinds
  <1>4. NoFlight \in FlightSet
    BY <1>1, <1>3 DEF NoFlight, FlightSet, FlightStages, RaceDelays
  <1>5. NoCall \in Calls /\ NoLeave \in Leaves /\ NoChange \in Changes
    BY <1>1 DEF NoCall, Calls, NoLeave, Leaves, NoChange, Changes
  <1> QED BY <1>1, <1>2, <1>3, <1>4, <1>5 DEF NewPage, Pages

\* A bundle or a cookie names a session or none.
LEMMA Sidded ==
    /\ \A b \in Bundles : b.sid \in SidsOrNone /\ b.ver \in Nat /\ b.fresh \in BOOLEAN
    /\ \A c \in Cookies : c.sid \in SidsOrNone /\ c.gen \in Nat
    /\ \A b \in Bundles : b.sid = NoSid <=> b = NoBundle
    /\ \A c \in Cookies : c.sid = NoSid <=> c = NoCookie
  <1>1. NoSid \notin Sids
    BY WebAssumption DEF Sids, NoSid
  <1>2. NoBundle.sid = NoSid /\ NoBundle.ver \in Nat /\ NoBundle.fresh \in BOOLEAN
        /\ NoCookie.sid = NoSid /\ NoCookie.gen \in Nat
    BY DEF NoBundle, NoCookie
  <1>3. ASSUME NEW b \in Bundles
        PROVE  /\ b.sid \in SidsOrNone /\ b.ver \in Nat /\ b.fresh \in BOOLEAN
               /\ b.sid = NoSid <=> b = NoBundle
    BY <1>1, <1>2 DEF Bundles, SidsOrNone
  <1>4. ASSUME NEW c \in Cookies
        PROVE  /\ c.sid \in SidsOrNone /\ c.gen \in Nat
               /\ c.sid = NoSid <=> c = NoCookie
    BY <1>1, <1>2 DEF Cookies, SidsOrNone
  <1> QED BY <1>3, <1>4

LEMMA AnswerTypes ==
    \A kind \in AnswerKinds : /\ Answer(kind) \in Answers /\ Answer(kind).kind = kind
                              /\ Answer(kind).sid = NoSid
  BY Constants DEF Answer, NoAnswer, Answers

\* What the steps of the client make of a page is a page.
LEMMA StoreTypes ==
    ASSUME NEW p \in Pages, NEW b \in Bundles
    PROVE  Accept(p, b) \in Pages /\ Clear(p) \in Pages
  BY Constants DEF Accept, Clear, Pages, FlightSet

LEMMA RefreshTypes ==
    ASSUME NEW p \in Pages PROVE Refresh(p) \in Pages
  <1>1. [NoFlight EXCEPT !.at = "queued", !.current = TRUE, !.again = TRUE] \in FlightSet
    BY Constants DEF FlightSet, FlightStages
  <1> QED BY <1>1 DEF Refresh, Pages

LEMMA SendTypes ==
    ASSUME NEW p \in Pages, NEW ck \in Cookies
    PROVE  SendRefresh(p, ck) \in Pages /\ SendLeave(p, ck, TRUE) \in Pages
           /\ SendLeave(p, ck, FALSE) \in Pages
  <1>1. p.store.sid \in SidsOrNone /\ p.store \in Bundles /\ p.flight \in FlightSet
    BY Sidded DEF Pages
  <1>2. SendRefresh(p, ck) \in Pages
    BY <1>1, Constants DEF SendRefresh, Pages, FlightSet, FlightStages
  <1>3. \A again \in BOOLEAN :
          [NoLeave EXCEPT !.at = "sent", !.again = again, !.tok = p.store, !.ck = ck]
            \in Leaves
    BY <1>1, Constants DEF Leaves
  <1> QED BY <1>2, <1>3 DEF SendLeave, Pages

LEMMA SettleTypes ==
    ASSUME NEW p \in Pages, NEW ck \in Cookies, NEW outcome
    PROVE  Settle(p, outcome, ck) \in Pages
  <1>1. [p EXCEPT !.flight = NoFlight] \in Pages
    BY Constants DEF Pages
  <1>2. \A q \in Pages : ResumeCall(q, outcome) \in Pages
    BY Constants DEF ResumeCall, Pages, Calls
  <1>3. \A q \in Pages : ResumeLeave(q, outcome, ck) \in Pages
    BY SendTypes, Constants DEF ResumeLeave, Pages
  <1> QED BY <1>1, <1>2, <1>3, Constants DEF Settle

LEMMA RunTypes ==
    ASSUME NEW p \in Pages, NEW ck \in Cookies,
           p.flight.ans.kind = "bundle" => p.flight.ans.sid \in Sids
    PROVE  RunPage(p, ck) \in Pages
  <1>1. p.flight \in FlightSet /\ p.flight.ans \in Answers /\ p.flight.race \in 0..RaceDelays
    BY DEF Pages, FlightSet
  <1>2. ASSUME p.flight.ans.kind = "bundle"
        PROVE  [sid |-> p.flight.ans.sid, ver |-> p.flight.ans.ver, fresh |-> TRUE]
                 \in Bundles
    BY <1>1, <1>2 DEF Answers, Bundles
  <1>3. p.flight.race < RaceDelays => [p EXCEPT !.flight.race = @ + 1] \in Pages
    BY <1>1 DEF Pages, FlightSet, RaceDelays
  <1>4. [p EXCEPT !.store = NoBundle, !.boot = "idle", !.flight.again = FALSE,
                  !.flight.race = 0] \in Pages
    <2>1. ASSUME NEW f \in FlightSet, NEW n \in 0..RaceDelays
          PROVE  [f EXCEPT !.again = FALSE, !.race = n] \in FlightSet
      BY DEF FlightSet
    <2>2. [p.flight EXCEPT !.again = FALSE, !.race = 0] \in FlightSet
      <3>1. 0 \in 0..RaceDelays
        BY DEF RaceDelays
      <3> QED BY <1>1, <2>1, <3>1
    <2> QED BY <2>2, Constants DEF Pages
  <1>5. [p EXCEPT !.boot = "idle"] \in Pages
    BY DEF Pages
  <1> QED BY <1>2, <1>3, <1>4, <1>5, StoreTypes, SendTypes, Constants DEF RunPage

\* What the server makes of a row is a row.
LEMMA RowTypes ==
    ASSUME TypeOK, NEW tok \in Cookies, NEW exp
    PROVE  /\ \A s \in Sids : \A why \in {"logout", "refresh_reuse", "user_revoked",
                                          "user_security_changed", "changed"} :
                 Revoked(s, why) \in [Sids -> Rows]
           /\ CheckRow(tok, exp) \in [Sids -> Rows]
           /\ RotateRow(tok) \in [Sids -> Rows]
  <1>1. row \in [Sids -> Rows]
    BY TypeNames
  <1>2. ASSUME NEW s \in Sids,
               NEW why \in {"logout", "refresh_reuse", "user_revoked",
                            "user_security_changed", "changed"}
        PROVE  Revoked(s, why) \in [Sids -> Rows]
    BY <1>1, <1>2 DEF Revoked, Rows
  <1>3. CheckRow(tok, exp) \in [Sids -> Rows]
    BY <1>1, <1>2 DEF CheckRow, Active
  <1>4. ASSUME tok.sid \in Sids
        PROVE  [row EXCEPT ![tok.sid].prev = row[tok.sid].gen, ![tok.sid].grace = TRUE,
                           ![tok.sid].gen = Derive(tok.gen)] \in [Sids -> Rows]
    <2>1. tok.gen \in Nat
      BY Sidded
    <2>2. [row[tok.sid] EXCEPT !.prev = row[tok.sid].gen, !.grace = TRUE,
                               !.gen = Derive(tok.gen)] \in Rows
      <3>1. ASSUME NEW r \in Rows, NEW g \in Nat, NEW h \in Nat
            PROVE  [r EXCEPT !.prev = g, !.grace = TRUE, !.gen = h] \in Rows
        BY DEF Rows
      <3>2. row[tok.sid] \in Rows /\ row[tok.sid].gen \in Nat /\ Derive(tok.gen) \in Nat
        BY <1>1, <1>4, <2>1 DEF Rows, Derive
      <3> QED BY <3>1, <3>2
    <2> QED BY <1>1, <1>4, <2>2
  <1>5. RotateRow(tok) \in [Sids -> Rows]
    BY <1>1, <1>2, <1>4 DEF RotateRow, Active
  <1> QED BY <1>2, <1>3, <1>5

\* The answer to a rotation is an answer, and a bundle names the session that
\* was presented.
LEMMA RotateTypes ==
    ASSUME TypeOK, NEW tok \in Cookies
    PROVE  /\ RotateAnswer(tok) \in Answers
           /\ RotateAnswer(tok).kind = "bundle" =>
                /\ Active(tok.sid)
                /\ RotateAnswer(tok) = [kind |-> "bundle", sid |-> tok.sid,
                                        ver |-> row[tok.sid].ver, gen |-> tok.gen + 1]
                /\ \/ tok.gen = row[tok.sid].gen
                   \/ tok.gen = row[tok.sid].prev
                      /\ row[tok.sid].grace
  <1>1. ASSUME Active(tok.sid)
        PROVE  [kind |-> "bundle", sid |-> tok.sid, ver |-> row[tok.sid].ver,
                gen |-> tok.gen + 1] \in Answers
    <2>1. tok.sid \in Sids /\ row[tok.sid] \in Rows /\ tok.gen \in Nat
      BY <1>1, TypeNames, Sidded DEF Active
    <2> QED BY <2>1 DEF Rows, Answers, AnswerKinds, SidsOrNone
  <1>2. \A k \in {"failed", "race", "denied"} :
           Answer(k) \in Answers /\ Answer(k).kind = k
    BY AnswerTypes DEF AnswerKinds
  <1> QED BY <1>1, <1>2 DEF RotateAnswer, Derive, Presents

\* The fields that matter below, for each thing that can become of a page.
Rest(p, q) == q.enter = p.enter /\ q.change = p.change

SameStore(p, q) == q.store.sid = p.store.sid /\ q.store.ver = p.store.ver

SameFlight(p, q) ==
    /\ q.flight.at = p.flight.at /\ q.flight.current = p.flight.current
    /\ q.flight.tok = p.flight.tok /\ q.flight.ans = p.flight.ans

\* Nothing that matters happens.
Untouched(p, q) == SameStore(p, q) /\ SameFlight(p, q) /\ Rest(p, q)

\* A refresh is asked for.
Starts(p, q) ==
    /\ SameStore(p, q) /\ Rest(p, q)
    /\ p.flight.at = "none" /\ q.flight.at = "queued"
    /\ q.flight.tok = NoCookie /\ q.flight.ans = NoAnswer

\* The request goes out with the cookie ck.
Sends(p, q, ck) ==
    /\ Rest(p, q)
    /\ q.flight.at = "sent" /\ q.flight.current = p.flight.current
    /\ q.flight.tok = ck /\ q.flight.ans = NoAnswer

\* The refresh of the page is over.
Over(p, q) == Rest(p, q) /\ q.flight = NoFlight

\* The bundle replaces the store.
Takes(p, q, sid, ver) ==
    /\ q.store.sid = sid /\ q.store.ver = ver
    /\ ~q.flight.current
    /\ q.flight.at = p.flight.at /\ q.flight.tok = p.flight.tok
    /\ q.flight.ans = p.flight.ans

LEMMA AcceptFields ==
    ASSUME NEW p \in Pages, NEW b
    PROVE  /\ Takes(p, Accept(p, b), b.sid, b.ver) /\ Rest(p, Accept(p, b))
           /\ Takes(p, Clear(p), NoSid, 0) /\ Rest(p, Clear(p))
  BY DEF Accept, Clear, NoBundle, Takes, Rest, Pages, FlightSet

LEMMA RefreshFields ==
    ASSUME NEW p \in Pages
    PROVE  Untouched(p, Refresh(p)) \/ Starts(p, Refresh(p))
  <1>1. CASE p.flight.at # "none"
    BY <1>1 DEF Refresh, Untouched, SameStore, SameFlight, Rest
  <1>2. CASE p.flight.at = "none"
    BY <1>2 DEF Refresh, Starts, SameStore, Rest, Pages, NoFlight
  <1> QED BY <1>1, <1>2

LEMMA SendFields ==
    ASSUME NEW p \in Pages, NEW ck, NEW again
    PROVE  /\ Sends(p, SendRefresh(p, ck), ck) /\ SameStore(p, SendRefresh(p, ck))
           /\ SendLeave(p, ck, again).flight = p.flight
           /\ SendLeave(p, ck, again).store = p.store
           /\ Rest(p, SendLeave(p, ck, again))
  BY DEF SendRefresh, SendLeave, Sends, SameStore, Rest, Pages, FlightSet

\* A refresh that is over either sends the tab to /sign-in or leaves what it
\* has stored.
LEMMA SettleFields ==
    ASSUME NEW p \in Pages, NEW ck \in Cookies, NEW outcome
    PROVE  \/ Redirects(p, outcome) /\ Settle(p, outcome, ck) = NewPage
           \/ /\ ~Redirects(p, outcome)
              /\ Over(p, Settle(p, outcome, ck))
              /\ SameStore(p, Settle(p, outcome, ck))
  <1>1. /\ [p EXCEPT !.flight = NoFlight] \in Pages
        /\ Over(p, [p EXCEPT !.flight = NoFlight])
        /\ [p EXCEPT !.flight = NoFlight].store = p.store
    BY Constants DEF Pages, Over, Rest
  <1>2. ASSUME NEW q \in Pages
        PROVE  /\ ResumeCall(q, outcome).flight = q.flight
               /\ ResumeCall(q, outcome).store = q.store
               /\ Rest(q, ResumeCall(q, outcome))
               /\ ResumeCall(q, outcome) \in Pages
    <2>1. ResumeCall(q, outcome) \in Pages
      BY Constants DEF ResumeCall, Pages, Calls
    <2> QED BY <2>1 DEF ResumeCall, Pages, Rest
  <1>3. ASSUME NEW q \in Pages
        PROVE  /\ ResumeLeave(q, outcome, ck).flight = q.flight
               /\ ResumeLeave(q, outcome, ck).store = q.store
               /\ Rest(q, ResumeLeave(q, outcome, ck))
    <2>1. CASE q.leave.at # "wait"
      BY <2>1 DEF ResumeLeave, Rest
    <2>2. CASE q.leave.at = "wait" /\ outcome = "authenticated"
      BY <2>2, SendFields DEF ResumeLeave
    <2>3. CASE q.leave.at = "wait" /\ outcome # "authenticated"
      BY <2>3 DEF ResumeLeave, Pages, Rest
    <2> QED BY <2>1, <2>2, <2>3
  <1> DEFINE a == [p EXCEPT !.flight = NoFlight]
             b == ResumeCall(a, outcome)
             c == ResumeLeave(b, outcome, ck)
  <1>4. /\ c.flight = NoFlight /\ c.store = p.store /\ Rest(p, c)
    <2>1. b.flight = NoFlight /\ b.store = p.store /\ Rest(p, b) /\ b \in Pages
      BY <1>1, <1>2 DEF Over, Rest
    <2> HIDE DEF b
    <2> QED BY <1>3, <2>1 DEF Rest
  <1>5. Settle(p, outcome, ck) = IF Redirects(p, outcome) THEN NewPage ELSE c
    BY DEF Settle
  <1> QED BY <1>4, <1>5 DEF Over, SameStore

\* What run() makes of an answer.
LEMMA RunFields ==
    ASSUME NEW p \in Pages, NEW ck \in Cookies
    PROVE  LET q == RunPage(p, ck)
               ans == p.flight.ans
           IN
           /\ Rest(p, q)
           /\ RunOutcome(p) = "goes_on" =>
                /\ Sends(p, q, ck) /\ p.flight.current /\ ans.kind \in {"race", "mismatch"}
                /\ SameStore(p, q) \/ q.store = NoBundle
           /\ RunOutcome(p) # "goes_on" =>
                \/ SameStore(p, q)
                \/ q.store = NoBundle
                \/ /\ p.flight.current /\ ans.kind = "bundle"
                   /\ q.store.sid = ans.sid /\ q.store.ver = ans.ver
  <1> DEFINE q == RunPage(p, ck)
             ans == p.flight.ans
  <1>1. CASE ~IsCurrent(p)
    <2>1. q = p /\ RunOutcome(p) = "transient"
      BY <1>1 DEF RunPage, RunOutcome
    <2> QED BY <2>1 DEF Rest, SameStore
  <1>2. CASE IsCurrent(p) /\ ans.kind = "bundle"
    <2>1. q = Accept(p, [sid |-> ans.sid, ver |-> ans.ver, fresh |-> TRUE])
      BY <1>2 DEF RunPage
    <2>2. RunOutcome(p) = "authenticated"
      BY <1>2 DEF RunOutcome
    <2> QED BY <1>2, <2>1, <2>2, AcceptFields DEF Takes, IsCurrent
  <1>3. CASE IsCurrent(p) /\ ans.kind = "race" /\ p.flight.race < RaceDelays
    <2> DEFINE m == [p EXCEPT !.flight.race = @ + 1]
    <2>1. q = SendRefresh(m, ck)
      BY <1>3 DEF RunPage
    <2>2. m \in Pages /\ Rest(p, m) /\ m.store = p.store
          /\ m.flight.current = p.flight.current
      <3>1. p.flight.race \in 0..RaceDelays /\ p.flight \in FlightSet
        BY DEF Pages, FlightSet
      <3>2. [p.flight EXCEPT !.race = @ + 1] \in FlightSet
        BY <1>3, <3>1 DEF FlightSet, RaceDelays
      <3> QED BY <3>2 DEF Pages, Rest, FlightSet
    <2>3. RunOutcome(p) = "goes_on"
      BY <1>3 DEF RunOutcome
    <2> HIDE DEF m
    <2>4. Sends(m, q, ck) /\ SameStore(m, q)
      BY <2>1, <2>2, SendFields
    <2> QED BY <1>3, <2>2, <2>3, <2>4 DEF Sends, Rest, SameStore, IsCurrent
  <1>4. CASE IsCurrent(p) /\ ans.kind = "mismatch" /\ p.flight.again
    <2> DEFINE m == [p EXCEPT !.store = NoBundle, !.boot = "idle",
                              !.flight.again = FALSE, !.flight.race = 0]
    <2>1. q = SendRefresh(m, ck)
      BY <1>4 DEF RunPage
    <2>2. m \in Pages /\ Rest(p, m) /\ m.store = NoBundle
          /\ m.flight.current = p.flight.current
      <3>1. 0 \in 0..RaceDelays /\ p.flight \in FlightSet
        BY DEF Pages, RaceDelays
      <3>2. ASSUME NEW n \in 0..RaceDelays
            PROVE  [p.flight EXCEPT !.again = FALSE, !.race = n] \in FlightSet
        BY <3>1 DEF FlightSet
      <3>3. [p.flight EXCEPT !.again = FALSE, !.race = 0] \in FlightSet
        BY <3>1, <3>2
      <3> QED BY <3>3, Constants DEF Pages, Rest, FlightSet
    <2>3. RunOutcome(p) = "goes_on"
      BY <1>4 DEF RunOutcome
    <2>4. q.store = NoBundle
      BY <2>1, <2>2 DEF SendRefresh, Pages
    <2> HIDE DEF m
    <2>5. Sends(m, q, ck)
      BY <2>1, <2>2, SendFields
    <2> QED BY <1>4, <2>2, <2>3, <2>4, <2>5 DEF Sends, Rest, IsCurrent
  <1>5. CASE IsCurrent(p) /\ ans.kind = "failed"
    <2>1. q = [p EXCEPT !.boot = "idle"] /\ RunOutcome(p) = "transient"
      BY <1>5 DEF RunPage, RunOutcome
    <2> QED BY <2>1 DEF Rest, SameStore, Pages
  <1>6. CASE /\ IsCurrent(p) /\ ans.kind \notin {"bundle", "failed"}
             /\ ~(ans.kind = "race" /\ p.flight.race < RaceDelays)
             /\ ~(ans.kind = "mismatch" /\ p.flight.again)
    <2>1. q = Clear(p) /\ RunOutcome(p) # "goes_on"
      BY <1>6 DEF RunPage, RunOutcome
    <2> QED BY <2>1 DEF Rest, Clear, Pages
  <1> QED BY <1>1, <1>2, <1>3, <1>4, <1>5, <1>6

-----------------------------------------------------------------------------
(* Every step keeps the types. *)

LEMMA TypeNext ==
    ASSUME row' \in [Sids -> Rows], userAuth' \in Nat, cookie' \in Cookies,
           page' \in [Tabs -> Pages], lock' \in Tabs \cup {Nobody},
           queue' \in [Tabs -> Seq(Events)], orphans' \in SUBSET Requests,
           events' \in 0..MaxEvents, faults' \in 0..MaxFaults,
           dropped' \in SUBSET Sids, left' \in [Tabs -> SUBSET Sids],
           astray' \in BOOLEAN
    PROVE  TypeOK'
  BY DEF TypeOK, Rows, Pages, FlightSet, FlightStages, Flights, Calls, Leaves,
     Changes, Answers, SidsOrNone, Events, Requests

LEMMA BoundTypes ==
    ASSUME TypeOK
    PROVE  /\ Event => events' \in 0..MaxEvents
           /\ Fault => faults' \in 0..MaxFaults
  BY TypeNames, WebAssumption DEF Event, Fault

\* The flights that a server step makes.
LEMMA FlightTypes ==
    ASSUME NEW f \in FlightSet, NEW at \in FlightStages, NEW ans \in Answers
    PROVE  /\ [f EXCEPT !.at = at, !.ans = ans] \in FlightSet
           /\ [f EXCEPT !.ans = ans] \in FlightSet
  BY DEF FlightSet

\* A page with one part replaced.
LEMMA PartTypes ==
    ASSUME NEW p \in Pages
    PROVE  /\ \A f \in FlightSet : [p EXCEPT !.flight = f] \in Pages
           /\ \A c \in Calls : [p EXCEPT !.call = c] \in Pages
           /\ \A l \in Leaves : [p EXCEPT !.leave = l] \in Pages
           /\ \A s \in SidsOrNone : [p EXCEPT !.enter = s] \in Pages
           /\ \A c \in Changes : [p EXCEPT !.change = c] \in Pages
           /\ \A b \in {"idle", "checking", "complete"} : [p EXCEPT !.boot = b] \in Pages
           /\ \A b \in Bundles : [p EXCEPT !.store = b] \in Pages
  BY DEF Pages

LEMMA PublishedTypes ==
    ASSUME TypeOK, NEW t \in Tabs, NEW sid \in SidsOrNone,
           NEW kind \in {"authenticated", "signed_out"}
    PROVE  Published(t, kind, sid) \in [Tabs -> Seq(Events)]
  <1>1. sid # NoSid => [kind |-> kind, sid |-> sid] \in Events
    BY DEF Events, SidsOrNone
  <1>2. \A u \in Tabs : queue[u] \in Seq(Events)
    BY TypeNames
  <1> QED BY <1>1, <1>2 DEF Published

\* The document of a tab goes.
LEMMA ReloadTypes ==
    ASSUME TypeOK, Named, NEW t \in Tabs, Reload(t)
    PROVE  /\ page' \in [Tabs -> Pages] /\ lock' \in Tabs \cup {Nobody}
           /\ orphans' \in SUBSET Requests /\ dropped' \in SUBSET Sids
           /\ queue' \in [Tabs -> Seq(Events)]
  <1>1. /\ page[t] \in Pages /\ page[t].flight \in FlightSet
        /\ page[t].flight.tok \in Cookies /\ page[t].flight.exp \in SidsOrNone
    BY TypeNames DEF Pages, FlightSet
  <1>2. Abandoned(page[t]) \in SUBSET Requests
    BY <1>1 DEF Abandoned, Requests
  <1>3. LostWith(page[t]) \in SUBSET Sids
    BY DEF LostWith, Named
  <1>4. << >> \in Seq(Events)
    OBVIOUS
  <1> QED BY <1>2, <1>3, <1>4, TypeNames, Constants DEF Reload, Unlocked

\* The steps of a refresh.
LEMMA RefreshStepTypes ==
    ASSUME TypeOK, Named, NEW t \in Tabs,
           \/ StartRefresh(t) \/ RefreshCheck(t) \/ RefreshRotate(t) \/ RefreshBack(t)
           \/ RefreshFails(t) \/ AnswerLost(t)
    PROVE  TypeOK'
  <1>p. /\ page[t] \in Pages /\ page[t].flight \in FlightSet
        /\ page[t].flight.tok \in Cookies /\ page[t].flight.ans \in Answers
        /\ page[t].store.sid \in SidsOrNone
    BY TypeNames, Sidded DEF Pages, FlightSet
  <1>n. \A kind \in {"none", "denied", "mismatch", "failed"} : Answer(kind) \in Answers
    BY AnswerTypes DEF AnswerKinds
  <1>1. CASE StartRefresh(t)
    <2>1. page' \in [Tabs -> Pages]
      <3>1. SendRefresh(page[t], cookie) \in Pages
            /\ Settle(page[t], "transient", cookie) \in Pages
        BY <1>p, SendTypes, SettleTypes, TypeNames
      <3>2. \/ page' = [page EXCEPT ![t] = SendRefresh(page[t], cookie)]
            \/ page' = [page EXCEPT ![t] = Settle(page[t], "transient", cookie)]
        BY <1>1 DEF StartRefresh
      <3> QED BY <3>1, <3>2, TypeNames
    <2> QED BY <1>1, <2>1, TypeNames, TypeNext DEF StartRefresh, server, bounds, history
  <1>2. CASE RefreshCheck(t)
    <2>1. PICK kind \in {"none", "denied", "mismatch"},
               at \in {"checked", "back"} :
            page' = [page EXCEPT ![t].flight.at = at, ![t].flight.ans = Answer(kind)]
      <3>1. CheckAnswer(page[t].flight.tok, page[t].flight.exp)
              \in {"none", "denied", "mismatch"}
        BY DEF CheckAnswer
      <3> QED BY <1>2, <3>1 DEF RefreshCheck
    <2>2. [page[t].flight EXCEPT !.at = at, !.ans = Answer(kind)] \in FlightSet
      BY <1>p, <1>n, FlightTypes DEF FlightStages
    <2>3. [page[t] EXCEPT !.flight = [page[t].flight EXCEPT !.at = at, !.ans = Answer(kind)]]
            \in Pages
      BY <1>p, <2>2, PartTypes
    <2>4. page' \in [Tabs -> Pages]
      BY <2>1, <2>3, TypeNames
    <2>5. row' \in [Sids -> Rows]
      BY <1>2, <1>p, RowTypes DEF RefreshCheck
    <2> QED BY <1>2, <2>4, <2>5, TypeNames, TypeNext
            DEF RefreshCheck, bounds, history
  <1>3. CASE RefreshRotate(t)
    <2> DEFINE ans == RotateAnswer(page[t].flight.tok)
    <2>1. page' = [page EXCEPT ![t].flight.at = "back", ![t].flight.ans = ans]
      BY <1>3 DEF RefreshRotate
    <2>2. ans \in Answers
      BY <1>p, RotateTypes
    <2> HIDE DEF ans
    <2>3. [page[t].flight EXCEPT !.at = "back", !.ans = ans] \in FlightSet
      BY <1>p, <2>2, FlightTypes DEF FlightStages
    <2>4. [page[t] EXCEPT !.flight = [page[t].flight EXCEPT !.at = "back", !.ans = ans]]
            \in Pages
      BY <1>p, <2>3, PartTypes
    <2>5. page' \in [Tabs -> Pages]
      BY <2>1, <2>4, TypeNames
    <2>6. row' \in [Sids -> Rows]
      BY <1>3, <1>p, RowTypes DEF RefreshRotate
    <2> QED BY <1>3, <2>5, <2>6, TypeNames, TypeNext
            DEF RefreshRotate, bounds, history
  <1>4. CASE RefreshBack(t)
    <2> DEFINE p == page[t]
               ck == CookieAfter(p.flight.ans)
    <2>1. ck \in Cookies
      BY <1>p, TypeNames, Constants DEF CookieAfter, Named, Cookies, Answers
    <2>2. RunPage(p, ck) \in Pages
      BY <1>p, <2>1, RunTypes DEF Named
    <2>3. page' \in [Tabs -> Pages]
      <3>1. Settle(RunPage(p, ck), RunOutcome(p), ck) \in Pages
        BY <2>1, <2>2, SettleTypes
      <3>2. \/ page' = [page EXCEPT ![t] = RunPage(p, ck)]
            \/ page' = [page EXCEPT ![t] = Settle(RunPage(p, ck), RunOutcome(p), ck)]
        BY <1>4 DEF RefreshBack
      <3> QED BY <2>2, <3>1, <3>2, TypeNames
    <2>4. \A sid \in {p.store.sid, NoSid} :
             Published(t, "signed_out", sid) \in [Tabs -> Seq(Events)]
      BY <1>p, Constants, PublishedTypes
    <2>5. << >> \in Seq(Events)
      OBVIOUS
    <2>6. queue' \in [Tabs -> Seq(Events)]
      <3> DEFINE heard == Published(t, "signed_out",
                            IF RunOutcome(p) = "anonymous" THEN p.store.sid ELSE NoSid)
      <3>1. heard \in [Tabs -> Seq(Events)]
        BY <2>4
      <3>2. queue' = queue \/ queue' = heard \/ queue' = [heard EXCEPT ![t] = << >>]
        BY <1>4 DEF RefreshBack
      <3> HIDE DEF heard
      <3> QED BY <2>5, <3>1, <3>2, TypeNames
    <2>7. cookie' \in Cookies /\ lock' \in Tabs \cup {Nobody} /\ astray' \in BOOLEAN
      BY <1>4, <2>1, TypeNames DEF RefreshBack, Unlocked
    <2>8. UNCHANGED <<server, orphans, bounds, dropped, left>>
      BY <1>4 DEF RefreshBack
    <2> QED BY <2>3, <2>6, <2>7, <2>8, TypeNames, TypeNext DEF server, bounds
  <1>5. CASE RefreshFails(t)
    <2>1. PICK kind \in {"failed", "denied"} :
            page' = [page EXCEPT ![t].flight.at = "back", ![t].flight.ans = Answer(kind)]
      BY <1>5 DEF RefreshFails
    <2>2. [page[t].flight EXCEPT !.at = "back", !.ans = Answer(kind)] \in FlightSet
      BY <1>p, <1>n, FlightTypes DEF FlightStages
    <2>3. [page[t] EXCEPT !.flight = [page[t].flight EXCEPT !.at = "back", !.ans = Answer(kind)]]
            \in Pages
      BY <1>p, <2>2, PartTypes
    <2>4. page' \in [Tabs -> Pages]
      BY <2>1, <2>3, TypeNames
    <2> QED BY <1>5, <2>4, TypeNames, TypeNext, BoundTypes
            DEF RefreshFails, server, history
  <1>6. CASE AnswerLost(t)
    <2>1. page' = [page EXCEPT ![t].flight.ans = Answer("failed")]
      BY <1>6 DEF AnswerLost
    <2>2. [page[t].flight EXCEPT !.ans = Answer("failed")] \in FlightSet
      BY <1>p, <1>n, FlightTypes DEF FlightStages
    <2>3. [page[t] EXCEPT !.flight = [page[t].flight EXCEPT !.ans = Answer("failed")]]
            \in Pages
      BY <1>p, <2>2, PartTypes
    <2>4. page' \in [Tabs -> Pages]
      BY <2>1, <2>3, TypeNames
    <2>5. dropped' \in SUBSET Sids
      BY <1>6, TypeNames DEF AnswerLost, LostWith, Named
    <2> QED BY <1>6, <2>4, <2>5, TypeNames, TypeNext, BoundTypes
            DEF AnswerLost, server
  <1> QED BY <1>1, <1>2, <1>3, <1>4, <1>5, <1>6

\* Navigation and calls.
LEMMA CallStepTypes ==
    ASSUME TypeOK, Named, NEW t \in Tabs,
           \/ Navigate(t) \/ Expire(t) \/ CallSend(t) \/ CallOnce(t) \/ CallDone(t)
           \/ CallDenied(t) \/ ReplayDenied(t) \/ UserReload(t)
    PROVE  TypeOK'
  <1>p. /\ page[t] \in Pages /\ page[t].store \in Bundles /\ page[t].call \in Calls
    BY TypeNames DEF Pages
  <1>u. \A q \in Pages : [page EXCEPT ![t] = q] \in [Tabs -> Pages]
    BY TypeNames
  <1>1. CASE Navigate(t)
    <2> DEFINE q == [page[t] EXCEPT !.boot = "complete"]
               m == [page[t] EXCEPT !.boot = "checking"]
    <2>1. q \in Pages /\ m \in Pages
      BY <1>p, PartTypes
    <2>2. page' = [page EXCEPT ![t] = q] \/ page' = [page EXCEPT ![t] = Refresh(m)]
      BY <1>1 DEF Navigate
    <2> HIDE DEF q, m
    <2>3. page' \in [Tabs -> Pages]
      BY <1>u, <2>1, <2>2, RefreshTypes
    <2> QED BY <1>1, <2>3, TypeNames, TypeNext DEF Navigate, server, bounds, history
  <1>2. CASE Expire(t)
    <2>1. [page[t].store EXCEPT !.fresh = FALSE] \in Bundles
      <3>1. page[t].store # NoBundle
        BY <1>2 DEF Expire, NoBundle
      <3> QED BY <1>p, <3>1 DEF Bundles
    <2>2. [page[t] EXCEPT !.store = [page[t].store EXCEPT !.fresh = FALSE]] \in Pages
      BY <1>p, <2>1, PartTypes
    <2>3. page' \in [Tabs -> Pages]
      BY <1>2, <2>2, TypeNames DEF Expire
    <2> QED BY <1>2, <2>3, TypeNames, TypeNext, BoundTypes DEF Expire, server, history
  <1>3. CASE CallSend(t)
    <2>1. [at |-> "sent", single |-> FALSE, tok |-> page[t].store] \in Calls
      BY <1>p DEF Calls
    <2>2. [page[t] EXCEPT !.call = [at |-> "sent", single |-> FALSE,
                                    tok |-> page[t].store]] \in Pages
      BY <1>p, <2>1, PartTypes
    <2>3. page' \in [Tabs -> Pages]
      BY <1>3, <2>2, TypeNames DEF CallSend
    <2> QED BY <1>3, <2>3, TypeNames, TypeNext, BoundTypes DEF CallSend, server, history
  <1>4. CASE CallOnce(t)
    <2> DEFINE call == [at |-> "first", single |-> TRUE, tok |-> NoBundle]
               sent == [call EXCEPT !.at = "sent", !.tok = page[t].store]
    <2>1. call \in Calls /\ sent \in Calls
      BY <1>p, Constants DEF Calls
    <2>2. \/ page' = [page EXCEPT ![t].call = sent]
          \/ page' = [page EXCEPT ![t] = Refresh([page[t] EXCEPT !.call = call])]
      BY <1>4 DEF CallOnce
    <2> HIDE DEF call, sent
    <2>3. [page[t] EXCEPT !.call = sent] \in Pages
          /\ Refresh([page[t] EXCEPT !.call = call]) \in Pages
      BY <1>p, <2>1, PartTypes, RefreshTypes
    <2>4. page' \in [Tabs -> Pages]
      BY <2>2, <2>3, TypeNames
    <2> QED BY <1>4, <2>4, TypeNames, TypeNext, BoundTypes DEF CallOnce, server, history
  <1>5. CASE CallDone(t)
    <2>1. [page[t] EXCEPT !.call = NoCall] \in Pages
      BY <1>p, Constants, PartTypes
    <2>2. page' \in [Tabs -> Pages]
      BY <1>5, <2>1, TypeNames DEF CallDone
    <2> QED BY <1>5, <2>2, TypeNames, TypeNext DEF CallDone, server, bounds, history
  <1>6. CASE CallDenied(t)
    <2> DEFINE q == [page[t] EXCEPT !.call = NoCall]
               m == [page[t] EXCEPT !.call.at = "wait"]
    <2>1. q \in Pages
      BY <1>p, Constants, PartTypes
    <2>2. m \in Pages
      <3>1. [page[t].call EXCEPT !.at = "wait"] \in Calls
        BY <1>p DEF Calls
      <3>2. [page[t] EXCEPT !.call = [page[t].call EXCEPT !.at = "wait"]] \in Pages
        BY <1>p, <3>1, PartTypes
      <3> QED BY <1>p, <3>2
    <2>3. page' = [page EXCEPT ![t] = q] \/ page' = [page EXCEPT ![t] = Refresh(m)]
      BY <1>6 DEF CallDenied
    <2> HIDE DEF q, m
    <2>4. page' \in [Tabs -> Pages]
      BY <1>u, <2>1, <2>2, <2>3, RefreshTypes
    <2> QED BY <1>6, <2>4, TypeNames, TypeNext DEF CallDenied, server, bounds, history
  <1>7. CASE ReplayDenied(t)
    BY <1>7, ReloadTypes, TypeNames, TypeNext DEF ReplayDenied, server, bounds
  <1>8. CASE UserReload(t)
    BY <1>8, ReloadTypes, TypeNames, TypeNext, BoundTypes DEF UserReload, server
  <1> QED BY <1>1, <1>2, <1>3, <1>4, <1>5, <1>6, <1>7, <1>8

\* Signing in and out.
LEMMA LoginStepTypes ==
    ASSUME TypeOK, Named, NEW t \in Tabs,
           \/ LoginServe(t) \/ LoginBack(t) \/ LeaveSend(t) \/ LeaveServe(t)
           \/ LeaveFails(t) \/ LeaveBack(t)
    PROVE  TypeOK'
  <1>p. /\ page[t] \in Pages /\ page[t].store \in Bundles /\ page[t].leave \in Leaves
        /\ page[t].enter \in SidsOrNone /\ page[t].store.sid \in SidsOrNone
    BY TypeNames, Sidded DEF Pages
  <1>u. \A q \in Pages : [page EXCEPT ![t] = q] \in [Tabs -> Pages]
    BY TypeNames
  <1>1. CASE LoginServe(t)
    <2>1. PICK s \in Sids :
            /\ row' = [row EXCEPT ![s] = [NoRow EXCEPT !.status = "active",
                                                       !.auth = userAuth]]
            /\ page' = [page EXCEPT ![t].enter = s]
      BY <1>1 DEF LoginServe
    <2>2. [NoRow EXCEPT !.status = "active", !.auth = userAuth] \in Rows
      BY TypeNames, Constants DEF Rows
    <2>3. [page[t] EXCEPT !.enter = s] \in Pages
      BY <1>p, PartTypes DEF SidsOrNone
    <2>4. row' \in [Sids -> Rows] /\ page' \in [Tabs -> Pages]
      BY <2>1, <2>2, <2>3, TypeNames
    <2> QED BY <1>1, <2>4, TypeNames, TypeNext, BoundTypes DEF LoginServe, history
  <1>2. CASE LoginBack(t)
    <2> DEFINE p == [page[t] EXCEPT !.enter = NoSid]
               s == page[t].enter
               b == [sid |-> s, ver |-> 1, fresh |-> TRUE]
    <2>1. s \in Sids
      BY <1>2, <1>p DEF LoginBack, SidsOrNone
    <2>2. p \in Pages /\ b \in Bundles /\ [sid |-> s, gen |-> 0] \in Cookies
      BY <1>p, <2>1, Constants, PartTypes DEF Bundles, Cookies
    <2>3. page' = [page EXCEPT ![t] = p] \/ page' = [page EXCEPT ![t] = Accept(p, b)]
      BY <1>2 DEF LoginBack
    <2>4. queue' \in [Tabs -> Seq(Events)]
      BY <1>2, <2>1, PublishedTypes, TypeNames DEF LoginBack, SidsOrNone
    <2> HIDE DEF p, b
    <2>5. page' \in [Tabs -> Pages]
      BY <1>u, <2>2, <2>3, StoreTypes
    <2>6. cookie' \in Cookies /\ astray' \in BOOLEAN
      BY <1>2, <2>2, TypeNames DEF LoginBack
    <2> QED BY <1>2, <2>4, <2>5, <2>6, TypeNames, TypeNext DEF LoginBack, server, bounds
  <1>3. CASE LeaveSend(t)
    <2>1. page' \in [Tabs -> Pages]
      BY <1>3, <1>p, <1>u, SendTypes, TypeNames DEF LeaveSend
    <2> QED BY <1>3, <2>1, TypeNames, TypeNext, BoundTypes DEF LeaveSend, server, history
  <1>4. CASE LeaveServe(t)
    <2>1. PICK ans \in {"mismatch", "ok"}, clears \in BOOLEAN :
            page' = [page EXCEPT ![t].leave.at = "back", ![t].leave.ans = ans,
                                 ![t].leave.clears = clears]
      BY <1>4 DEF LeaveServe
    <2>2. [page[t].leave EXCEPT !.at = "back", !.ans = ans, !.clears = clears] \in Leaves
      BY <1>p DEF Leaves
    <2>3. [page[t] EXCEPT !.leave = [page[t].leave EXCEPT !.at = "back", !.ans = ans,
                                                          !.clears = clears]] \in Pages
      BY <1>p, <2>2, PartTypes
    <2>4. page' \in [Tabs -> Pages]
      BY <2>1, <2>3, TypeNames
    <2>5. row' = row \/ \E s \in Sids : row' = Revoked(s, "logout")
      BY <1>4 DEF LeaveServe, Active
    <2>6. row' \in [Sids -> Rows]
      BY <2>5, RowTypes, TypeNames
    <2>7. astray' \in BOOLEAN
      BY <1>4, TypeNames DEF LeaveServe, history
    <2> QED BY <1>4, <2>4, <2>6, <2>7, TypeNames, TypeNext DEF LeaveServe, bounds, history
  <1>5. CASE LeaveFails(t)
    <2>1. [page[t] EXCEPT !.leave = NoLeave] \in Pages
      BY <1>p, Constants, PartTypes
    <2>2. page' \in [Tabs -> Pages]
      BY <1>5, <2>1, TypeNames DEF LeaveFails
    <2> QED BY <1>5, <2>2, TypeNames, TypeNext, BoundTypes DEF LeaveFails, server, history
  <1>6. CASE LeaveBack(t)
    <2> DEFINE done == [page[t] EXCEPT !.leave = NoLeave]
               m == [page[t] EXCEPT !.leave.at = "wait"]
    <2>1. done \in Pages
      BY <1>p, Constants, PartTypes
    <2>2. m \in Pages
      <3>1. [page[t].leave EXCEPT !.at = "wait"] \in Leaves
        BY <1>p DEF Leaves
      <3>2. [page[t] EXCEPT !.leave = [page[t].leave EXCEPT !.at = "wait"]] \in Pages
        BY <1>p, <3>1, PartTypes
      <3> QED BY <1>p, <3>2
    <2>3. \/ page' = [page EXCEPT ![t] = Clear(done)]
          \/ page' = [page EXCEPT ![t] = Refresh(m)]
          \/ page' = [page EXCEPT ![t] = done]
      BY <1>6 DEF LeaveBack
    <2>4. Published(t, "signed_out", page[t].store.sid) \in [Tabs -> Seq(Events)]
      BY <1>p, PublishedTypes
    <2>5. queue' \in [Tabs -> Seq(Events)] /\ cookie' \in Cookies
          /\ left' \in [Tabs -> SUBSET Sids]
      BY <1>6, <2>4, TypeNames, Constants DEF LeaveBack
    <2>6. astray' \in BOOLEAN
      BY <1>6 DEF LeaveBack
    <2> HIDE DEF done, m
    <2>7. page' \in [Tabs -> Pages]
      BY <1>u, <2>1, <2>2, <2>3, StoreTypes, RefreshTypes, Constants
    <2> QED BY <1>6, <2>5, <2>6, <2>7, TypeNames, TypeNext DEF LeaveBack, server, bounds
  <1> QED BY <1>1, <1>2, <1>3, <1>4, <1>5, <1>6

\* Security changes, events and what happens elsewhere.
LEMMA OtherStepTypes ==
    ASSUME TypeOK, Named,
           \/ \E t \in Tabs : \/ ChangeServe(t) \/ ChangeAdvance(t) \/ ChangeBack(t)
                              \/ Deliver(t) \/ EventLost(t)
           \/ \E s \in Sids : RemoteRevoke(s) \/ GraceEnds(s)
           \/ \E q \in orphans : OrphanServe(q)
    PROVE  TypeOK'
  <1>p. \A t \in Tabs :
          /\ page[t] \in Pages /\ page[t].store \in Bundles /\ page[t].change \in Changes
          /\ page[t].store.sid \in SidsOrNone /\ page[t].store.ver \in Nat
          /\ page[t].change.sid \in SidsOrNone /\ page[t].change.ver \in Nat
    BY TypeNames, Sidded DEF Pages, Changes
  <1>1. ASSUME NEW t \in Tabs, ChangeServe(t) PROVE TypeOK'
    <2> DEFINE c == [at |-> "bumped", sid |-> page[t].store.sid, ver |-> page[t].store.ver]
    <2>1. c \in Changes
      BY <1>p DEF Changes
    <2>2. page' = [page EXCEPT ![t].change = c]
      BY <1>1 DEF ChangeServe
    <2> HIDE DEF c
    <2>3. [page[t] EXCEPT !.change = c] \in Pages
      BY <1>p, <2>1, PartTypes
    <2>4. page' \in [Tabs -> Pages]
      BY <2>2, <2>3, TypeNames
    <2>5. userAuth \in Nat /\ userAuth' = userAuth + 1
      BY <1>1, TypeNames DEF ChangeServe
    <2>6. userAuth' \in Nat
      BY <2>5
    <2> QED BY <1>1, <2>4, <2>6, TypeNames, TypeNext, BoundTypes DEF ChangeServe, history
  <1>2. ASSUME NEW t \in Tabs, ChangeAdvance(t) PROVE TypeOK'
    <2> DEFINE c == page[t].change
               d == [c EXCEPT !.at = "back", !.ver = @ + 1]
    <2>1. d \in Changes
      <3>1. c \in Changes /\ c.ver + 1 \in Nat
        BY <1>p
      <3>2. ASSUME NEW x \in Changes, NEW n \in Nat
            PROVE  [x EXCEPT !.at = "back", !.ver = n] \in Changes
        BY DEF Changes
      <3> QED BY <3>1, <3>2
    <2>2. page' = [page EXCEPT ![t].change = d] \/ page' = [page EXCEPT ![t].change = NoChange]
      BY <1>2 DEF ChangeAdvance
    <2> HIDE DEF d
    <2>3. [page[t] EXCEPT !.change = d] \in Pages
          /\ [page[t] EXCEPT !.change = NoChange] \in Pages
      BY <1>p, <2>1, Constants, PartTypes
    <2>4. page' \in [Tabs -> Pages]
      BY <2>2, <2>3, TypeNames
    <2>5. row' \in [Sids -> Rows]
      <3>1. ASSUME NEW r \in Rows, NEW v \in Nat, NEW n \in Nat
            PROVE  [r EXCEPT !.ver = v, !.auth = n] \in Rows
        BY DEF Rows
      <3>2. ASSUME NEW r \in Rows
            PROVE  [r EXCEPT !.status = "revoked", !.why = "changed"] \in Rows
        BY DEF Rows
      <3>3. \A s \in Sids : row[s] \in Rows /\ row[s].ver + 1 \in Nat
        BY TypeNames DEF Rows
      <3>4. userAuth \in Nat
        BY TypeNames
      <3>5. \A s \in Sids :
               [row[s] EXCEPT !.ver = @ + 1, !.auth = userAuth] \in Rows
        BY <3>1, <3>3, <3>4
      <3>6. CASE row' = row
        BY <3>6, TypeNames
      <3>7. CASE row' = [s \in Sids |->
                  IF s = c.sid THEN [row[s] EXCEPT !.ver = @ + 1, !.auth = userAuth]
                  ELSE IF Active(s)
                    THEN [row[s] EXCEPT !.status = "revoked", !.why = "changed"]
                  ELSE row[s]]
        BY <3>2, <3>3, <3>5, <3>7
      <3> QED BY <1>2, <3>6, <3>7 DEF ChangeAdvance
    <2> QED BY <1>2, <2>4, <2>5, TypeNames, TypeNext DEF ChangeAdvance, bounds, history
  <1>3. ASSUME NEW t \in Tabs, ChangeBack(t) PROVE TypeOK'
    <2> DEFINE p == [page[t] EXCEPT !.change = NoChange]
               b == [sid |-> page[t].change.sid, ver |-> page[t].change.ver, fresh |-> TRUE]
    <2>1. p \in Pages /\ b \in Bundles
      BY <1>3, <1>p, Constants, PartTypes DEF ChangeBack, Named, Bundles
    <2>2. page' = [page EXCEPT ![t] = p] \/ page' = [page EXCEPT ![t] = Accept(p, b)]
      BY <1>3 DEF ChangeBack
    <2> HIDE DEF p, b
    <2>3. page' \in [Tabs -> Pages]
      BY <2>1, <2>2, StoreTypes, TypeNames
    <2> QED BY <1>3, <2>3, TypeNames, TypeNext DEF ChangeBack, server, bounds, history
  <1>t. ASSUME NEW t \in Tabs, queue[t] # << >> PROVE Tail(queue[t]) \in Seq(Events)
    <2>1. queue[t] \in Seq(Events)
      BY TypeNames
    <2> QED BY <1>t, <2>1
  <1>4. ASSUME NEW t \in Tabs, Deliver(t) PROVE TypeOK'
    <2>1. CASE Reload(t)
      BY <1>4, <2>1, ReloadTypes, TypeNames, TypeNext DEF Deliver, server, bounds
    <2>2. CASE ~Reload(t)
      <3>1. /\ page' = page \/ page' = [page EXCEPT ![t] = Clear(page[t])]
            /\ queue' = [queue EXCEPT ![t] = Tail(@)] /\ queue[t] # << >>
            /\ UNCHANGED <<lock, orphans, dropped, server, cookie, bounds, left, astray>>
        BY <1>4, <2>2 DEF Deliver
      <3>2. page' \in [Tabs -> Pages]
        BY <1>p, <3>1, StoreTypes, Constants, TypeNames
      <3>3. queue' \in [Tabs -> Seq(Events)]
        BY <1>t, <3>1, TypeNames
      <3> QED BY <3>1, <3>2, <3>3, TypeNames, TypeNext DEF server, bounds
    <2> QED BY <2>1, <2>2
  <1>5. ASSUME NEW t \in Tabs, EventLost(t) PROVE TypeOK'
    <2>1. queue' \in [Tabs -> Seq(Events)]
      BY <1>5, <1>t, TypeNames DEF EventLost
    <2> QED BY <1>5, <2>1, TypeNames, TypeNext, BoundTypes DEF EventLost, server
  <1>6. ASSUME NEW s \in Sids, RemoteRevoke(s) PROVE TypeOK'
    <2>1. row' \in [Sids -> Rows]
      BY <1>6, RowTypes, Constants DEF RemoteRevoke
    <2> QED BY <1>6, <2>1, TypeNames, TypeNext, BoundTypes DEF RemoteRevoke, history
  <1>7. ASSUME NEW s \in Sids, GraceEnds(s) PROVE TypeOK'
    <2>1. [row[s] EXCEPT !.grace = FALSE] \in Rows
      BY TypeNames DEF Rows
    <2>2. row' \in [Sids -> Rows]
      BY <1>7, <2>1, TypeNames DEF GraceEnds
    <2> QED BY <1>7, <2>2, TypeNames, TypeNext, BoundTypes DEF GraceEnds, history
  <1>8. ASSUME NEW q \in orphans, OrphanServe(q) PROVE TypeOK'
    <2>1. q \in Requests /\ q.tok \in Cookies
      BY TypeNames DEF Requests
    <2>2. RotateRow(q.tok) \in [Sids -> Rows] /\ CheckRow(q.tok, q.exp) \in [Sids -> Rows]
      BY <2>1, RowTypes
    <2>3. RotateAnswer(q.tok).kind = "bundle" => q.tok.sid \in Sids
      BY <2>1, RotateTypes DEF Active
    <2>4. row' \in [Sids -> Rows] /\ dropped' \in SUBSET Sids
          /\ orphans' \in SUBSET Requests
      BY <1>8, <2>2, <2>3, TypeNames DEF OrphanServe
    <2> QED BY <1>8, <2>4, TypeNames, TypeNext DEF OrphanServe, bounds
  <1> QED BY <1>1, <1>2, <1>3, <1>4, <1>5, <1>6, <1>7, <1>8

-----------------------------------------------------------------------------
(* What the steps do to the state that the invariants below are about. *)

Others(t) == \A u \in Tabs \ {t} : page'[u] = page[u]

\* Rows end, for another reason than reuse.
RowsEnd ==
    \A s \in Sids :
        \/ row'[s] = row[s]
        \/ /\ row[s].status = "active" /\ row'[s].status = "revoked"
           /\ row'[s].gen = row[s].gen /\ row'[s].prev = row[s].prev
           /\ row'[s].grace = row[s].grace /\ row'[s].ver = row[s].ver
           /\ row'[s].why # "refresh_reuse"

\* Calls, navigation, most of a sign-out, events that are not for the page.
PlainStep(t) ==
    /\ Others(t)
    /\ Untouched(page[t], page'[t]) \/ Starts(page[t], page'[t])
    /\ RowsEnd /\ cookie' \in {cookie, NoCookie}
    /\ UNCHANGED <<lock, orphans, dropped, left>>

\* A refresh gets the lock.
SendStep(t) ==
    /\ Others(t)
    /\ page[t].flight.at = "queued"
    /\ SameStore(page[t], page'[t]) /\ Sends(page[t], page'[t], cookie)
    /\ UseLocks => lock = Nobody /\ lock' = t
    /\ UNCHANGED <<row, cookie, orphans, dropped, left>>

\* A refresh that has been superseded ends before it asks.
GiveUpStep(t) ==
    /\ Others(t)
    /\ page[t].flight.at = "queued"
    /\ SameStore(page[t], page'[t]) /\ Over(page[t], page'[t])
    /\ UNCHANGED <<row, cookie, lock, orphans, dropped, left>>

\* The first half of RefreshAuth, or a failure.
CheckStep(t) ==
    /\ Others(t)
    /\ LET p == page[t]
           q == page'[t]
       IN /\ SameStore(p, q) /\ Rest(p, q)
          /\ p.flight.at = "sent" /\ q.flight.at \in {"checked", "back"}
          /\ q.flight.tok = p.flight.tok /\ q.flight.current = p.flight.current
          /\ q.flight.ans.kind \notin {"bundle", "race"}
    /\ RowsEnd
    /\ UNCHANGED <<cookie, lock, orphans, dropped, left>>

RotateStep(t) ==
    /\ Others(t)
    /\ LET p == page[t]
           q == page'[t]
       IN /\ SameStore(p, q) /\ Rest(p, q)
          /\ p.flight.at = "checked" /\ q.flight.at = "back"
          /\ q.flight.tok = p.flight.tok /\ q.flight.current = p.flight.current
          /\ q.flight.ans = RotateAnswer(p.flight.tok)
          /\ row' = RotateRow(p.flight.tok)
    /\ UNCHANGED <<cookie, lock, orphans, dropped, left>>

\* An answer after which run() asks again.
AgainStep(t) ==
    /\ Others(t)
    /\ page[t].flight.at = "back" /\ page[t].flight.ans.kind \in {"race", "mismatch"}
    /\ SameStore(page[t], page'[t]) \/ page'[t].store = NoBundle
    /\ Sends(page[t], page'[t], cookie)
    /\ UNCHANGED <<row, cookie, lock, orphans, dropped, left>>

\* An answer with which the refresh ends.
EndStep(t) ==
    /\ Others(t)
    /\ LET p == page[t]
           q == page'[t]
       IN /\ p.flight.at = "back"
          /\ \/ q = NewPage
             \/ Over(p, q) /\ (SameStore(p, q) \/ q.store.sid = NoSid)
             \/ /\ Over(p, q) /\ p.flight.current /\ p.flight.ans.kind = "bundle"
                /\ q.store.sid = p.flight.ans.sid /\ q.store.ver = p.flight.ans.ver
          /\ cookie' = CookieAfter(p.flight.ans)
    /\ lock' = Unlocked(t)
    /\ UNCHANGED <<row, orphans, dropped, left>>

LostStep(t) ==
    /\ Others(t)
    /\ LET p == page[t]
           q == page'[t]
       IN /\ SameStore(p, q) /\ Rest(p, q)
          /\ p.flight.at = "back" /\ q.flight.at = "back"
          /\ q.flight.tok = p.flight.tok /\ q.flight.current = p.flight.current
          /\ q.flight.ans = Answer("failed")
    /\ dropped' = dropped \cup LostWith(page[t])
    /\ UNCHANGED <<row, cookie, lock, orphans, left>>

ReloadStep(t) == Reload(t) /\ UNCHANGED <<row, cookie, left>>

\* The page signs out, by itself or because another has.
ClearStep(t) ==
    /\ Others(t)
    /\ Takes(page[t], page'[t], NoSid, 0) /\ Rest(page[t], page'[t])
    /\ cookie' \in {cookie, NoCookie}
    /\ \/ left' = left
       \/ left' = [left EXCEPT ![t] = @ \cup {s \in Sids : s = page[t].store.sid /\ ~Active(s)}]
    /\ UNCHANGED <<row, lock, orphans, dropped>>

LoginStep(t) ==
    \E s \in Sids :
        /\ s = 1 + Cardinality({x \in Sids : row[x] # NoRow})
        /\ Others(t)
        /\ page[t].enter = NoSid /\ page'[t].enter = s
        /\ SameStore(page[t], page'[t]) /\ SameFlight(page[t], page'[t])
        /\ page'[t].change = page[t].change
        /\ row' = [row EXCEPT ![s] = [NoRow EXCEPT !.status = "active",
                                                   !.auth = userAuth]]
        /\ UNCHANGED <<cookie, lock, orphans, dropped, left>>

EnterStep(t) ==
    /\ Others(t)
    /\ page[t].enter # NoSid /\ page'[t].enter = NoSid
    /\ page'[t].change = page[t].change
    /\ cookie' = [sid |-> page[t].enter, gen |-> 0]
    /\ \/ SameStore(page[t], page'[t]) /\ SameFlight(page[t], page'[t])
       \/ Takes(page[t], page'[t], page[t].enter, 1)
    /\ UNCHANGED <<row, lock, orphans, dropped, left>>

\* The version of the session goes up with the user's, or the change fails.
ChangeStep(t) ==
    /\ Others(t)
    /\ SameStore(page[t], page'[t]) /\ SameFlight(page[t], page'[t])
    /\ page'[t].enter = page[t].enter
    /\ LET c == page[t].change
           d == page'[t].change
       IN \/ /\ c.at = "none" /\ d.at = "bumped" /\ d.sid = page[t].store.sid
             /\ row' = row
          \/ /\ c.at = "bumped" /\ d = NoChange /\ row' = row
          \/ /\ c.at = "bumped" /\ d.at = "back" /\ d.sid = c.sid
             /\ c.sid \in Sids /\ row[c.sid].status = "active"
             /\ row[c.sid].ver = c.ver /\ d.ver = c.ver + 1
             /\ row'[c.sid] = [row[c.sid] EXCEPT !.ver = @ + 1, !.auth = userAuth]
             /\ \A s \in Sids \ {c.sid} :
                  row'[s] = IF Active(s)
                              THEN [row[s] EXCEPT !.status = "revoked", !.why = "changed"]
                              ELSE row[s]
    /\ UNCHANGED <<cookie, lock, orphans, dropped, left>>

ChangedStep(t) ==
    /\ Others(t)
    /\ page[t].change.at = "back" /\ page'[t].change = NoChange
    /\ page'[t].enter = page[t].enter
    /\ \/ SameStore(page[t], page'[t]) /\ SameFlight(page[t], page'[t])
       \/ /\ page[t].store.sid = page[t].change.sid
          /\ Takes(page[t], page'[t], page[t].change.sid, page[t].change.ver)
    /\ UNCHANGED <<row, cookie, lock, orphans, dropped, left>>

RevokeStep ==
    RowsEnd /\ UNCHANGED <<page, cookie, lock, orphans, dropped, left>>

GraceStep(s) ==
    /\ row[s].grace /\ ~InFlight(s)
    /\ row' = [row EXCEPT ![s].grace = FALSE]
    /\ UNCHANGED <<page, cookie, lock, orphans, dropped, left>>

OrphanStep(q) ==
    /\ orphans' = orphans \ {q}
    /\ \/ /\ row' = RotateRow(q.tok)
          /\ dropped' = IF RotateAnswer(q.tok).kind = "bundle"
                          THEN dropped \cup {q.tok.sid} ELSE dropped
       \/ RowsEnd /\ dropped' = dropped
    /\ UNCHANGED <<page, cookie, lock, left>>

OneTab(t) ==
    \/ PlainStep(t) \/ SendStep(t) \/ GiveUpStep(t) \/ CheckStep(t) \/ RotateStep(t)
    \/ AgainStep(t) \/ EndStep(t) \/ LostStep(t) \/ ReloadStep(t) \/ ClearStep(t)
    \/ LoginStep(t) \/ EnterStep(t) \/ ChangeStep(t) \/ ChangedStep(t)

LEMMA RevokedRows ==
    ASSUME TypeOK, NEW s, Active(s),
           NEW why \in {"logout", "user_revoked", "user_security_changed", "changed"},
           row' = Revoked(s, why)
    PROVE  RowsEnd
  <1>1. s \in Sids /\ row \in [Sids -> Rows]
    BY TypeNames DEF Active
  <1>2. \A x \in Sids \ {s} : row'[x] = row[x]
    BY <1>1 DEF Revoked
  <1>3. row'[s] = [row[s] EXCEPT !.status = "revoked", !.why = why]
    BY <1>1 DEF Revoked
  <1>4. row[s] \in Rows /\ row[s].status = "active"
    BY <1>1 DEF Active
  <1>5. /\ row'[s].status = "revoked" /\ row'[s].why = why
        /\ row'[s].gen = row[s].gen /\ row'[s].prev = row[s].prev
        /\ row'[s].grace = row[s].grace /\ row'[s].ver = row[s].ver
    BY <1>3, <1>4 DEF Rows
  <1> QED BY <1>2, <1>4, <1>5 DEF RowsEnd

LEMMA CheckedRows ==
    ASSUME TypeOK, NEW tok, NEW exp, row' = CheckRow(tok, exp)
    PROVE  RowsEnd
  <1>1. CASE row' = row
    BY <1>1 DEF RowsEnd
  <1>2. CASE Active(tok.sid) /\ row' = Revoked(tok.sid, "user_security_changed")
    BY <1>2, RevokedRows
  <1> QED BY <1>1, <1>2 DEF CheckRow

\* A refresh, step by step.
LEMMA RefreshEffects ==
    ASSUME TypeOK, Named, NEW t \in Tabs,
           \/ StartRefresh(t) \/ RefreshCheck(t) \/ RefreshRotate(t) \/ RefreshBack(t)
           \/ RefreshFails(t) \/ AnswerLost(t)
    PROVE  OneTab(t)
  <1>p. /\ page[t] \in Pages /\ page[t].flight \in FlightSet /\ cookie \in Cookies
        /\ page[t].flight.tok \in Cookies /\ page[t].flight.ans \in Answers
        /\ page \in [Tabs -> Pages]
    BY TypeNames DEF Pages, FlightSet
  <1>o. ASSUME NEW q, page' = [page EXCEPT ![t] = q] PROVE page'[t] = q /\ Others(t)
    BY <1>o, <1>p DEF Others
  <1>f. ASSUME NEW at, NEW ans,
               page' = [page EXCEPT ![t].flight.at = at, ![t].flight.ans = ans]
        PROVE  /\ Others(t) /\ SameStore(page[t], page'[t]) /\ Rest(page[t], page'[t])
               /\ page'[t].flight.at = at /\ page'[t].flight.ans = ans
               /\ page'[t].flight.tok = page[t].flight.tok
               /\ page'[t].flight.current = page[t].flight.current
    BY <1>f, <1>p DEF Others, SameStore, Rest, Pages, FlightSet
  <1>1. CASE StartRefresh(t)
    <2>1. CASE IsCurrent(page[t])
      <3>1. page' = [page EXCEPT ![t] = SendRefresh(page[t], cookie)]
        BY <1>1, <2>1 DEF StartRefresh
      <3>2. Sends(page[t], page'[t], cookie) /\ SameStore(page[t], page'[t]) /\ Others(t)
        BY <1>o, <1>p, <3>1, SendFields
      <3> QED BY <1>1, <2>1, <3>2
              DEF StartRefresh, MayRun, OneTab, SendStep, server, history
    <2>2. CASE ~IsCurrent(page[t])
      <3>1. page' = [page EXCEPT ![t] = Settle(page[t], "transient", cookie)]
        BY <1>1, <2>2 DEF StartRefresh
      <3>2. ~Redirects(page[t], "transient")
        BY DEF Redirects
      <3>3. Over(page[t], page'[t]) /\ SameStore(page[t], page'[t]) /\ Others(t)
        BY <1>o, <1>p, <3>1, <3>2, SettleFields
      <3> QED BY <1>1, <2>2, <3>3
              DEF StartRefresh, MayRun, OneTab, GiveUpStep, server, history
    <2> QED BY <2>1, <2>2
  <1>2. CASE RefreshCheck(t)
    <2> DEFINE kind == CheckAnswer(page[t].flight.tok, page[t].flight.exp)
    <2>1. kind \in {"none", "denied", "mismatch"}
      BY DEF CheckAnswer
    <2>2. PICK at \in {"checked", "back"} :
            page' = [page EXCEPT ![t].flight.at = at, ![t].flight.ans = Answer(kind)]
      BY <1>2 DEF RefreshCheck
    <2>3. RowsEnd
      BY <1>2, CheckedRows DEF RefreshCheck
    <2> HIDE DEF kind
    <2>4. Answer(kind).kind \notin {"bundle", "race"}
      BY <2>1, AnswerTypes DEF AnswerKinds
    <2>5. page[t].flight.at = "sent" /\ UNCHANGED <<cookie, lock, orphans, dropped, left>>
      BY <1>2 DEF RefreshCheck, history
    <2>6. /\ Others(t) /\ SameStore(page[t], page'[t]) /\ Rest(page[t], page'[t])
          /\ page'[t].flight.at = at /\ page'[t].flight.ans = Answer(kind)
          /\ page'[t].flight.tok = page[t].flight.tok
          /\ page'[t].flight.current = page[t].flight.current
      BY <1>f, <2>2
    <2> QED BY <2>3, <2>4, <2>5, <2>6 DEF OneTab, CheckStep
  <1>3. CASE RefreshRotate(t)
    BY <1>3, <1>f DEF RefreshRotate, OneTab, RotateStep, history
  <1>4. CASE RefreshBack(t)
    <2> DEFINE p == page[t]
               ck == CookieAfter(p.flight.ans)
               m == RunPage(p, ck)
               outcome == RunOutcome(p)
    <2>1. ck \in Cookies
      BY <1>p, Constants DEF CookieAfter, Named, Cookies, Answers
    <2>2. m \in Pages
      BY <1>p, <2>1, RunTypes DEF Named
    <2>3. /\ p.flight.at = "back" /\ cookie' = ck
          /\ UNCHANGED <<row, orphans, dropped, left>>
      BY <1>4 DEF RefreshBack, server
    <2>4. CASE outcome = "goes_on"
      <3>1. page' = [page EXCEPT ![t] = m] /\ lock' = lock
        BY <1>4, <2>4 DEF RefreshBack
      <3>2. Sends(p, m, ck) /\ p.flight.ans.kind \in {"race", "mismatch"}
            /\ (SameStore(p, m) \/ m.store = NoBundle)
        BY <1>p, <2>1, <2>4, RunFields
      <3>3. ck = cookie
        BY <3>2 DEF CookieAfter
      <3>4. page'[t] = m /\ Others(t)
        BY <1>o, <3>1
      <3> QED BY <2>3, <3>1, <3>2, <3>3, <3>4 DEF OneTab, AgainStep
    <2>5. CASE outcome # "goes_on"
      <3>1. page' = [page EXCEPT ![t] = Settle(m, outcome, ck)] /\ lock' = Unlocked(t)
        BY <1>4, <2>5 DEF RefreshBack
      <3>2. /\ Rest(p, m)
            /\ \/ SameStore(p, m)
               \/ m.store = NoBundle
               \/ /\ p.flight.current /\ p.flight.ans.kind = "bundle"
                  /\ m.store.sid = p.flight.ans.sid /\ m.store.ver = p.flight.ans.ver
        BY <1>p, <2>1, <2>5, RunFields
      <3>3. page'[t] = Settle(m, outcome, ck) /\ Others(t)
        BY <1>o, <3>1
      <3> HIDE DEF m, outcome, ck
      <3>4. page'[t] = NewPage \/ (Over(m, page'[t]) /\ SameStore(m, page'[t]))
        BY <2>1, <2>2, <3>3, SettleFields
      <3>5. NoBundle.sid = NoSid
        BY DEF NoBundle
      <3>6. \/ page'[t] = NewPage
            \/ Over(p, page'[t]) /\ (SameStore(p, page'[t]) \/ page'[t].store.sid = NoSid)
            \/ /\ Over(p, page'[t]) /\ p.flight.current /\ p.flight.ans.kind = "bundle"
               /\ page'[t].store.sid = p.flight.ans.sid
               /\ page'[t].store.ver = p.flight.ans.ver
        BY <3>2, <3>4, <3>5 DEF Over, Rest, SameStore
      <3> QED BY <2>3, <3>1, <3>3, <3>6 DEF OneTab, EndStep, ck
    <2> QED BY <2>4, <2>5
  <1>5. CASE RefreshFails(t)
    <2>1. PICK kind \in {"failed", "denied"} :
            page' = [page EXCEPT ![t].flight.at = "back", ![t].flight.ans = Answer(kind)]
      BY <1>5 DEF RefreshFails
    <2>2. Answer(kind).kind \notin {"bundle", "race"}
      BY AnswerTypes DEF AnswerKinds
    <2>3. RowsEnd
      BY <1>5 DEF RefreshFails, server, RowsEnd
    <2> QED BY <1>5, <1>f, <2>1, <2>2, <2>3
            DEF RefreshFails, OneTab, CheckStep, history, server
  <1>6. CASE AnswerLost(t)
    <2>1. page' = [page EXCEPT ![t].flight.ans = Answer("failed")]
      BY <1>6 DEF AnswerLost
    <2>2. /\ Others(t) /\ SameStore(page[t], page'[t]) /\ Rest(page[t], page'[t])
          /\ page'[t].flight.at = page[t].flight.at
          /\ page'[t].flight.ans = Answer("failed")
          /\ page'[t].flight.tok = page[t].flight.tok
          /\ page'[t].flight.current = page[t].flight.current
      BY <1>p, <2>1 DEF Others, SameStore, Rest, Pages, FlightSet
    <2> QED BY <1>6, <2>2 DEF AnswerLost, OneTab, LostStep, server
  <1> QED BY <1>1, <1>2, <1>3, <1>4, <1>5, <1>6

\* Navigation, calls and reloads.
LEMMA CallEffects ==
    ASSUME TypeOK, NEW t \in Tabs,
           \/ Navigate(t) \/ Expire(t) \/ CallSend(t) \/ CallOnce(t) \/ CallDone(t)
           \/ CallDenied(t) \/ ReplayDenied(t) \/ UserReload(t)
    PROVE  OneTab(t)
  <1>p. /\ page[t] \in Pages /\ page[t].flight \in FlightSet
        /\ page \in [Tabs -> Pages] /\ page[t].store \in Bundles /\ page[t].call \in Calls
    BY TypeNames DEF Pages
  <1>o. ASSUME NEW q, page' = [page EXCEPT ![t] = q] PROVE page'[t] = q /\ Others(t)
    BY <1>o, <1>p DEF Others
  <1>q. ASSUME NEW m, Untouched(page[t], m), m \in Pages
        PROVE  Untouched(page[t], Refresh(m)) \/ Starts(page[t], Refresh(m))
    BY <1>q, RefreshFields DEF Untouched, Starts, SameStore, SameFlight, Rest
  <1>s. ASSUME Others(t), UNCHANGED <<row, cookie, lock, orphans, dropped, left>>,
               Untouched(page[t], page'[t]) \/ Starts(page[t], page'[t])
        PROVE  OneTab(t)
    BY <1>s DEF OneTab, PlainStep, RowsEnd
  <1>c. \A c : Untouched(page[t], [page[t] EXCEPT !.call = c])
    BY <1>p DEF Untouched, SameStore, SameFlight, Rest, Pages
  <1>1. CASE Navigate(t)
    <2> DEFINE q == [page[t] EXCEPT !.boot = "complete"]
               m == [page[t] EXCEPT !.boot = "checking"]
    <2>1. /\ q \in Pages /\ m \in Pages
          /\ Untouched(page[t], q) /\ Untouched(page[t], m)
      BY <1>p, PartTypes DEF Untouched, SameStore, SameFlight, Rest, Pages
    <2>2. /\ page' = [page EXCEPT ![t] = q] \/ page' = [page EXCEPT ![t] = Refresh(m)]
          /\ UNCHANGED <<row, cookie, lock, orphans, dropped, left>>
      BY <1>1 DEF Navigate, server, history
    <2> HIDE DEF q, m
    <2> QED BY <1>o, <1>q, <1>s, <2>1, <2>2
  <1>2. CASE Expire(t)
    <2>1. Others(t) /\ Untouched(page[t], page'[t])
      BY <1>2, <1>p DEF Expire, Others, Untouched, SameStore, SameFlight, Rest,
         Pages, Bundles, NoBundle
    <2> QED BY <1>2, <1>s, <2>1 DEF Expire, server, history
  <1>3. CASE CallSend(t)
    <2>1. Others(t) /\ Untouched(page[t], page'[t])
      BY <1>3, <1>p DEF CallSend, Others, Untouched, SameStore, SameFlight, Rest, Pages
    <2> QED BY <1>3, <1>s, <2>1 DEF CallSend, server, history
  <1>4. CASE CallOnce(t)
    <2> DEFINE call == [at |-> "first", single |-> TRUE, tok |-> NoBundle]
               sent == [call EXCEPT !.at = "sent", !.tok = page[t].store]
               m == [page[t] EXCEPT !.call = call]
    <2>1. m \in Pages
      <3>1. call \in Calls
        BY Constants DEF Calls
      <3> HIDE DEF call
      <3> QED BY <1>p, <3>1, PartTypes
    <2>2. /\ \/ page' = [page EXCEPT ![t].call = sent]
             \/ page' = [page EXCEPT ![t] = Refresh(m)]
          /\ UNCHANGED <<row, cookie, lock, orphans, dropped, left>>
      BY <1>4 DEF CallOnce, server, history
    <2>3. Untouched(page[t], m)
      BY <1>c
    <2> HIDE DEF call, sent, m
    <2>4. CASE page' = [page EXCEPT ![t].call = sent]
      <3>1. Others(t) /\ Untouched(page[t], page'[t])
        BY <1>p, <2>4 DEF Others, Untouched, SameStore, SameFlight, Rest, Pages
      <3> QED BY <1>s, <2>2, <3>1
    <2>5. CASE page' = [page EXCEPT ![t] = Refresh(m)]
      BY <1>o, <1>q, <1>s, <2>1, <2>2, <2>3, <2>5
    <2> QED BY <2>2, <2>4, <2>5
  <1>5. CASE CallDone(t)
    <2>1. Others(t) /\ Untouched(page[t], page'[t])
      BY <1>5, <1>p DEF CallDone, Others, Untouched, SameStore, SameFlight, Rest, Pages
    <2> QED BY <1>5, <1>s, <2>1 DEF CallDone, server, history
  <1>6. CASE CallDenied(t)
    <2> DEFINE q == [page[t] EXCEPT !.call = NoCall]
               m == [page[t] EXCEPT !.call.at = "wait"]
    <2>1. m \in Pages /\ Untouched(page[t], q) /\ Untouched(page[t], m)
      <3>1. [page[t].call EXCEPT !.at = "wait"] \in Calls
        BY <1>p DEF Calls
      <3>2. [page[t] EXCEPT !.call = [page[t].call EXCEPT !.at = "wait"]] \in Pages
        BY <1>p, <3>1, PartTypes
      <3> QED BY <1>p, <1>c, <3>2
    <2>2. /\ page' = [page EXCEPT ![t] = q] \/ page' = [page EXCEPT ![t] = Refresh(m)]
          /\ UNCHANGED <<row, cookie, lock, orphans, dropped, left>>
      BY <1>6 DEF CallDenied, server, history
    <2> HIDE DEF q, m
    <2> QED BY <1>o, <1>q, <1>s, <2>1, <2>2
  <1>7. CASE ReplayDenied(t) \/ UserReload(t)
    BY <1>7 DEF ReplayDenied, UserReload, OneTab, ReloadStep, server
  <1> QED BY <1>1, <1>2, <1>3, <1>4, <1>5, <1>6, <1>7

\* Signing in and out.
LEMMA LoginEffects ==
    ASSUME TypeOK, NEW t \in Tabs,
           \/ LoginServe(t) \/ LoginBack(t) \/ LeaveSend(t) \/ LeaveServe(t)
           \/ LeaveFails(t) \/ LeaveBack(t)
    PROVE  OneTab(t)
  <1>p. /\ page[t] \in Pages /\ page \in [Tabs -> Pages] /\ page[t].leave \in Leaves
        /\ page[t].enter \in SidsOrNone
    BY TypeNames DEF Pages
  <1>o. ASSUME NEW q, page' = [page EXCEPT ![t] = q] PROVE page'[t] = q /\ Others(t)
    BY <1>o, <1>p DEF Others
  <1>q. ASSUME NEW m, Untouched(page[t], m), m \in Pages
        PROVE  Untouched(page[t], Refresh(m)) \/ Starts(page[t], Refresh(m))
    BY <1>q, RefreshFields DEF Untouched, Starts, SameStore, SameFlight, Rest
  <1>s. ASSUME Others(t), UNCHANGED <<row, lock, orphans, dropped, left>>,
               cookie' \in {cookie, NoCookie},
               Untouched(page[t], page'[t]) \/ Starts(page[t], page'[t])
        PROVE  OneTab(t)
    BY <1>s DEF OneTab, PlainStep, RowsEnd
  <1>l. \A l : Untouched(page[t], [page[t] EXCEPT !.leave = l])
    BY <1>p DEF Untouched, SameStore, SameFlight, Rest, Pages
  <1>1. CASE LoginServe(t)
    <2>1. PICK s \in Sids :
            /\ s = 1 + Cardinality({x \in Sids : row[x] # NoRow})
            /\ page[t].enter = NoSid
            /\ row' = [row EXCEPT ![s] = [NoRow EXCEPT !.status = "active",
                                                       !.auth = userAuth]]
            /\ page' = [page EXCEPT ![t].enter = s]
            /\ UNCHANGED <<cookie, lock, orphans, dropped, left>>
      BY <1>1 DEF LoginServe, history
    <2>2. /\ Others(t) /\ page'[t].enter = s
          /\ SameStore(page[t], page'[t]) /\ SameFlight(page[t], page'[t])
          /\ page'[t].change = page[t].change
      BY <1>p, <2>1 DEF Others, SameStore, SameFlight, Pages
    <2> QED BY <2>1, <2>2 DEF OneTab, LoginStep
  <1>2. CASE LoginBack(t)
    <2> DEFINE p == [page[t] EXCEPT !.enter = NoSid]
               s == page[t].enter
               b == [sid |-> s, ver |-> 1, fresh |-> TRUE]
    <2>1. /\ s # NoSid /\ cookie' = [sid |-> s, gen |-> 0]
          /\ page' = [page EXCEPT ![t] = p] \/ page' = [page EXCEPT ![t] = Accept(p, b)]
          /\ UNCHANGED <<row, lock, orphans, dropped, left>>
      BY <1>2 DEF LoginBack, server
    <2>2. /\ p \in Pages /\ p.enter = NoSid /\ p.change = page[t].change
          /\ SameStore(page[t], p) /\ SameFlight(page[t], p)
      BY <1>p, Constants, PartTypes DEF SameStore, SameFlight, Pages
    <2>3. b.sid = s /\ b.ver = 1
      OBVIOUS
    <2> HIDE DEF p, b
    <2>4. CASE page' = [page EXCEPT ![t] = p]
      BY <1>o, <2>1, <2>2, <2>4 DEF OneTab, EnterStep
    <2>5. CASE page' = [page EXCEPT ![t] = Accept(p, b)]
      <3>1. Takes(p, page'[t], s, 1) /\ Rest(p, page'[t]) /\ Others(t)
        BY <1>o, <2>2, <2>3, <2>5, AcceptFields
      <3>2. Takes(page[t], page'[t], s, 1) /\ page'[t].enter = NoSid
            /\ page'[t].change = page[t].change
        BY <2>2, <3>1 DEF Takes, Rest, SameFlight
      <3> QED BY <2>1, <3>1, <3>2 DEF OneTab, EnterStep
    <2> QED BY <2>1, <2>4, <2>5
  <1>3. CASE LeaveSend(t)
    <2>1. page' = [page EXCEPT ![t] = SendLeave(page[t], cookie, TRUE)]
          /\ UNCHANGED <<row, cookie, lock, orphans, dropped, left>>
      BY <1>3 DEF LeaveSend, server, history
    <2>2. Others(t) /\ Untouched(page[t], page'[t])
      BY <1>p, <2>1
      DEF SendLeave, Others, Untouched, SameStore, SameFlight, Rest, Pages
    <2> QED BY <1>s, <2>1, <2>2
  <1>4. CASE LeaveServe(t)
    <2>1. PICK ans \in {"mismatch", "ok"}, clears \in BOOLEAN :
            page' = [page EXCEPT ![t].leave.at = "back", ![t].leave.ans = ans,
                                 ![t].leave.clears = clears]
      BY <1>4 DEF LeaveServe
    <2>2. Others(t) /\ Untouched(page[t], page'[t])
      BY <1>p, <2>1 DEF Others, Untouched, SameStore, SameFlight, Rest, Pages
    <2>3. row' = row \/ \E s \in Sids : Active(s) /\ row' = Revoked(s, "logout")
      BY <1>4 DEF LeaveServe, Active
    <2>4. RowsEnd
      BY <2>3, RevokedRows DEF RowsEnd
    <2> QED BY <1>4, <2>2, <2>4 DEF LeaveServe, OneTab, PlainStep, history
  <1>5. CASE LeaveFails(t)
    <2>1. Others(t) /\ Untouched(page[t], page'[t])
      BY <1>5, <1>p DEF LeaveFails, Others, Untouched, SameStore, SameFlight, Rest, Pages
    <2> QED BY <1>5, <1>s, <2>1 DEF LeaveFails, server, history
  <1>6. CASE LeaveBack(t)
    <2> DEFINE done == [page[t] EXCEPT !.leave = NoLeave]
               m == [page[t] EXCEPT !.leave.at = "wait"]
               more == [left EXCEPT ![t] = @ \cup {s \in Sids : s = page[t].store.sid
                                                                /\ ~Active(s)}]
    <2>1. m \in Pages /\ Untouched(page[t], m) /\ Untouched(page[t], done)
          /\ done \in Pages
      <3>1. [page[t].leave EXCEPT !.at = "wait"] \in Leaves
        BY <1>p DEF Leaves
      <3>2. [page[t] EXCEPT !.leave = [page[t].leave EXCEPT !.at = "wait"]] \in Pages
        BY <1>p, <3>1, PartTypes
      <3> QED BY <1>p, <1>l, <3>2, Constants, PartTypes
    <2>2. /\ UNCHANGED <<row, lock, orphans, dropped>> /\ cookie' \in {cookie, NoCookie}
          /\ \/ page' = [page EXCEPT ![t] = Clear(done)] /\ left' = more
             \/ page' = [page EXCEPT ![t] = Refresh(m)] /\ left' = left
             \/ page' = [page EXCEPT ![t] = done] /\ left' = left
      BY <1>6 DEF LeaveBack, server
    <2> HIDE DEF done, m
    <2>3. CASE page' = [page EXCEPT ![t] = Clear(done)] /\ left' = more
      <3>1. Takes(done, page'[t], NoSid, 0) /\ Rest(done, page'[t]) /\ Others(t)
        BY <1>o, <2>1, <2>3, AcceptFields
      <3>2. Takes(page[t], page'[t], NoSid, 0) /\ Rest(page[t], page'[t])
        BY <2>1, <3>1 DEF Takes, Rest, Untouched, SameFlight
      <3> QED BY <2>2, <2>3, <3>1, <3>2 DEF OneTab, ClearStep
    <2>4. CASE page' = [page EXCEPT ![t] = Refresh(m)] /\ left' = left
      BY <1>o, <1>q, <1>s, <2>1, <2>2, <2>4
    <2>5. CASE page' = [page EXCEPT ![t] = done] /\ left' = left
      BY <1>o, <1>s, <2>1, <2>2, <2>5
    <2> QED BY <2>2, <2>3, <2>4, <2>5
  <1> QED BY <1>1, <1>2, <1>3, <1>4, <1>5, <1>6

\* Security changes and events.
LEMMA ChangeEffects ==
    ASSUME TypeOK, NEW t \in Tabs,
           \/ ChangeServe(t) \/ ChangeAdvance(t) \/ ChangeBack(t)
           \/ Deliver(t) \/ EventLost(t)
    PROVE  OneTab(t)
  <1>p. /\ page[t] \in Pages /\ page \in [Tabs -> Pages] /\ page[t].change \in Changes
    BY TypeNames DEF Pages
  <1>o. ASSUME NEW q, page' = [page EXCEPT ![t] = q] PROVE page'[t] = q /\ Others(t)
    BY <1>o, <1>p DEF Others
  <1>c. ASSUME NEW d, page' = [page EXCEPT ![t].change = d]
        PROVE  /\ Others(t) /\ page'[t].change = d /\ page'[t].enter = page[t].enter
               /\ SameStore(page[t], page'[t]) /\ SameFlight(page[t], page'[t])
    BY <1>c, <1>p DEF Others, SameStore, SameFlight, Pages
  <1>1. CASE ChangeServe(t)
    <2> DEFINE c == [at |-> "bumped", sid |-> page[t].store.sid, ver |-> page[t].store.ver]
    <2>1. page' = [page EXCEPT ![t].change = c] /\ page[t].change = NoChange
          /\ UNCHANGED <<row, cookie, lock, orphans, dropped, left>>
      BY <1>1 DEF ChangeServe, history
    <2>2. c.at = "bumped" /\ c.sid = page[t].store.sid /\ NoChange.at = "none"
      BY DEF NoChange
    <2> HIDE DEF c
    <2> QED BY <1>c, <2>1, <2>2 DEF OneTab, ChangeStep
  <1>2. CASE ChangeAdvance(t)
    <2> DEFINE c == page[t].change
               d == [c EXCEPT !.at = "back", !.ver = @ + 1]
    <2>1. c.at = "bumped" /\ UNCHANGED <<cookie, lock, orphans, dropped, left>>
      BY <1>2 DEF ChangeAdvance, history
    <2>2. d.at = "back" /\ d.sid = c.sid /\ d.ver = c.ver + 1
      BY <1>p DEF Changes
    <2>3. CASE Active(c.sid) /\ row[c.sid].ver = c.ver
      <3>1. /\ page' = [page EXCEPT ![t].change = d]
            /\ row' = [s \in Sids |->
                  IF s = c.sid THEN [row[s] EXCEPT !.ver = @ + 1, !.auth = userAuth]
                  ELSE IF Active(s)
                    THEN [row[s] EXCEPT !.status = "revoked", !.why = "changed"]
                  ELSE row[s]]
        BY <1>2, <2>3 DEF ChangeAdvance
      <3>2. c.sid \in Sids /\ row[c.sid].status = "active"
        BY <2>3 DEF Active
      <3>3. /\ row'[c.sid] = [row[c.sid] EXCEPT !.ver = @ + 1, !.auth = userAuth]
            /\ \A s \in Sids \ {c.sid} :
                  row'[s] = IF Active(s)
                              THEN [row[s] EXCEPT !.status = "revoked", !.why = "changed"]
                              ELSE row[s]
        BY <3>1, <3>2
      <3> HIDE DEF d
      <3> QED BY <1>c, <2>1, <2>2, <2>3, <3>1, <3>2, <3>3 DEF OneTab, ChangeStep
    <2>4. CASE ~(Active(c.sid) /\ row[c.sid].ver = c.ver)
      <3>1. page' = [page EXCEPT ![t].change = NoChange] /\ row' = row
        BY <1>2, <2>4 DEF ChangeAdvance
      <3> QED BY <1>c, <2>1, <3>1 DEF OneTab, ChangeStep
    <2> QED BY <2>3, <2>4
  <1>3. CASE ChangeBack(t)
    <2> DEFINE p == [page[t] EXCEPT !.change = NoChange]
               c == page[t].change
               b == [sid |-> c.sid, ver |-> c.ver, fresh |-> TRUE]
    <2>1. /\ p \in Pages /\ p.change = NoChange /\ p.enter = page[t].enter
          /\ p.store = page[t].store /\ SameFlight(page[t], p) /\ SameStore(page[t], p)
      BY <1>p, Constants, PartTypes DEF SameFlight, SameStore, Pages
    <2>2. /\ c.at = "back"
          /\ \/ page' = [page EXCEPT ![t] = p]
             \/ /\ p.store.sid = c.sid
                /\ page' = [page EXCEPT ![t] = Accept(p, b)]
          /\ UNCHANGED <<row, cookie, lock, orphans, dropped, left>>
      BY <1>3 DEF ChangeBack, server, history
    <2>3. b.sid = c.sid /\ b.ver = c.ver
      OBVIOUS
    <2> HIDE DEF p, b
    <2>4. CASE page' = [page EXCEPT ![t] = p]
      BY <1>o, <2>1, <2>2, <2>4 DEF OneTab, ChangedStep
    <2>5. CASE p.store.sid = c.sid /\ page' = [page EXCEPT ![t] = Accept(p, b)]
      <3>1. Takes(p, page'[t], c.sid, c.ver) /\ Rest(p, page'[t]) /\ Others(t)
        BY <1>o, <2>1, <2>3, <2>5, AcceptFields
      <3>2. Takes(page[t], page'[t], c.sid, c.ver) /\ page'[t].enter = page[t].enter
            /\ page'[t].change = NoChange
        BY <2>1, <3>1 DEF Takes, Rest, SameFlight
      <3> QED BY <2>1, <2>2, <2>5, <3>1, <3>2 DEF OneTab, ChangedStep
    <2> QED BY <2>2, <2>4, <2>5
  <1>4. CASE Deliver(t)
    <2>1. CASE Reload(t)
      BY <1>4, <2>1 DEF Deliver, OneTab, ReloadStep, server
    <2>2. CASE ~Reload(t)
      <3>1. /\ page' = page \/ page' = [page EXCEPT ![t] = Clear(page[t])]
            /\ UNCHANGED <<row, lock, orphans, dropped, cookie, left>>
        BY <1>4, <2>2 DEF Deliver, server
      <3>2. CASE page' = page
        <4>1. Others(t) /\ Untouched(page[t], page'[t])
          BY <3>2 DEF Others, Untouched, SameStore, SameFlight, Rest
        <4> QED BY <3>1, <4>1 DEF OneTab, PlainStep, RowsEnd
      <3>3. CASE page' = [page EXCEPT ![t] = Clear(page[t])]
        <4>1. Takes(page[t], page'[t], NoSid, 0) /\ Rest(page[t], page'[t]) /\ Others(t)
          BY <1>o, <1>p, <3>3, AcceptFields
        <4> QED BY <3>1, <4>1 DEF OneTab, ClearStep
      <3> QED BY <3>1, <3>2, <3>3
    <2> QED BY <2>1, <2>2
  <1>5. CASE EventLost(t)
    <2>1. Others(t) /\ Untouched(page[t], page'[t])
      BY <1>5 DEF EventLost, Others, Untouched, SameStore, SameFlight, Rest
    <2> QED BY <1>5, <2>1 DEF EventLost, OneTab, PlainStep, RowsEnd, server
  <1> QED BY <1>1, <1>2, <1>3, <1>4, <1>5

\* Every step is one of these.
LEMMA Steps ==
    ASSUME TypeOK, Named, Next
    PROVE  \/ \E t \in Tabs : OneTab(t)
           \/ RevokeStep
           \/ \E s \in Sids : GraceStep(s)
           \/ \E q \in orphans : OrphanStep(q)
  <1>1. ASSUME NEW t \in Tabs, TabStep(t) \/ UserStep(t) \/ FaultStep(t)
        PROVE  OneTab(t)
    BY <1>1, RefreshEffects, CallEffects, LoginEffects, ChangeEffects
    DEF TabStep, UserStep, FaultStep
  <1>2. ASSUME NEW s \in Sids, RemoteRevoke(s) PROVE RevokeStep
    <2>1. RowsEnd
      BY <1>2, RevokedRows DEF RemoteRevoke
    <2> QED BY <1>2, <2>1 DEF RemoteRevoke, RevokeStep, history
  <1>3. ASSUME NEW s \in Sids, GraceEnds(s) PROVE GraceStep(s)
    BY <1>3 DEF GraceEnds, GraceStep, history
  <1>4. ASSUME NEW q \in orphans, OrphanServe(q) PROVE OrphanStep(q)
    BY <1>4, CheckedRows DEF OrphanServe, OrphanStep
  <1> QED BY <1>1, <1>2, <1>3, <1>4 DEF Next

LEMMA NamedStep ==
    ASSUME TypeOK, Named, Next
    PROVE  Named'
  <1> DEFINE Good(p) == /\ p.flight.ans.kind = "bundle" => p.flight.ans.sid \in Sids
                        /\ p.change.at = "back" => p.change.sid \in Sids
  <1>g. \A t \in Tabs : Good(page[t])
    BY DEF Named
  <1>k. /\ NoAnswer.kind = "none" /\ NoFlight.ans = NoAnswer /\ NoChange.at = "none"
        /\ NewPage.flight = NoFlight /\ NewPage.change = NoChange
        /\ Answer("failed").kind = "failed"
    BY DEF NoAnswer, NoFlight, NoChange, NewPage, Answer
  <1>t. \A t \in Tabs : page[t].flight.tok \in Cookies /\ page \in [Tabs -> Pages]
    BY TypeNames DEF Pages, FlightSet
  <1>1. ASSUME NEW t \in Tabs, OneTab(t) PROVE Good(page'[t]) /\ Others(t)
    <2>1. CASE PlainStep(t) \/ SendStep(t) \/ GiveUpStep(t) \/ AgainStep(t) \/ EndStep(t)
      BY <1>g, <1>k, <2>1 DEF PlainStep, SendStep, GiveUpStep, AgainStep, EndStep,
         Untouched, Starts, Sends, Over, SameFlight, Rest
    <2>2. CASE CheckStep(t) \/ LostStep(t)
      BY <1>g, <1>k, <2>2 DEF CheckStep, LostStep, Rest
    <2>3. CASE RotateStep(t)
      <3>1. RotateAnswer(page[t].flight.tok).kind = "bundle" =>
               RotateAnswer(page[t].flight.tok).sid \in Sids
        BY <1>t, RotateTypes DEF Active
      <3> QED BY <1>g, <2>3, <3>1 DEF RotateStep, Rest
    <2>4. CASE ReloadStep(t)
      BY <1>k, <1>t, <2>4 DEF ReloadStep, Reload, Others
    <2>5. CASE ClearStep(t) \/ LoginStep(t) \/ EnterStep(t) \/ ChangedStep(t)
      BY <1>g, <1>k, <2>5 DEF ClearStep, LoginStep, EnterStep, ChangedStep, Takes,
         Rest, SameFlight
    <2>6. CASE ChangeStep(t)
      BY <1>g, <1>k, <2>6 DEF ChangeStep, SameFlight
    <2> QED BY <1>1, <2>1, <2>2, <2>3, <2>4, <2>5, <2>6 DEF OneTab
  <1>2. ASSUME NEW t \in Tabs, Good(page'[t]), Others(t) PROVE Named'
    BY <1>2, <1>g DEF Named, Others
  <1>3. ASSUME page' = page PROVE Named'
    BY <1>3, <1>g DEF Named
  <1> QED BY <1>1, <1>2, <1>3, Steps DEF RevokeStep, GraceStep, OrphanStep

LEMMA TypeStep ==
    ASSUME TypeOK, Named, [Next]_vars
    PROVE  TypeOK' /\ Named'
  <1>1. CASE Next
    <2>1. TypeOK'
      BY <1>1, RefreshStepTypes, CallStepTypes, LoginStepTypes, OtherStepTypes
      DEF Next, TabStep, UserStep, FaultStep
    <2> QED BY <1>1, <2>1, NamedStep
  <1>2. CASE UNCHANGED vars
    BY <1>2 DEF vars, TypeOK, Named
  <1> QED BY <1>1, <1>2

LEMMA TypeInit == Init => TypeOK /\ Named
  <1> SUFFICES ASSUME Init PROVE TypeOK /\ Named
    OBVIOUS
  <1>1. row \in [Sids -> Rows]
    <2>1. [NoRow EXCEPT !.status = "active", !.auth = 1] \in Rows
      BY Constants DEF Rows
    <2> QED BY <2>1, Constants DEF Init
  <1>2. cookie \in Cookies
    BY WebAssumption DEF Init, Cookies, Sids
  <1>3. << >> \in Seq(Events)
    OBVIOUS
  <1>4. TypeOK
    <2>1. page \in [Tabs -> Pages] /\ lock \in Tabs \cup {Nobody}
          /\ queue \in [Tabs -> Seq(Events)]
      BY <1>3, Constants DEF Init
    <2>2. userAuth \in Nat /\ events \in 0..MaxEvents /\ faults \in 0..MaxFaults
      BY WebAssumption DEF Init
    <2>3. /\ orphans \in SUBSET Requests /\ dropped \in SUBSET Sids
          /\ left \in [Tabs -> SUBSET Sids] /\ astray \in BOOLEAN
      BY DEF Init
    <2> QED BY <1>1, <1>2, <2>1, <2>2, <2>3, TypeNames
  <1> QED BY <1>4 DEF Init, Named, NewPage, NoFlight, NoAnswer, NoChange

\* Types are kept by every step of every tab, of the server and of the
\* browser, for any number of tabs and logins.
THEOREM WebTypes == Spec => [](TypeOK /\ Named)
  BY TypeInit, TypeStep, PTL DEF Spec

-----------------------------------------------------------------------------
(* The rows of user_sessions. *)

\* Logins take the rows in order.
InOrder ==
    \E n \in 0..MaxSessions : \A s \in Sids : row[s] = NoRow <=> s > n

\* The secret before the current one is the one it was derived from.
RowChain ==
    \A s \in Sids :
        /\ row[s].prev >= 0 => row[s].gen = row[s].prev + 1
        /\ row[s].ver >= 1
        /\ row[s].status = "absent" => row[s] = NoRow

RowInv == InOrder /\ RowChain

\* A row never goes back: its version grows, it ends once, and it stays.
Onward(s) ==
    /\ row[s].ver <= row'[s].ver
    /\ row[s].status = "revoked" => row'[s].status = "revoked"
    /\ row[s] # NoRow => row'[s] # NoRow

\* The part of RowChain that is about one row.
Chained(r) ==
    /\ r.prev >= 0 => r.gen = r.prev + 1
    /\ r.ver >= 1
    /\ r.status = "absent" => r = NoRow

\* The secret that is presented is the current one, and the next takes its
\* place; or it is the previous one, too late, and the session ends.
Rotates(s, tok) ==
    /\ s = tok.sid /\ row[s].status = "active" /\ tok.gen = row[s].gen
    /\ row'[s].prev = row[s].gen /\ row'[s].gen = row[s].gen + 1 /\ row'[s].grace
    /\ row'[s].status = "active" /\ row'[s].ver = row[s].ver /\ row'[s].why = row[s].why

Reuses(s, tok) ==
    /\ s = tok.sid /\ row[s].status = "active"
    /\ tok.gen # row[s].gen /\ tok.gen = row[s].prev /\ ~row[s].grace
    /\ row'[s].status = "revoked"
    /\ row'[s].gen = row[s].gen /\ row'[s].prev = row[s].prev
    /\ row'[s].grace = row[s].grace /\ row'[s].ver = row[s].ver

LEMMA RotatedRows ==
    ASSUME TypeOK, NEW tok \in Cookies, row' = RotateRow(tok)
    PROVE  /\ \A s \in Sids : row'[s] = row[s] \/ Rotates(s, tok) \/ Reuses(s, tok)
           /\ Active(tok.sid) /\ tok.gen = row[tok.sid].gen => Rotates(tok.sid, tok)
  <1>1. row \in [Sids -> Rows] /\ tok.gen \in Nat
    BY TypeNames, Sidded
  <1>2. CASE ~Active(tok.sid)
    BY <1>2 DEF RotateRow
  <1>3. CASE Active(tok.sid) /\ tok.gen = row[tok.sid].gen
    <2>1. tok.sid \in Sids /\ row[tok.sid] \in Rows /\ row[tok.sid].status = "active"
      BY <1>1, <1>3 DEF Active
    <2>2. row[tok.sid].gen >= 0
      BY <2>1 DEF Rows
    <2>3. row' = [row EXCEPT ![tok.sid].prev = row[tok.sid].gen, ![tok.sid].grace = TRUE,
                             ![tok.sid].gen = tok.gen + 1]
      BY <1>3, <2>2 DEF RotateRow, Presents, Derive
    <2>4. \A s \in Sids \ {tok.sid} : row'[s] = row[s]
      BY <1>1, <2>1, <2>3
    <2>5. Rotates(tok.sid, tok)
      BY <1>1, <1>3, <2>1, <2>3 DEF Rotates, Rows
    <2> QED BY <1>3, <2>4, <2>5
  <1>4. CASE Active(tok.sid) /\ tok.gen # row[tok.sid].gen
    <2>1. tok.sid \in Sids /\ row[tok.sid] \in Rows /\ row[tok.sid].status = "active"
      BY <1>1, <1>4 DEF Active
    <2>2. CASE Presents(tok, row[tok.sid].prev) /\ ~row[tok.sid].grace
      <3>1. row' = Revoked(tok.sid, "refresh_reuse")
        BY <1>4, <2>2 DEF RotateRow, Presents
      <3>2. \A s \in Sids \ {tok.sid} : row'[s] = row[s]
        BY <1>1, <2>1, <3>1 DEF Revoked
      <3>3. Reuses(tok.sid, tok)
        BY <1>1, <1>4, <2>1, <2>2, <3>1 DEF Reuses, Revoked, Presents, Rows
      <3> QED BY <1>4, <3>2, <3>3
    <2>3. CASE ~(Presents(tok, row[tok.sid].prev) /\ ~row[tok.sid].grace)
      BY <1>4, <2>3 DEF RotateRow, Presents
    <2> QED BY <2>2, <2>3
  <1> QED BY <1>2, <1>3, <1>4

\* Steps that keep to the rows there are.
LEMMA RowsGoOn ==
    ASSUME TypeOK, TypeOK', RowInv,
           \A s \in Sids :
              \/ row'[s] = row[s]
              \/ /\ row[s].status # "absent" /\ row'[s].status # "absent"
                 /\ Onward(s) /\ Chained(row'[s])
    PROVE  RowInv' /\ \A s \in Sids : Onward(s)
  <1>1. \A s \in Sids : row[s].ver \in Nat
    BY TypeNames DEF Rows
  <1>2. \A s \in Sids : Onward(s)
    BY <1>1 DEF Onward
  <1>3. RowChain'
    BY DEF RowInv, RowChain, Chained
  <1>4. NoRow.status = "absent"
    BY DEF NoRow
  <1>5. \A s \in Sids : row'[s] = NoRow <=> row[s] = NoRow
    BY <1>4
  <1> QED BY <1>2, <1>3, <1>5 DEF RowInv, InOrder

\* A login takes the first row that is free.
LEMMA LoginTakesNext ==
    ASSUME TypeOK, InOrder, NEW s \in Sids,
           s = 1 + Cardinality({x \in Sids : row[x] # NoRow})
    PROVE  row[s] = NoRow /\ \A x \in Sids : row[x] = NoRow <=> x > s - 1
  <1>1. PICK n \in 0..MaxSessions : \A x \in Sids : row[x] = NoRow <=> x > n
    BY DEF InOrder
  <1>2. {x \in Sids : row[x] # NoRow} = 1..n
    BY <1>1, WebAssumption DEF Sids
  <1>3. Cardinality(1..n) = n
    <2>1. 1 \in Int /\ n \in Int /\ n >= 0
      BY <1>1, WebAssumption
    <2>2. Cardinality(1..n) = IF 1 > n THEN 0 ELSE n - 1 + 1
      BY <2>1, FS_Interval
    <2> QED BY <2>1, <2>2
  <1>4. s = n + 1
    <2>1. s = 1 + Cardinality(1..n)
      BY <1>2
    <2> QED BY <1>3, <2>1
  <1> QED BY <1>1, <1>4, WebAssumption DEF Sids

LEMMA RowStep ==
    ASSUME TypeOK, TypeOK', Named, RowInv, Next
    PROVE  RowInv' /\ \A s \in Sids : Onward(s)
  <1>r. \A s \in Sids :
          /\ row[s] \in Rows /\ row[s].ver \in Nat /\ row[s].gen \in Nat
          /\ row[s].prev \in Nat \cup {-1} /\ Chained(row[s])
    BY TypeNames DEF Rows, RowInv, RowChain, Chained
  <1>n. NoRow.status = "absent"
    BY DEF NoRow
  <1>s. ASSUME NEW s \in Sids, row'[s] = row[s] PROVE Onward(s)
    BY <1>s, <1>r DEF Onward
  <1>1. CASE row' = row
    BY <1>1, RowsGoOn
  <1>2. CASE RowsEnd
    <2>1. \A s \in Sids :
              \/ row'[s] = row[s]
              \/ /\ row[s].status # "absent" /\ row'[s].status # "absent"
                 /\ Onward(s) /\ Chained(row'[s])
      BY <1>2, <1>r, <1>n DEF RowsEnd, Onward, Chained
    <2> QED BY <2>1, RowsGoOn
  <1>3. ASSUME NEW tok \in Cookies, row' = RotateRow(tok)
        PROVE  RowInv' /\ \A s \in Sids : Onward(s)
    <2>1. \A s \in Sids : row'[s] = row[s] \/ Rotates(s, tok) \/ Reuses(s, tok)
      BY <1>3, RotatedRows
    <2>2. \A s \in Sids :
              \/ row'[s] = row[s]
              \/ /\ row[s].status # "absent" /\ row'[s].status # "absent"
                 /\ Onward(s) /\ Chained(row'[s])
      BY <1>r, <1>n, <2>1 DEF Rotates, Reuses, Onward, Chained
    <2> QED BY <2>2, RowsGoOn
  <1>4. ASSUME NEW t \in Tabs, LoginStep(t)
        PROVE  RowInv' /\ \A s \in Sids : Onward(s)
    <2>1. PICK s \in Sids :
            /\ s = 1 + Cardinality({x \in Sids : row[x] # NoRow})
            /\ row' = [row EXCEPT ![s] = [NoRow EXCEPT !.status = "active",
                                                       !.auth = userAuth]]
      BY <1>4 DEF LoginStep
    <2>2. row[s] = NoRow /\ \A x \in Sids : row[x] = NoRow <=> x > s - 1
      BY <2>1, LoginTakesNext DEF RowInv
    <2>3. /\ row'[s].status = "active" /\ row'[s].ver = 1 /\ row'[s].prev = -1
          /\ \A x \in Sids \ {s} : row'[x] = row[x]
      BY <2>1, TypeNames DEF NoRow
    <2>4. \A x \in Sids : Onward(x)
      BY <1>s, <2>2, <2>3 DEF Onward, NoRow
    <2>5. RowChain'
      BY <1>r, <2>3 DEF RowChain, Chained
    <2>6. InOrder'
      <3>1. s \in 0..MaxSessions
        BY WebAssumption DEF Sids
      <3>2. \A x \in Sids : row'[x] = NoRow <=> x > s
        BY <1>n, <2>2, <2>3 DEF Sids
      <3> QED BY <3>1, <3>2 DEF InOrder
    <2> QED BY <2>4, <2>5, <2>6 DEF RowInv
  <1>5. ASSUME NEW t \in Tabs, ChangeStep(t)
        PROVE  RowInv' /\ \A s \in Sids : Onward(s)
    <2>1. CASE row' = row
      BY <1>1, <2>1
    <2>2. CASE row' # row
      <3> DEFINE c == page[t].change
      <3>1. /\ c.sid \in Sids /\ row[c.sid].status = "active"
            /\ row'[c.sid] = [row[c.sid] EXCEPT !.ver = @ + 1, !.auth = userAuth]
            /\ \A s \in Sids \ {c.sid} :
                  row'[s] = IF Active(s)
                              THEN [row[s] EXCEPT !.status = "revoked", !.why = "changed"]
                              ELSE row[s]
        BY <1>5, <2>2 DEF ChangeStep
      <3>2. /\ row'[c.sid].status = "active" /\ row'[c.sid].ver = row[c.sid].ver + 1
            /\ row'[c.sid].gen = row[c.sid].gen /\ row'[c.sid].prev = row[c.sid].prev
        BY <1>r, <3>1 DEF Rows
      <3>3. \A s \in Sids \ {c.sid} :
               \/ row'[s] = row[s]
               \/ /\ row[s].status = "active" /\ row'[s].status = "revoked"
                  /\ row'[s].gen = row[s].gen /\ row'[s].prev = row[s].prev
                  /\ row'[s].ver = row[s].ver
        <4> TAKE s \in Sids \ {c.sid}
        <4>1. CASE Active(s)
          <5>1. row'[s] = [row[s] EXCEPT !.status = "revoked", !.why = "changed"]
            BY <3>1, <4>1
          <5> QED BY <1>r, <4>1, <5>1 DEF Active, Rows
        <4>2. CASE ~Active(s)
          BY <3>1, <4>2
        <4> QED BY <4>1, <4>2
      <3>4. \A s \in Sids :
              \/ row'[s] = row[s]
              \/ /\ row[s].status # "absent" /\ row'[s].status # "absent"
                 /\ Onward(s) /\ Chained(row'[s])
        <4> TAKE s \in Sids
        <4>1. CASE s = c.sid
          <5>1. Chained(row[s]) /\ row[s].ver \in Nat
            BY <1>r
          <5>2. row[s].status = "active" /\ row'[s].status = "active"
                /\ row'[s].ver = row[s].ver + 1
                /\ row'[s].gen = row[s].gen /\ row'[s].prev = row[s].prev
            BY <3>1, <3>2, <4>1
          <5>3. row'[s].ver >= 1 /\ row[s].ver <= row'[s].ver
            BY <5>1, <5>2
          <5> QED BY <1>n, <5>1, <5>2, <5>3 DEF Onward, Chained
        <4>2. CASE s # c.sid
          <5>1. Chained(row[s]) /\ row[s].ver \in Nat
            BY <1>r
          <5> QED BY <1>n, <3>3, <4>2, <5>1 DEF Onward, Chained
        <4> QED BY <4>1, <4>2
      <3> QED BY <3>4, RowsGoOn
    <2> QED BY <2>1, <2>2
  <1>6. ASSUME NEW s \in Sids, GraceStep(s)
        PROVE  RowInv' /\ \A x \in Sids : Onward(x)
    <2>1. row' = [row EXCEPT ![s].grace = FALSE] /\ row[s].grace
      BY <1>6 DEF GraceStep
    <2>2. /\ row'[s].status = row[s].status /\ row'[s].ver = row[s].ver
          /\ row'[s].gen = row[s].gen /\ row'[s].prev = row[s].prev
          /\ \A x \in Sids \ {s} : row'[x] = row[x]
      BY <1>r, <2>1, TypeNames DEF Rows
    <2>3. row[s].status # "absent"
      BY <1>r, <2>1 DEF Chained, NoRow
    <2>4. \A x \in Sids :
              \/ row'[x] = row[x]
              \/ /\ row[x].status # "absent" /\ row'[x].status # "absent"
                 /\ Onward(x) /\ Chained(row'[x])
      BY <1>r, <1>n, <2>2, <2>3 DEF Onward, Chained
    <2> QED BY <2>4, RowsGoOn
  <1>7. ASSUME NEW t \in Tabs, OneTab(t)
        PROVE  RowInv' /\ \A s \in Sids : Onward(s)
    <2>1. page[t].flight.tok \in Cookies
      BY TypeNames DEF Pages, FlightSet
    <2>2. CASE RotateStep(t)
      BY <1>3, <2>1, <2>2 DEF RotateStep
    <2>3. CASE ~RotateStep(t) /\ ~LoginStep(t) /\ ~ChangeStep(t)
      BY <1>1, <1>2, <1>7, <2>3 DEF OneTab, PlainStep, SendStep, GiveUpStep, CheckStep,
         AgainStep, EndStep, LostStep, ReloadStep, ClearStep, EnterStep, ChangedStep
    <2> QED BY <1>4, <1>5, <2>2, <2>3
  <1>8. ASSUME NEW q \in orphans, OrphanStep(q)
        PROVE  RowInv' /\ \A s \in Sids : Onward(s)
    <2>1. q.tok \in Cookies
      BY TypeNames DEF Requests
    <2> QED BY <1>2, <1>3, <1>8, <2>1 DEF OrphanStep
  <1> QED BY <1>2, <1>6, <1>7, <1>8, Steps DEF RevokeStep

\* The secrets of a session stay, and it is not revoked for reuse.
KeptSecrets(s) ==
    /\ row'[s].gen = row[s].gen /\ row'[s].prev = row[s].prev
    /\ row'[s].grace = row[s].grace
    /\ row'[s].why = row[s].why \/ row'[s].why # "refresh_reuse"

\* Only a refresh and the end of the grace window touch the secrets.
LEMMA KeptStep ==
    ASSUME TypeOK, RowInv, NEW s \in Sids,
           RevokeStep \/ \E t \in Tabs : OneTab(t) /\ ~RotateStep(t)
    PROVE  KeptSecrets(s)
  <1>r. row[s] \in Rows /\ row \in [Sids -> Rows]
    BY TypeNames
  <1>1. ASSUME row' = row \/ RowsEnd PROVE KeptSecrets(s)
    BY <1>1 DEF RowsEnd, KeptSecrets
  <1>2. ASSUME NEW t \in Tabs, LoginStep(t) PROVE KeptSecrets(s)
    <2>1. PICK x \in Sids :
            /\ x = 1 + Cardinality({y \in Sids : row[y] # NoRow})
            /\ row' = [row EXCEPT ![x] = [NoRow EXCEPT !.status = "active",
                                                       !.auth = userAuth]]
      BY <1>2 DEF LoginStep
    <2>2. row[x] = NoRow
      BY <2>1, LoginTakesNext DEF RowInv
    <2>3. CASE s = x
      BY <1>r, <2>1, <2>2, <2>3 DEF NoRow, KeptSecrets
    <2>4. CASE s # x
      BY <1>r, <2>1, <2>4 DEF KeptSecrets
    <2> QED BY <2>3, <2>4
  <1>3. ASSUME NEW t \in Tabs, ChangeStep(t) PROVE KeptSecrets(s)
    <2>1. CASE row' = row
      BY <1>1, <2>1
    <2>2. CASE row' # row
      <3>1. \/ row'[s] = row[s]
            \/ row'[s] = [row[s] EXCEPT !.ver = @ + 1, !.auth = userAuth]
            \/ row'[s] = [row[s] EXCEPT !.status = "revoked", !.why = "changed"]
        BY <1>3, <2>2 DEF ChangeStep
      <3> QED BY <1>r, <3>1 DEF Rows, KeptSecrets
    <2> QED BY <2>1, <2>2
  <1>4. ASSUME NEW t \in Tabs, OneTab(t), ~RotateStep(t) PROVE KeptSecrets(s)
    <2>1. CASE ~LoginStep(t) /\ ~ChangeStep(t)
      BY <1>1, <1>4, <2>1 DEF OneTab, PlainStep, SendStep, GiveUpStep, CheckStep,
         AgainStep, EndStep, LostStep, ReloadStep, ClearStep, EnterStep, ChangedStep
    <2> QED BY <1>2, <1>3, <2>1
  <1>5. ASSUME RevokeStep PROVE KeptSecrets(s)
    BY <1>1, <1>5 DEF RevokeStep
  <1> QED BY <1>4, <1>5

\* What happens to the secrets of a session: nothing, the end of the grace
\* window, or a refresh that presents one of them.
LEMMA SecretStep ==
    ASSUME TypeOK, Named, RowInv, Next, NEW s \in Sids
    PROVE  \/ KeptSecrets(s)
           \/ /\ row'[s].gen = row[s].gen /\ row'[s].prev = row[s].prev
              /\ row'[s].why = row[s].why /\ GraceStep(s)
           \/ \E t \in Tabs :
                /\ RotateStep(t)
                /\ Rotates(s, page[t].flight.tok) \/ Reuses(s, page[t].flight.tok)
           \/ \E q \in orphans :
                /\ OrphanStep(q) /\ row' = RotateRow(q.tok)
                /\ Rotates(s, q.tok) \/ Reuses(s, q.tok)
  <1>r. row[s] \in Rows /\ row \in [Sids -> Rows]
    BY TypeNames
  <1>1. ASSUME row'[s] = row[s] PROVE KeptSecrets(s)
    BY <1>1 DEF KeptSecrets
  <1>4. ASSUME NEW x \in Sids, GraceStep(x)
        PROVE  \/ KeptSecrets(s)
               \/ /\ row'[s].gen = row[s].gen /\ row'[s].prev = row[s].prev
                  /\ row'[s].why = row[s].why /\ GraceStep(s)
    <2>1. row' = [row EXCEPT ![x].grace = FALSE]
      BY <1>4 DEF GraceStep
    <2>2. CASE x = s
      BY <1>4, <1>r, <2>1, <2>2 DEF Rows
    <2>3. CASE x # s
      BY <1>1, <1>r, <2>1, <2>3
    <2> QED BY <2>2, <2>3
  <1>5. ASSUME NEW t \in Tabs, RotateStep(t)
        PROVE  \/ KeptSecrets(s)
               \/ Rotates(s, page[t].flight.tok) \/ Reuses(s, page[t].flight.tok)
    <2>1. page[t].flight.tok \in Cookies /\ row' = RotateRow(page[t].flight.tok)
      BY <1>5, TypeNames DEF RotateStep, Pages, FlightSet
    <2> QED BY <1>1, <2>1, RotatedRows
  <1>6. ASSUME NEW q \in orphans, OrphanStep(q), row' = RotateRow(q.tok)
        PROVE  KeptSecrets(s) \/ Rotates(s, q.tok) \/ Reuses(s, q.tok)
    <2>1. q.tok \in Cookies
      BY TypeNames DEF Requests
    <2> QED BY <1>1, <1>6, <2>1, RotatedRows
  <1>7. ASSUME NEW t \in Tabs, OneTab(t), ~RotateStep(t) PROVE KeptSecrets(s)
    BY <1>7, KeptStep
  <1>8. ASSUME NEW q \in orphans, OrphanStep(q), row' # RotateRow(q.tok)
        PROVE  KeptSecrets(s)
    BY <1>8 DEF OrphanStep, RowsEnd, KeptSecrets
  <1>9. ASSUME RevokeStep PROVE KeptSecrets(s)
    BY <1>9, KeptStep
  <1> QED BY <1>4, <1>5, <1>6, <1>7, <1>8, <1>9, Steps

LEMMA RaceStep ==
    ASSUME TypeOK, Named, RowInv, NoRace, Next
    PROVE  NoRace'
  <1>k. /\ NoAnswer.kind = "none" /\ NoFlight.ans = NoAnswer
        /\ NewPage.flight = NoFlight /\ Answer("failed").kind = "failed"
        /\ Answer("denied").kind = "denied"
    BY DEF NoAnswer, NoFlight, NewPage, Answer
  <1>g. \A t \in Tabs : page[t].flight.ans.kind # "race"
    BY DEF NoRace
  <1>1. ASSUME NEW t \in Tabs, OneTab(t)
        PROVE  page'[t].flight.ans.kind # "race" /\ Others(t)
    <2>1. CASE PlainStep(t) \/ SendStep(t) \/ GiveUpStep(t) \/ AgainStep(t) \/ EndStep(t)
      BY <1>g, <1>k, <2>1 DEF PlainStep, SendStep, GiveUpStep, AgainStep, EndStep,
         Untouched, Starts, Sends, Over, SameFlight
    <2>2. CASE CheckStep(t) \/ LostStep(t)
      BY <1>k, <2>2 DEF CheckStep, LostStep
    <2>3. CASE RotateStep(t)
      <3> DEFINE tok == page[t].flight.tok
      <3>1. ASSUME Active(tok.sid), Presents(tok, row[tok.sid].prev)
            PROVE  Derive(tok.gen) = row[tok.sid].gen
        BY <3>1 DEF Active, Presents, Derive, RowInv, RowChain
      <3>2. RotateAnswer(tok).kind # "race"
        <4>1. RotateAnswer(tok).kind \in {"failed", "bundle", "denied"}
          BY <1>k, <3>1 DEF RotateAnswer
        <4> QED BY <4>1
      <3> QED BY <2>3, <3>2 DEF RotateStep
    <2>4. CASE ReloadStep(t)
      BY <1>k, <2>4, TypeNames DEF ReloadStep, Reload, Others
    <2>5. CASE ClearStep(t) \/ LoginStep(t) \/ EnterStep(t) \/ ChangedStep(t) \/ ChangeStep(t)
      BY <1>g, <2>5 DEF ClearStep, LoginStep, EnterStep, ChangedStep, ChangeStep, Takes,
         SameFlight
    <2> QED BY <1>1, <2>1, <2>2, <2>3, <2>4, <2>5 DEF OneTab
  <1>2. ASSUME NEW t \in Tabs, page'[t].flight.ans.kind # "race", Others(t) PROVE NoRace'
    BY <1>2, <1>g DEF NoRace, Others
  <1>3. ASSUME page' = page PROVE NoRace'
    BY <1>3, <1>g DEF NoRace
  <1> QED BY <1>1, <1>2, <1>3, Steps DEF RevokeStep, GraceStep, OrphanStep

LEMMA RowInit == Init => RowInv /\ NoRace
  <1> SUFFICES ASSUME Init PROVE RowInv /\ NoRace
    OBVIOUS
  <1>1. 1 \in 0..MaxSessions /\ 1 \in Sids
    BY WebAssumption DEF Sids
  <1>2. \A s \in Sids : row[s] = NoRow <=> s > 1
    <2>1. row[1].status = "active" /\ NoRow.status = "absent"
      BY <1>1 DEF Init, NoRow
    <2>2. \A s \in Sids : s # 1 => row[s] = NoRow
      BY DEF Init
    <2>3. \A s \in Sids : s # 1 <=> s > 1
      BY WebAssumption DEF Sids
    <2> QED BY <2>1, <2>2, <2>3
  <1>3. RowChain
    BY DEF Init, NoRow, RowChain
  <1> QED BY <1>1, <1>2, <1>3
          DEF Init, RowInv, InOrder, NoRace, NewPage, NoFlight, NoAnswer

\* Two tabs, or a tab and a request whose page has gone, that present the same
\* secret are both answered with the same next one: RefreshLoginSession never
\* answers AUTH_REFRESH_RACE to a client that derives its secrets.  The Web
\* Lock is not needed for it.
THEOREM NobodyRaces == Spec => []NoRace
  <1>1. TypeOK /\ Named /\ TypeOK' /\ RowInv /\ NoRace /\ [Next]_vars => RowInv' /\ NoRace'
    <2> SUFFICES ASSUME TypeOK, Named, TypeOK', RowInv, NoRace, [Next]_vars
                 PROVE  RowInv' /\ NoRace'
      OBVIOUS
    <2>1. CASE UNCHANGED vars
      BY <2>1 DEF vars, RowInv, InOrder, RowChain, NoRace
    <2>2. CASE Next
      BY <2>2, RowStep, RaceStep
    <2> QED BY <2>1, <2>2
  <1> QED BY <1>1, RowInit, WebTypes, PTL DEF Spec

-----------------------------------------------------------------------------
(* Who can know of a session. *)

\* The sessions that exist and for which no answer to a login is on its way.
SeenSids ==
    {NoSid} \cup {s \in Sids : row[s] # NoRow /\ \A t \in Tabs : page[t].enter # s}

PageIn(p, S) == p.store.sid \in S /\ p.flight.tok.sid \in S /\ p.change.sid \in S

\* No cookie, page, request or history names a session before the answer to
\* its login has arrived.
AllSeen ==
    /\ cookie.sid \in SeenSids
    /\ \A q \in orphans : q.tok.sid \in SeenSids
    /\ \A t \in Tabs : PageIn(page[t], SeenSids) /\ left[t] \subseteq SeenSids

\* An answer with a bundle is about the session that was presented.
Own(p) == p.flight.ans.kind = "bundle" => p.flight.ans.sid = p.flight.tok.sid

OwnAnswer == \A t \in Tabs : Own(page[t])

\* A session waits for the answer to its login in one tab, and untouched.
FreshLogins ==
    /\ \A t \in Tabs : page[t].enter # NoSid =>
         /\ row[page[t].enter] # NoRow
         /\ row[page[t].enter].gen = 0 /\ row[page[t].enter].prev = -1
    /\ \A t, u \in Tabs : t # u /\ page[t].enter # NoSid => page[t].enter # page[u].enter

SeenInv == AllSeen /\ OwnAnswer /\ FreshLogins

\* A tab waits for a login until the answer comes, or takes the next row.
LEMMA EnterStepOf ==
    ASSUME TypeOK, RowInv, NEW t \in Tabs, OneTab(t)
    PROVE  /\ Others(t)
           /\ \/ page'[t].enter = page[t].enter
              \/ page'[t].enter = NoSid
              \/ /\ LoginStep(t) /\ page'[t].enter \in Sids
                 /\ row[page'[t].enter] = NoRow /\ row'[page'[t].enter] # NoRow
                 /\ row'[page'[t].enter].gen = 0 /\ row'[page'[t].enter].prev = -1
  <1>1. CASE LoginStep(t)
    <2>1. PICK s \in Sids :
            /\ s = 1 + Cardinality({x \in Sids : row[x] # NoRow})
            /\ page'[t].enter = s /\ Others(t)
            /\ row' = [row EXCEPT ![s] = [NoRow EXCEPT !.status = "active",
                                                       !.auth = userAuth]]
      BY <1>1 DEF LoginStep
    <2>2. row[s] = NoRow
      BY <2>1, LoginTakesNext DEF RowInv
    <2>3. row'[s].status = "active" /\ row'[s].gen = 0 /\ row'[s].prev = -1
          /\ NoRow.status = "absent"
      BY <2>1, TypeNames DEF NoRow
    <2> QED BY <1>1, <2>1, <2>2, <2>3
  <1>2. CASE ReloadStep(t)
    BY <1>2, TypeNames DEF ReloadStep, Reload, Others, NewPage
  <1>3. NewPage.enter = NoSid
    BY DEF NewPage
  <1>4. CASE PlainStep(t) \/ SendStep(t) \/ GiveUpStep(t) \/ AgainStep(t) \/ EndStep(t)
    BY <1>3, <1>4 DEF PlainStep, SendStep, GiveUpStep, AgainStep, EndStep,
       Untouched, Starts, Sends, Over, Rest
  <1>5. CASE CheckStep(t) \/ RotateStep(t) \/ LostStep(t)
    BY <1>5 DEF CheckStep, RotateStep, LostStep, Rest
  <1>6. CASE ClearStep(t) \/ EnterStep(t) \/ ChangeStep(t) \/ ChangedStep(t)
    BY <1>6 DEF ClearStep, EnterStep, ChangeStep, ChangedStep, Rest
  <1> QED BY <1>1, <1>2, <1>4, <1>5, <1>6 DEF OneTab

\* What has been seen stays so.
LEMMA SeenGrows ==
    ASSUME TypeOK, TypeOK', Named, RowInv, Next
    PROVE  SeenSids \subseteq SeenSids'
  <1>1. \A s \in Sids : row[s] # NoRow => row'[s] # NoRow
    BY RowStep DEF Onward
  <1>2. \A s \in Sids : row[s] # NoRow /\ (\A u \in Tabs : page[u].enter # s)
                          => \A u \in Tabs : page'[u].enter # s
    <2>1. NoSid \notin Sids
      BY WebAssumption DEF Sids, NoSid
    <2>2. ASSUME NEW t \in Tabs, OneTab(t), NEW s \in Sids, row[s] # NoRow,
                 \A u \in Tabs : page[u].enter # s
          PROVE  \A u \in Tabs : page'[u].enter # s
      BY <2>1, <2>2, EnterStepOf DEF Others
    <2>3. CASE page' = page
      BY <2>3
    <2> QED BY <2>2, <2>3, Steps DEF RevokeStep, GraceStep, OrphanStep
  <1> QED BY <1>1, <1>2 DEF SeenSids

LEMMA OwnStep ==
    ASSUME TypeOK, OwnAnswer, NEW t \in Tabs, OneTab(t)
    PROVE  Own(page'[t])
  <1>k. /\ NoAnswer.kind = "none" /\ NoFlight.ans = NoAnswer
        /\ NewPage.flight = NoFlight /\ Answer("failed").kind = "failed"
    BY DEF NoAnswer, NoFlight, NewPage, Answer
  <1>g. Own(page[t])
    BY DEF OwnAnswer
  <1>1. CASE PlainStep(t) \/ SendStep(t) \/ GiveUpStep(t) \/ AgainStep(t) \/ EndStep(t)
    BY <1>g, <1>k, <1>1 DEF PlainStep, SendStep, GiveUpStep, AgainStep, EndStep,
       Untouched, Starts, Sends, Over, SameFlight, Own
  <1>2. CASE CheckStep(t) \/ LostStep(t)
    BY <1>k, <1>2 DEF CheckStep, LostStep, Own
  <1>3. CASE RotateStep(t)
    <2>1. page[t].flight.tok \in Cookies
      BY TypeNames DEF Pages, FlightSet
    <2>2. RotateAnswer(page[t].flight.tok).kind = "bundle" =>
             RotateAnswer(page[t].flight.tok).sid = page[t].flight.tok.sid
      BY <2>1, RotateTypes
    <2> QED BY <1>3, <2>2 DEF RotateStep, Own
  <1>4. CASE ReloadStep(t)
    BY <1>k, <1>4, TypeNames DEF ReloadStep, Reload, Own
  <1>5. CASE ClearStep(t) \/ LoginStep(t) \/ EnterStep(t) \/ ChangedStep(t) \/ ChangeStep(t)
    BY <1>g, <1>5 DEF ClearStep, LoginStep, EnterStep, ChangedStep, ChangeStep, Takes,
       SameFlight, Own
  <1> QED BY <1>1, <1>2, <1>3, <1>4, <1>5 DEF OneTab

\* No tab learns of a session in another way than by the answer to its login.
LEMMA PageSeen ==
    ASSUME TypeOK, OwnAnswer, NEW S, NoSid \in S, cookie.sid \in S,
           NEW t \in Tabs, PageIn(page[t], S), OneTab(t),
           EnterStep(t) => page[t].enter \in S
    PROVE  PageIn(page'[t], S) /\ cookie'.sid \in S
  <1>k. /\ NoFlight.tok = NoCookie /\ NoCookie.sid = NoSid /\ NoChange.sid = NoSid
        /\ NewPage.flight = NoFlight /\ NewPage.change = NoChange
        /\ NewPage.store = NoBundle /\ NoBundle.sid = NoSid
    BY DEF NoFlight, NoCookie, NoChange, NewPage, NoBundle
  <1>g. Own(page[t])
    BY DEF OwnAnswer
  <1>1. CASE PlainStep(t) \/ SendStep(t) \/ GiveUpStep(t) \/ AgainStep(t)
    BY <1>k, <1>1 DEF PlainStep, SendStep, GiveUpStep, AgainStep,
       Untouched, Starts, Sends, Over, SameFlight, SameStore, Rest, PageIn
  <1>2. CASE CheckStep(t) \/ LostStep(t) \/ RotateStep(t)
    BY <1>2 DEF CheckStep, LostStep, RotateStep, SameStore, Rest, PageIn
  <1>3. CASE EndStep(t)
    <2>1. cookie'.sid \in S
      <3>1. cookie' = CookieAfter(page[t].flight.ans)
        BY <1>3 DEF EndStep
      <3>2. page[t].flight.ans.kind = "bundle" => page[t].flight.ans.sid \in S
        BY <1>g DEF Own, PageIn
      <3> QED BY <1>k, <3>1, <3>2 DEF CookieAfter
    <2>2. PageIn(page'[t], S)
      BY <1>3, <1>g, <1>k DEF EndStep, Over, Rest, SameStore, Own, PageIn
    <2> QED BY <2>1, <2>2
  <1>4. CASE ReloadStep(t)
    BY <1>k, <1>4, TypeNames DEF ReloadStep, Reload, PageIn
  <1>5. CASE ClearStep(t) \/ LoginStep(t) \/ ChangedStep(t)
    BY <1>k, <1>5 DEF ClearStep, LoginStep, ChangedStep, Takes, SameStore,
       SameFlight, Rest, PageIn
  <1>6. CASE EnterStep(t)
    BY <1>6 DEF EnterStep, Takes, SameStore, SameFlight, PageIn
  <1>7. CASE ChangeStep(t)
    BY <1>k, <1>7 DEF ChangeStep, SameStore, SameFlight, PageIn
  <1> QED BY <1>1, <1>2, <1>3, <1>4, <1>5, <1>6, <1>7 DEF OneTab

LEMMA SeenStep ==
    ASSUME TypeOK, TypeOK', Named, RowInv, SeenInv, Next
    PROVE  SeenInv'
  <1>g. SeenSids \subseteq SeenSids' /\ NoSid \in SeenSids'
    BY SeenGrows DEF SeenSids
  <1>n. NoSid \notin Sids
    BY WebAssumption DEF Sids, NoSid
  <1>e. \A t \in Tabs : page[t].enter \in SidsOrNone /\ page'[t].enter \in SidsOrNone
    BY TypeNames DEF TypeOK, Pages, SidsOrNone
  \* The answer to a login is what makes its session seen.
  <1>1. ASSUME NEW t \in Tabs, EnterStep(t) PROVE page[t].enter \in SeenSids'
    <2> DEFINE s == page[t].enter
    <2>1. s # NoSid /\ s \in Sids /\ row' = row /\ row[s] # NoRow
      BY <1>1, <1>e DEF EnterStep, SeenInv, FreshLogins, SidsOrNone
    <2>2. \A u \in Tabs : page'[u].enter # s
      BY <1>1, <2>1 DEF EnterStep, Others, SeenInv, FreshLogins
    <2> QED BY <2>1, <2>2 DEF SeenSids
  <1>2. ASSUME NEW t \in Tabs, OneTab(t) PROVE AllSeen' /\ OwnAnswer'
    <2>1. /\ cookie.sid \in SeenSids' /\ \A u \in Tabs : PageIn(page[u], SeenSids')
          /\ \A q \in orphans : q.tok.sid \in SeenSids'
          /\ \A u \in Tabs : left[u] \subseteq SeenSids'
      BY <1>g DEF SeenInv, AllSeen, PageIn
    <2>2. PageIn(page'[t], SeenSids') /\ cookie'.sid \in SeenSids'
      <3> DEFINE S == SeenSids'
      <3>1. NoSid \in S /\ cookie.sid \in S /\ PageIn(page[t], S)
            /\ (EnterStep(t) => page[t].enter \in S)
        BY <1>1, <1>g, <2>1
      <3> HIDE DEF S
      <3>2. PageIn(page'[t], S) /\ cookie'.sid \in S
        BY <1>2, <3>1, PageSeen DEF SeenInv
      <3> QED BY <3>2 DEF S
    <2>3. Others(t) /\ Own(page'[t])
      BY <1>2, EnterStepOf, OwnStep DEF SeenInv
    <2>4. \A q \in orphans' : q.tok.sid \in SeenSids'
      <3>1. CASE orphans' = orphans
        BY <2>1, <3>1
      <3>2. CASE ReloadStep(t)
        BY <2>1, <3>2 DEF ReloadStep, Reload, Abandoned, PageIn
      <3> QED BY <1>2, <3>1, <3>2 DEF OneTab, PlainStep, SendStep, GiveUpStep, CheckStep,
         RotateStep, AgainStep, EndStep, LostStep, ClearStep, LoginStep, EnterStep,
         ChangeStep, ChangedStep
    <2>5. \A u \in Tabs : left'[u] \subseteq SeenSids'
      <3>1. CASE left' = left
        BY <2>1, <3>1
      <3>2. CASE left' = [left EXCEPT ![t] = @ \cup {s \in Sids : s = page[t].store.sid
                                                                 /\ ~Active(s)}]
        <4>1. left \in [Tabs -> SUBSET Sids]
          BY TypeNames
        <4>2. left'[t] \subseteq left[t] \cup {page[t].store.sid}
              /\ \A u \in Tabs \ {t} : left'[u] = left[u]
          BY <3>2, <4>1
        <4> QED BY <2>1, <4>2 DEF PageIn
      <3> QED BY <1>2, <3>1, <3>2 DEF OneTab, PlainStep, SendStep, GiveUpStep, CheckStep,
         RotateStep, AgainStep, EndStep, LostStep, ReloadStep, ClearStep, LoginStep,
         EnterStep, ChangeStep, ChangedStep
    <2>6. AllSeen'
      BY <2>1, <2>2, <2>3, <2>4, <2>5 DEF AllSeen, Others
    <2>7. OwnAnswer'
      BY <2>3 DEF OwnAnswer, SeenInv, Others
    <2> QED BY <2>6, <2>7
  <1>3. ASSUME page' = page, cookie' = cookie, left' = left, orphans' \subseteq orphans
        PROVE  AllSeen' /\ OwnAnswer'
    BY <1>3, <1>g DEF SeenInv, AllSeen, OwnAnswer, PageIn
  <1>4. AllSeen' /\ OwnAnswer'
    BY <1>2, <1>3, Steps DEF RevokeStep, GraceStep, OrphanStep
  \* Nobody presents a secret of a session that has not been seen.
  <1>5. ASSUME NEW s \in Sids, row[s] # NoRow, NEW t \in Tabs, page[t].enter = s
        PROVE  row'[s] # NoRow /\ row'[s].gen = row[s].gen /\ row'[s].prev = row[s].prev
    <2>1. s \notin SeenSids
      BY <1>5, <1>n DEF SeenSids
    <2>2. \A u \in Tabs : page[u].flight.tok.sid # s
      BY <2>1 DEF SeenInv, AllSeen, PageIn
    <2>3. \A q \in orphans : q.tok.sid # s
      BY <2>1 DEF SeenInv, AllSeen
    <2>4. row'[s] # NoRow
      BY <1>5, RowStep DEF Onward
    <2> QED BY <1>5, <2>2, <2>3, <2>4, SecretStep DEF Rotates, Reuses, KeptSecrets
  <1>6. FreshLogins'
    <2>1. ASSUME NEW t \in Tabs, page'[t].enter # NoSid, page'[t].enter = page[t].enter
          PROVE  /\ row'[page'[t].enter] # NoRow
                 /\ row'[page'[t].enter].gen = 0 /\ row'[page'[t].enter].prev = -1
      BY <1>5, <1>e, <2>1 DEF SeenInv, FreshLogins, SidsOrNone
    <2>2. CASE page' = page
      <3>1. \A t \in Tabs : page'[t].enter = page[t].enter
        BY <2>2
      <3> QED BY <2>1, <3>1 DEF FreshLogins, SeenInv
    <2>3. ASSUME NEW t \in Tabs, OneTab(t) PROVE FreshLogins'
      <3>1. /\ \A u \in Tabs \ {t} : page'[u].enter = page[u].enter
            /\ \/ page'[t].enter = page[t].enter
               \/ page'[t].enter = NoSid
               \/ /\ page'[t].enter \in Sids
                  /\ row[page'[t].enter] = NoRow /\ row'[page'[t].enter] # NoRow
                  /\ row'[page'[t].enter].gen = 0 /\ row'[page'[t].enter].prev = -1
        BY <2>3, EnterStepOf DEF Others
      <3>2. \A u \in Tabs : page[u].enter # NoSid => row[page[u].enter] # NoRow
        BY DEF SeenInv, FreshLogins
      <3>3. \A u \in Tabs : page'[u].enter # NoSid =>
              /\ row'[page'[u].enter] # NoRow
              /\ row'[page'[u].enter].gen = 0 /\ row'[page'[u].enter].prev = -1
        BY <2>1, <3>1
      <3>4. \A u, v \in Tabs : u # v /\ page'[u].enter # NoSid
                                 => page'[u].enter # page'[v].enter
        BY <3>1, <3>2 DEF SeenInv, FreshLogins
      <3> QED BY <3>3, <3>4 DEF FreshLogins
    <2> QED BY <2>2, <2>3, Steps DEF RevokeStep, GraceStep, OrphanStep
  <1> QED BY <1>4, <1>6 DEF SeenInv

LEMMA SeenInit == Init => SeenInv
  <1> SUFFICES ASSUME Init PROVE SeenInv
    OBVIOUS
  <1>1. 1 \in Sids /\ NoSid # 1
    BY WebAssumption DEF Sids, NoSid
  <1>2. row[1].status = "active" /\ NoRow.status = "absent"
    BY <1>1 DEF Init, NoRow
  <1>3. /\ \A t \in Tabs : page[t] = NewPage
        /\ cookie.sid = 1 /\ orphans = {} /\ \A t \in Tabs : left[t] = {}
    BY DEF Init
  <1>4. /\ NewPage.enter = NoSid /\ NewPage.store.sid = NoSid
        /\ NewPage.flight.tok.sid = NoSid /\ NewPage.change.sid = NoSid
        /\ NewPage.flight.ans.kind = "none"
    BY DEF NewPage, NoBundle, NoFlight, NoCookie, NoAnswer, NoChange
  <1>5. 1 \in SeenSids /\ NoSid \in SeenSids
    BY <1>1, <1>2, <1>3, <1>4 DEF SeenSids
  <1> QED BY <1>3, <1>4, <1>5
          DEF SeenInv, AllSeen, PageIn, OwnAnswer, Own, FreshLogins

-----------------------------------------------------------------------------
(* Versions. *)

\* Every version a page has was the version of the row.
Given(p, rows) ==
    /\ p.store.sid # NoSid => p.store.ver <= rows[p.store.sid].ver
    /\ p.change.at = "back" => p.change.ver <= rows[p.change.sid].ver
    /\ p.flight.ans.kind = "bundle" => p.flight.ans.ver <= rows[p.flight.ans.sid].ver

\* An answer that will be taken is not older than what it replaces.
Newer(p) ==
    /\ p.flight.at = "back" /\ p.flight.current
    /\ p.flight.ans.kind = "bundle" /\ p.flight.ans.sid = p.store.sid
    => p.store.ver <= p.flight.ans.ver

VersionInv == \A t \in Tabs : Given(page[t], row) /\ Newer(page[t])

LEMMA VersionStep ==
    ASSUME TypeOK, TypeOK', Named, RowInv, VersionInv, Next
    PROVE  VersionInv'
  <1>k. /\ NoAnswer.kind = "none" /\ NoFlight.ans = NoAnswer
        /\ NewPage.flight = NoFlight /\ Answer("failed").kind = "failed"
        /\ NoChange.at = "none" /\ NewPage.change = NoChange
        /\ NewPage.store = NoBundle /\ NoBundle.sid = NoSid
    BY DEF NoAnswer, NoFlight, NewPage, Answer, NoChange, NoBundle
  <1>m. \A s \in Sids : /\ row[s].ver \in Nat /\ row'[s].ver \in Nat
                        /\ row[s].ver <= row'[s].ver /\ 1 <= row'[s].ver
    <2>1. \A s \in Sids : Onward(s)
      BY RowStep
    <2>2. RowChain'
      BY RowStep DEF RowInv
    <2>3. \A s \in Sids : row[s].ver \in Nat /\ row'[s].ver \in Nat
      BY DEF TypeOK
    <2> QED BY <2>1, <2>2, <2>3 DEF Onward, RowChain
  <1>p. \A t \in Tabs :
          /\ page[t].store.sid \in SidsOrNone /\ page[t].store.ver \in Nat
          /\ page[t].change.ver \in Nat /\ page[t].flight.ans.ver \in Nat
          /\ page[t].enter \in SidsOrNone /\ page[t].flight.tok \in Cookies
    BY TypeNames, Sidded DEF Pages, Changes, FlightSet, Answers
  <1>o. \A t \in Tabs : Given(page[t], row')
    <2> SUFFICES ASSUME NEW t \in Tabs PROVE Given(page[t], row')
      OBVIOUS
    <2>1. Given(page[t], row)
      BY DEF VersionInv
    <2> QED BY <1>m, <1>p, <2>1 DEF Given, Named, SidsOrNone
  <1>1. ASSUME NEW t \in Tabs, OneTab(t)
        PROVE  Given(page'[t], row') /\ Newer(page'[t])
    <2>g. Given(page[t], row') /\ Given(page[t], row) /\ Newer(page[t])
      BY <1>o DEF VersionInv
    <2>1. CASE PlainStep(t) \/ SendStep(t) \/ GiveUpStep(t) \/ AgainStep(t)
      BY <1>k, <2>1, <2>g DEF PlainStep, SendStep, GiveUpStep, AgainStep,
         Untouched, Starts, Sends, Over, SameFlight, SameStore, Rest, Given, Newer
    <2>2. CASE CheckStep(t) \/ LostStep(t)
      BY <1>k, <2>2, <2>g DEF CheckStep, LostStep, SameStore, Rest, Given, Newer
    <2>3. CASE RotateStep(t)
      <3> DEFINE ans == RotateAnswer(page[t].flight.tok)
      <3>1. ans.kind = "bundle" => ans.sid \in Sids /\ ans.ver = row[ans.sid].ver
        BY <1>p, RotateTypes DEF Active
      <3>2. page'[t].flight.ans = ans /\ SameStore(page[t], page'[t])
            /\ Rest(page[t], page'[t])
        BY <2>3 DEF RotateStep
      <3> HIDE DEF ans
      <3>3. Given(page'[t], row')
        BY <1>m, <2>g, <3>1, <3>2 DEF SameStore, Rest, Given
      <3>4. Newer(page'[t])
        BY <1>p, <2>g, <3>1, <3>2, WebAssumption
           DEF SameStore, Given, Newer, Sids, NoSid
      <3> QED BY <3>3, <3>4
    <2>4. CASE ReloadStep(t)
      BY <1>k, <2>4, TypeNames DEF ReloadStep, Reload, Given, Newer
    <2>5. CASE EndStep(t)
      BY <1>k, <2>5, <2>g DEF EndStep, Over, Rest, SameStore, Given, Newer
    <2>6. CASE ClearStep(t) \/ LoginStep(t)
      BY <1>k, <2>6, <2>g DEF ClearStep, LoginStep, Takes, SameStore, SameFlight, Rest,
         Given, Newer
    <2>7. CASE EnterStep(t)
      <3>1. page[t].enter \in Sids
        BY <1>p, <2>7 DEF EnterStep, SidsOrNone
      <3> QED BY <1>m, <2>7, <2>g, <3>1
              DEF EnterStep, Takes, SameStore, SameFlight, Given, Newer
    <2>8. CASE ChangedStep(t)
      BY <1>k, <2>8, <2>g DEF ChangedStep, Takes, SameStore, SameFlight, Given, Newer
    <2>9. CASE ChangeStep(t)
      <3>1. page'[t].change.at = "back" =>
              page'[t].change.ver <= row'[page'[t].change.sid].ver
        <4>1. CASE page'[t].change.at = "back"
          <5> DEFINE c == page[t].change
          <5>1. /\ page'[t].change.sid = c.sid /\ page'[t].change.ver = c.ver + 1
                /\ c.sid \in Sids /\ row[c.sid].ver = c.ver
                /\ row'[c.sid] = [row[c.sid] EXCEPT !.ver = @ + 1, !.auth = userAuth]
            BY <1>k, <2>9, <4>1 DEF ChangeStep
          <5>2. row[c.sid] \in Rows
            BY <5>1, TypeNames
          <5>3. row'[c.sid].ver = c.ver + 1
            BY <5>1, <5>2 DEF Rows
          <5> QED BY <1>m, <5>1, <5>3
        <4> QED BY <4>1
      <3> QED BY <2>9, <2>g, <3>1 DEF ChangeStep, SameStore, SameFlight, Given, Newer
    <2> QED BY <1>1, <2>1, <2>2, <2>3, <2>4, <2>5, <2>6, <2>7, <2>8, <2>9 DEF OneTab
  <1>2. ASSUME NEW t \in Tabs, OneTab(t) PROVE VersionInv'
    <2>1. Others(t)
      BY <1>2, EnterStepOf
    <2> QED BY <1>1, <1>2, <1>o, <2>1 DEF VersionInv, Others
  <1>3. ASSUME page' = page PROVE VersionInv'
    BY <1>3, <1>o DEF VersionInv
  <1> QED BY <1>2, <1>3, Steps DEF RevokeStep, GraceStep, OrphanStep

LEMMA VersionInit == Init => VersionInv
  <1> SUFFICES ASSUME Init PROVE VersionInv
    OBVIOUS
  <1>1. \A t \in Tabs : page[t] = NewPage
    BY DEF Init
  <1>2. NewPage.store.sid = NoSid /\ NewPage.change.at = "none"
        /\ NewPage.flight.ans.kind = "none"
    BY DEF NewPage, NoBundle, NoChange, NoFlight, NoAnswer
  <1> QED BY <1>1, <1>2 DEF VersionInv, Given, Newer

\* The step that ends a refresh leaves the version it finds, or a later one.
LEMMA TokenStep ==
    ASSUME TypeOK, TypeOK', Named, RowInv, VersionInv, Next, NEW t \in Tabs,
           page[t].flight.at = "back", page'[t].flight.at = "none",
           page[t].store.sid = page'[t].store.sid
    PROVE  page[t].store.ver <= page'[t].store.ver
  <1>p. /\ page[t].store \in Bundles /\ page'[t].store \in Bundles
        /\ page[t].store.ver \in Nat /\ page'[t].store.ver \in Nat
    <2>1. page[t].store \in Bundles /\ page'[t].store \in Bundles
      BY DEF TypeOK
    <2> QED BY <2>1, Sidded
  <1>n. NoBundle.ver = 0 /\ NoBundle.sid = NoSid /\ NewPage.store = NoBundle
    BY DEF NoBundle, NewPage
  <1>1. CASE page'[t].store.sid = NoSid
    <2>1. page[t].store = NoBundle
      BY <1>1, <1>p, Sidded
    <2> QED BY <1>n, <1>p, <2>1
  <1>2. CASE EndStep(t) /\ page'[t].store.sid # NoSid
    <2>1. CASE SameStore(page[t], page'[t])
      BY <1>p, <2>1 DEF SameStore
    <2>2. CASE ~SameStore(page[t], page'[t])
      <3>1. /\ page[t].flight.current /\ page[t].flight.ans.kind = "bundle"
            /\ page'[t].store.sid = page[t].flight.ans.sid
            /\ page'[t].store.ver = page[t].flight.ans.ver
        BY <1>2, <1>n, <2>2 DEF EndStep
      <3> QED BY <3>1 DEF VersionInv, Newer
    <2> QED BY <2>1, <2>2
  <1>3. CASE ReloadStep(t)
    BY <1>1, <1>3, <1>n, TypeNames DEF ReloadStep, Reload
  <1>4. ASSUME OneTab(t) PROVE EndStep(t) \/ ReloadStep(t)
    <2>1. CASE PlainStep(t) \/ SendStep(t) \/ GiveUpStep(t) \/ AgainStep(t)
      BY <2>1 DEF PlainStep, SendStep, GiveUpStep, AgainStep, Untouched, Starts, Sends,
         SameFlight
    <2>2. CASE CheckStep(t) \/ RotateStep(t) \/ LostStep(t)
      BY <2>2 DEF CheckStep, RotateStep, LostStep
    <2>3. CASE ClearStep(t) \/ LoginStep(t) \/ EnterStep(t) \/ ChangeStep(t) \/ ChangedStep(t)
      BY <2>3 DEF ClearStep, LoginStep, EnterStep, ChangeStep, ChangedStep, Takes,
         SameFlight
    <2> QED BY <1>4, <2>1, <2>2, <2>3 DEF OneTab
  <1>5. ASSUME NEW u \in Tabs \ {t}, OneTab(u) PROVE FALSE
    BY <1>5, EnterStepOf DEF Others
  <1>6. page' # page
    OBVIOUS
  <1> QED BY <1>1, <1>2, <1>3, <1>4, <1>5, <1>6, Steps DEF RevokeStep, GraceStep, OrphanStep

\* A token that a security change has brought while a refresh was in flight is
\* not replaced by the older one of the answer: applyAuthBundle has stepped
\* authEpoch, and isCurrent refuses the answer.
THEOREM TokensNeverGoBack == Spec => NoOlderToken
  <1>1. TypeOK /\ Named /\ TypeOK' /\ RowInv /\ VersionInv /\ [Next]_vars
          => RowInv' /\ VersionInv'
    <2> SUFFICES ASSUME TypeOK, Named, TypeOK', RowInv, VersionInv, [Next]_vars
                 PROVE  RowInv' /\ VersionInv'
      OBVIOUS
    <2>1. CASE UNCHANGED vars
      BY <2>1 DEF vars, RowInv, InOrder, RowChain, VersionInv, Given, Newer
    <2>2. CASE Next
      BY <2>2, RowStep, VersionStep
    <2> QED BY <2>1, <2>2
  <1> DEFINE Kept == \A t \in Tabs :
                       LET old == page[t].store
                           new == page'[t].store
                       IN /\ page[t].flight.at = "back" /\ page'[t].flight.at = "none"
                          /\ old.sid = new.sid
                          => old.ver <= new.ver
  <1>2. TypeOK /\ Named /\ TypeOK' /\ RowInv /\ VersionInv /\ [Next]_vars => [Kept]_vars
    BY TokenStep
  <1>3. Init => RowInv
    BY RowInit
  <1> QED BY <1>1, <1>2, <1>3, VersionInit, WebTypes, PTL DEF Spec, NoOlderToken

-----------------------------------------------------------------------------
(* Signing out. *)

\* A tab does not hold what it has signed out of, and no answer that it will
\* take is about it.
Away(p, sids) ==
    /\ p.store.sid \notin sids
    /\ p.flight.at = "back" /\ p.flight.current /\ p.flight.ans.kind = "bundle"
         => p.flight.ans.sid \notin sids

\* What a tab has signed out of is revoked.
Ended(sids) == \A s \in sids : row[s].status = "revoked"

LeftInv == \A t \in Tabs : Ended(left[t]) /\ Away(page[t], left[t])

LEMMA LeftStep ==
    ASSUME TypeOK, TypeOK', Named, RowInv, SeenInv, LeftInv, Next
    PROVE  LeftInv'
  <1>k. /\ NoAnswer.kind = "none" /\ NoFlight.ans = NoAnswer
        /\ NewPage.flight = NoFlight /\ Answer("failed").kind = "failed"
        /\ NewPage.store = NoBundle /\ NoBundle.sid = NoSid
    BY DEF NoAnswer, NoFlight, NewPage, Answer, NoBundle
  <1>l. \A t \in Tabs : left[t] \subseteq Sids /\ NoSid \notin left[t]
    <2>1. \A t \in Tabs : left[t] \subseteq Sids
      BY TypeNames
    <2>2. NoSid \notin Sids
      BY WebAssumption DEF Sids, NoSid
    <2> QED BY <2>1, <2>2
  <1>o. \A t \in Tabs : \A s \in left[t] : row'[s].status = "revoked"
    BY <1>l, RowStep DEF Onward, LeftInv, Ended
  \* The tab's own step, as long as it signs out of nothing more.
  <1>1. ASSUME NEW t \in Tabs, OneTab(t) PROVE Away(page'[t], left[t])
    <2>g. Away(page[t], left[t]) /\ NoSid \notin left[t]
      BY <1>l DEF LeftInv
    <2>1. CASE PlainStep(t) \/ SendStep(t) \/ GiveUpStep(t) \/ AgainStep(t)
      BY <1>k, <2>1, <2>g DEF PlainStep, SendStep, GiveUpStep, AgainStep,
         Untouched, Starts, Sends, Over, SameFlight, SameStore, Away
    <2>2. CASE CheckStep(t) \/ LostStep(t)
      BY <1>k, <2>2, <2>g DEF CheckStep, LostStep, SameStore, Away
    <2>3. CASE RotateStep(t)
      <3> DEFINE tok == page[t].flight.tok
      <3>1. tok \in Cookies
        BY TypeNames DEF Pages, FlightSet
      <3>2. RotateAnswer(tok).kind = "bundle" =>
              Active(tok.sid) /\ RotateAnswer(tok).sid = tok.sid
        BY <3>1, RotateTypes
      <3>3. Active(tok.sid) => tok.sid \notin left[t]
        BY DEF Active, LeftInv, Ended
      <3> QED BY <2>3, <2>g, <3>2, <3>3 DEF RotateStep, SameStore, Away
    <2>4. CASE ReloadStep(t)
      BY <1>k, <2>4, <2>g, TypeNames DEF ReloadStep, Reload, Away
    <2>5. CASE EndStep(t)
      BY <1>k, <2>5, <2>g DEF EndStep, Over, SameStore, Away
    <2>6. CASE ClearStep(t) \/ LoginStep(t) \/ ChangedStep(t) \/ ChangeStep(t)
      BY <2>6, <2>g DEF ClearStep, LoginStep, ChangedStep, ChangeStep, Takes, SameStore,
         SameFlight, Away
    <2>7. CASE EnterStep(t)
      <3>1. page[t].enter # NoSid /\ page[t].enter \notin SeenSids
        BY <2>7 DEF EnterStep, SeenSids
      <3>2. page[t].enter \notin left[t]
        BY <3>1 DEF SeenInv, AllSeen
      <3> QED BY <2>7, <2>g, <3>2 DEF EnterStep, Takes, SameStore, SameFlight, Away
    <2> QED BY <1>1, <2>1, <2>2, <2>3, <2>4, <2>5, <2>6, <2>7 DEF OneTab
  \* A session that a tab had and that does not live has been revoked.
  <1>2. ASSUME NEW t \in Tabs, NEW s \in Sids, s = page[t].store.sid, ~Active(s)
        PROVE  row[s].status = "revoked"
    <2>1. row[s] # NoRow
      <3>1. s \in SeenSids /\ s # NoSid
        BY <1>2, WebAssumption DEF SeenInv, AllSeen, PageIn, Sids, NoSid
      <3> QED BY <3>1 DEF SeenSids
    <2>2. row[s].status \in {"absent", "active", "revoked"}
      BY DEF TypeOK
    <2> QED BY <1>2, <2>1, <2>2 DEF Active, RowInv, RowChain
  <1>3. ASSUME NEW t \in Tabs, OneTab(t) PROVE LeftInv'
    <2>1. Others(t)
      BY <1>3, EnterStepOf
    <2>2. CASE left' = left
      BY <1>1, <1>3, <1>o, <2>1, <2>2 DEF LeftInv, Others, Ended
    <2>3. CASE left' # left
      <3>1. /\ Takes(page[t], page'[t], NoSid, 0) /\ row' = row
            /\ left' = [left EXCEPT ![t] = @ \cup {s \in Sids : s = page[t].store.sid
                                                                 /\ ~Active(s)}]
        BY <1>3, <2>3 DEF OneTab, PlainStep, SendStep, GiveUpStep, CheckStep,
           RotateStep, AgainStep, EndStep, LostStep, ReloadStep, ClearStep, LoginStep,
           EnterStep, ChangeStep, ChangedStep
      <3>2. /\ left'[t] = left[t] \cup {s \in Sids : s = page[t].store.sid /\ ~Active(s)}
            /\ \A u \in Tabs \ {t} : left'[u] = left[u]
        BY <3>1, TypeNames
      <3>3. \A s \in left'[t] : row'[s].status = "revoked"
        BY <1>2, <1>o, <3>1, <3>2
      <3>4. Away(page'[t], left'[t])
        BY <1>l, <3>1, <3>2, WebAssumption DEF Takes, Away, Sids, NoSid
      <3> QED BY <1>o, <2>1, <3>2, <3>3, <3>4 DEF LeftInv, Others, Ended
    <2> QED BY <2>2, <2>3
  <1>4. ASSUME page' = page, left' = left PROVE LeftInv'
    BY <1>4, <1>o DEF LeftInv, Ended
  <1> QED BY <1>3, <1>4, Steps DEF RevokeStep, GraceStep, OrphanStep

LEMMA LeftInit == Init => LeftInv
  BY DEF Init, LeftInv, Ended, Away

\* Types, rows and who knows of them: what the arguments below stand on.
LEMMA SeenHolds == Spec => [](TypeOK /\ Named /\ RowInv /\ SeenInv)
  <1>1. TypeOK /\ Named /\ TypeOK' /\ RowInv /\ SeenInv /\ [Next]_vars
          => RowInv' /\ SeenInv'
    <2> SUFFICES ASSUME TypeOK, Named, TypeOK', RowInv, SeenInv, [Next]_vars
                 PROVE  RowInv' /\ SeenInv'
      OBVIOUS
    <2>1. CASE UNCHANGED vars
      BY <2>1 DEF vars, RowInv, InOrder, RowChain, SeenInv, AllSeen, SeenSids, PageIn,
         OwnAnswer, Own, FreshLogins
    <2>2. CASE Next
      BY <2>2, RowStep, SeenStep
    <2> QED BY <2>1, <2>2
  <1> QED BY <1>1, RowInit, SeenInit, WebTypes, PTL DEF Spec

\* A tab that has signed out of a session the server has ended never holds it
\* again: no refresh brings it back, of this tab or of another, whether or not
\* the Web Lock exists.
THEOREM SignedOutForGood == Spec => []StaysOut
  <1>1. TypeOK /\ Named /\ TypeOK' /\ RowInv /\ SeenInv /\ LeftInv /\ [Next]_vars
          => LeftInv'
    <2> SUFFICES ASSUME TypeOK, Named, TypeOK', RowInv, SeenInv, LeftInv, [Next]_vars
                 PROVE  LeftInv'
      OBVIOUS
    <2>1. CASE UNCHANGED vars
      BY <2>1 DEF vars, LeftInv, Ended, Away
    <2>2. CASE Next
      BY <2>2, LeftStep
    <2> QED BY <2>1, <2>2
  <1>2. LeftInv => StaysOut
    BY DEF LeftInv, Away, StaysOut
  <1> QED BY <1>1, <1>2, LeftInit, SeenHolds, PTL DEF Spec

-----------------------------------------------------------------------------
(* Reuse. *)

UnderWay == {"sent", "checked", "back"}

\* One tab at a time has a refresh under way.
LockHeld == \A t \in Tabs : page[t].flight.at \in UnderWay => lock = t

\* The answer of the rotation that has made the cookie the previous secret
\* is on its way to t.
Arriving(t) ==
    /\ page[t].flight.at = "back" /\ page[t].flight.ans.kind = "bundle"
    /\ page[t].flight.tok = cookie

\* Of a session that has lost no answer, the cookie is the current secret, or
\* the answer that brings it is arriving.
CookieCurrent ==
    cookie.sid \in Sids \ dropped =>
        \/ cookie.gen = row[cookie.sid].gen
        \/ \E t \in Tabs : Arriving(t)

\* What a refresh presents is the current secret until it rotates it, and then
\* the previous one, with its grace.
Presenting(f, rows, lost) ==
    f.tok.sid \in Sids \ lost =>
        /\ f.at \in {"sent", "checked"} => f.tok.gen = rows[f.tok.sid].gen
        /\ f.at = "back" /\ f.ans.kind = "bundle" =>
             /\ f.ans.gen = rows[f.tok.sid].gen
             /\ f.tok.gen = rows[f.tok.sid].prev /\ rows[f.tok.sid].grace

FlightCurrent == \A t \in Tabs : Presenting(page[t].flight, row, dropped)

\* A request whose page has gone does not present the previous secret without
\* its grace.
Graced(q, rows, lost) ==
    q.tok.sid \in Sids \ lost =>
        /\ q.tok.gen <= rows[q.tok.sid].gen
        /\ q.tok.gen = rows[q.tok.sid].prev => rows[q.tok.sid].grace

OrphansGraced == \A q \in orphans : Graced(q, row, dropped)

ReuseInv ==
    LockHeld /\ CookieCurrent /\ FlightCurrent /\ OrphansGraced /\ NoFalseReuse

\* The Web Lock goes from tab to tab.
LEMMA LockStep ==
    ASSUME TypeOK, UseLocks, LockHeld, NEW t \in Tabs, OneTab(t)
    PROVE  LockHeld'
  <1>o. Others(t) /\ t # Nobody /\ lock \in Tabs \cup {Nobody}
    <2>1. Others(t)
      <3>1. CASE ReloadStep(t)
        BY <3>1, TypeNames DEF ReloadStep, Reload, Others
      <3> QED BY <3>1 DEF OneTab, PlainStep, SendStep, GiveUpStep, CheckStep, RotateStep,
              AgainStep, EndStep, LostStep, ClearStep, LoginStep, EnterStep, ChangeStep,
              ChangedStep
    <2> QED BY <2>1, WebAssumption DEF TypeOK
  <1>k. NoFlight.at = "none" /\ NewPage.flight = NoFlight
    BY DEF NoFlight, NewPage
  <1>1. CASE SendStep(t)
    BY <1>1, <1>o, WebAssumption DEF SendStep, LockHeld, Others
  <1>2. ASSUME lock' = Unlocked(t), page'[t].flight.at \notin UnderWay PROVE LockHeld'
    BY <1>2, <1>o DEF Unlocked, LockHeld, Others
  <1>3. ASSUME lock' = lock, page'[t].flight.at \in UnderWay => page[t].flight.at \in UnderWay
        PROVE  LockHeld'
    BY <1>3, <1>o DEF LockHeld, Others
  <1>4. CASE EndStep(t) \/ ReloadStep(t)
    <2>1. page'[t].flight = NoFlight
      BY <1>4, <1>k, TypeNames DEF EndStep, ReloadStep, Reload, Over
    <2> QED BY <1>2, <1>4, <1>k, <2>1 DEF EndStep, ReloadStep, Reload, UnderWay
  <1>5. CASE PlainStep(t) \/ GiveUpStep(t) \/ AgainStep(t)
    BY <1>3, <1>5, <1>k DEF PlainStep, GiveUpStep, AgainStep, Untouched, Starts, Sends, Over,
       SameFlight, UnderWay
  <1>6. CASE CheckStep(t) \/ RotateStep(t) \/ LostStep(t)
    BY <1>3, <1>6 DEF CheckStep, RotateStep, LostStep, UnderWay
  <1>7. CASE ClearStep(t) \/ LoginStep(t) \/ EnterStep(t) \/ ChangeStep(t) \/ ChangedStep(t)
    BY <1>3, <1>7 DEF ClearStep, LoginStep, EnterStep, ChangeStep, ChangedStep, Takes,
       SameFlight
  <1> QED BY <1>1, <1>4, <1>5, <1>6, <1>7 DEF OneTab

\* A step that keeps the secrets keeps what is known of who presents them.
LEMMA KeptPresenting ==
    ASSUME \A s \in Sids : KeptSecrets(s), dropped \subseteq dropped'
    PROVE  /\ \A f : Presenting(f, row, dropped) => Presenting(f, row', dropped')
           /\ \A q : Graced(q, row, dropped) => Graced(q, row', dropped')
           /\ NoFalseReuse => NoFalseReuse'
  <1>1. \A f : Presenting(f, row, dropped) => Presenting(f, row', dropped')
    BY DEF KeptSecrets, Presenting
  <1>2. \A q : Graced(q, row, dropped) => Graced(q, row', dropped')
    BY DEF KeptSecrets, Graced
  <1>3. NoFalseReuse => NoFalseReuse'
    BY DEF KeptSecrets, NoFalseReuse
  <1> QED BY <1>1, <1>2, <1>3

\* A step of a tab that is not the rotation.
LEMMA TabReuse ==
    ASSUME TypeOK, RowInv, SeenInv, UseLocks, ReuseInv, NEW t \in Tabs, OneTab(t),
           ~RotateStep(t)
    PROVE  ReuseInv'
  <1>k. /\ NoFlight.at = "none" /\ NewPage.flight = NoFlight /\ NoAnswer.kind = "none"
        /\ Answer("failed").kind = "failed" /\ NoCookie.sid = NoSid /\ NoSid \notin Sids
    BY WebAssumption DEF NoFlight, NewPage, NoAnswer, Answer, NoCookie, Sids, NoSid
  <1>o. Others(t) /\ LockHeld'
    BY EnterStepOf, LockStep DEF ReuseInv
  <1>s. \A s \in Sids : KeptSecrets(s)
    BY KeptStep
  <1>d. /\ dropped \subseteq dropped'
        /\ dropped' = dropped \/ LostStep(t) \/ ReloadStep(t)
    BY DEF OneTab, PlainStep, SendStep, GiveUpStep, CheckStep, AgainStep, EndStep,
       LostStep, ReloadStep, Reload, ClearStep, LoginStep, EnterStep, ChangeStep, ChangedStep
  <1>f. Presenting(page[t].flight, row, dropped) /\ Presenting(page[t].flight, row', dropped')
    BY <1>s, <1>d, KeptPresenting DEF ReuseInv, FlightCurrent
  \* Nobody else has a refresh under way when this tab has one or starts one.
  <1>a. ASSUME page[t].flight.at \in UnderWay \/ SendStep(t)
        PROVE  \A u \in Tabs \ {t} : page[u].flight.at \notin UnderWay
    BY <1>a, WebAssumption DEF ReuseInv, LockHeld, SendStep
  \* A refresh goes out with the current secret.
  <1>1. ASSUME SendStep(t) \/ AgainStep(t), cookie.sid \in Sids \ dropped
        PROVE  cookie.gen = row[cookie.sid].gen
    <2>1. \A u \in Tabs : ~Arriving(u)
      BY <1>1, <1>a DEF SendStep, AgainStep, Arriving, UnderWay
    <2> QED BY <1>1, <2>1 DEF ReuseInv, CookieCurrent
  <1>2. Presenting(page'[t].flight, row', dropped')
    <2>1. CASE SendStep(t) \/ AgainStep(t)
      <3>1. /\ page'[t].flight.at = "sent" /\ page'[t].flight.tok = cookie
            /\ row' = row
        BY <2>1 DEF SendStep, AgainStep, Sends
      <3> QED BY <1>1, <1>d, <2>1, <3>1 DEF Presenting
    <2>2. CASE PlainStep(t) \/ GiveUpStep(t) \/ EndStep(t)
      BY <1>f, <1>k, <2>2 DEF PlainStep, GiveUpStep, EndStep, Untouched, Starts, Over,
         SameFlight, Presenting
    <2>3. CASE CheckStep(t) \/ LostStep(t)
      BY <1>f, <1>k, <2>3 DEF CheckStep, LostStep, Presenting
    <2>4. CASE ReloadStep(t)
      BY <1>k, <2>4, TypeNames DEF ReloadStep, Reload, Presenting
    <2>5. CASE ClearStep(t) \/ LoginStep(t) \/ EnterStep(t) \/ ChangedStep(t) \/ ChangeStep(t)
      BY <1>f, <2>5 DEF ClearStep, LoginStep, EnterStep, ChangedStep, ChangeStep, Takes,
         SameFlight, Presenting
    <2> QED BY <2>1, <2>2, <2>3, <2>4, <2>5 DEF OneTab
  <1>3. FlightCurrent'
    BY <1>2, <1>o, <1>s, <1>d, KeptPresenting DEF FlightCurrent, ReuseInv, Others
  <1>4. OrphansGraced'
    <2>1. \A q \in orphans : Graced(q, row', dropped')
      BY <1>s, <1>d, KeptPresenting DEF ReuseInv, OrphansGraced
    <2>2. CASE orphans' = orphans
      BY <2>1, <2>2 DEF OrphansGraced
    <2>3. CASE ReloadStep(t)
      <3>1. ASSUME page[t].flight.at \in {"sent", "checked"}
            PROVE  Graced([tok |-> page[t].flight.tok, exp |-> page[t].flight.exp],
                          row', dropped')
        <4> DEFINE tok == page[t].flight.tok
        <4>1. CASE tok.sid \in Sids \ dropped'
          <5>1. tok.gen = row[tok.sid].gen /\ row' = row
            BY <1>d, <1>f, <2>3, <3>1, <4>1 DEF Presenting, ReloadStep
          <5>2. tok.gen \in Nat /\ row[tok.sid].gen = tok.gen
                /\ row[tok.sid].prev \in Nat \cup {-1}
            <6>1. tok \in Cookies /\ row[tok.sid] \in Rows
              BY <4>1, TypeNames DEF Pages, FlightSet
            <6> QED BY <5>1, <6>1, Sidded DEF Rows
          <5>3. row[tok.sid].prev >= 0 => row[tok.sid].gen = row[tok.sid].prev + 1
            BY <4>1 DEF RowInv, RowChain
          <5>4. row[tok.sid].prev # tok.gen
            BY <5>2, <5>3
          <5> QED BY <5>1, <5>2, <5>4 DEF Graced
        <4>2. CASE tok.sid \notin Sids \ dropped'
          BY <4>2 DEF Graced
        <4> QED BY <4>1, <4>2
      <3> QED BY <2>1, <2>3, <3>1 DEF OrphansGraced, ReloadStep, Reload, Abandoned
    <2> QED BY <2>2, <2>3 DEF OneTab, PlainStep, SendStep, GiveUpStep, CheckStep,
            AgainStep, EndStep, LostStep, ClearStep, LoginStep, EnterStep, ChangeStep,
            ChangedStep
  <1>5. CookieCurrent'
    <2>c. CookieCurrent /\ cookie \in Cookies
      BY TypeNames DEF ReuseInv
    \* The cookie stays.
    <2>1. ASSUME cookie' = cookie,
                 Arriving(t) => \/ Arriving(t)' \/ cookie.sid \in dropped'
          PROVE  CookieCurrent'
      <3>1. SUFFICES ASSUME cookie.sid \in Sids \ dropped'
                     PROVE  \/ cookie.gen = row'[cookie.sid].gen
                            \/ \E u \in Tabs : Arriving(u)'
        BY <2>1 DEF CookieCurrent
      <3>2. CASE cookie.gen = row[cookie.sid].gen
        BY <1>s, <3>1, <3>2 DEF KeptSecrets
      <3>3. ASSUME NEW u \in Tabs, Arriving(u) PROVE Arriving(u)'
        <4>1. CASE u = t
          BY <2>1, <3>1, <3>3, <4>1
        <4>2. CASE u # t
          BY <1>o, <2>1, <3>3, <4>2 DEF Arriving, Others
        <4> QED BY <4>1, <4>2
      <3> QED BY <1>d, <2>c, <3>1, <3>2, <3>3 DEF CookieCurrent
    <2>2. ASSUME cookie' = NoCookie PROVE CookieCurrent'
      BY <1>k, <2>2 DEF CookieCurrent
    <2>3. CASE SendStep(t) \/ GiveUpStep(t) \/ CheckStep(t) \/ AgainStep(t)
      <3>1. cookie' = cookie /\ ~Arriving(t)
        BY <2>3 DEF SendStep, GiveUpStep, CheckStep, AgainStep, Arriving
      <3> QED BY <2>1, <3>1
    <2>4. CASE PlainStep(t) \/ ClearStep(t)
      <3>1. ASSUME Arriving(t), cookie' = cookie PROVE Arriving(t)'
        BY <2>4, <3>1 DEF PlainStep, ClearStep, Untouched, Starts, SameFlight, Takes, Arriving
      <3> QED BY <2>1, <2>2, <2>4, <3>1 DEF PlainStep, ClearStep
    <2>5. CASE LoginStep(t) \/ ChangeStep(t) \/ ChangedStep(t)
      <3>1. cookie' = cookie /\ (Arriving(t) => Arriving(t)')
        BY <2>5 DEF LoginStep, ChangeStep, ChangedStep, SameFlight, Takes, Arriving
      <3> QED BY <2>1, <3>1
    <2>6. CASE LostStep(t) \/ ReloadStep(t)
      <3>1. cookie' = cookie /\ dropped' = dropped \cup LostWith(page[t])
        BY <2>6 DEF LostStep, ReloadStep, Reload
      <3>2. Arriving(t) => cookie.sid \in LostWith(page[t])
        BY DEF Arriving, LostWith, SeenInv, OwnAnswer, Own
      <3> QED BY <2>1, <3>1, <3>2
    <2>7. CASE EndStep(t)
      <3> DEFINE f == page[t].flight
      <3>1. f.at = "back" /\ cookie' = CookieAfter(f.ans)
        BY <2>7 DEF EndStep
      <3>2. CASE f.ans.kind = "bundle"
        <4>1. cookie' = [sid |-> f.ans.sid, gen |-> f.ans.gen] /\ f.ans.sid = f.tok.sid
          BY <3>1, <3>2 DEF CookieAfter, SeenInv, OwnAnswer, Own
        <4>2. f.tok.sid \in Sids \ dropped' => f.ans.gen = row'[f.tok.sid].gen
          BY <1>f, <3>1, <3>2 DEF Presenting
        <4> QED BY <4>1, <4>2 DEF CookieCurrent
      <3>3. CASE f.ans.kind = "denied"
        BY <2>2, <3>1, <3>3 DEF CookieAfter
      <3>4. CASE f.ans.kind \notin {"bundle", "denied"}
        <4>1. cookie' = cookie
          BY <3>1, <3>4 DEF CookieAfter
        <4>2. ~Arriving(t)
          BY <3>4 DEF Arriving
        <4> QED BY <2>1, <4>1, <4>2
      <3> QED BY <3>2, <3>3, <3>4
    <2>8. CASE EnterStep(t)
      <3>1. /\ cookie' = [sid |-> page[t].enter, gen |-> 0] /\ row' = row
            /\ row[page[t].enter].gen = 0
        BY <2>8 DEF EnterStep, SeenInv, FreshLogins
      <3> QED BY <3>1 DEF CookieCurrent
    <2> QED BY <2>3, <2>4, <2>5, <2>6, <2>7, <2>8 DEF OneTab
  <1>6. NoFalseReuse'
    BY <1>s, <1>d, KeptPresenting DEF ReuseInv
  <1> QED BY <1>3, <1>4, <1>5, <1>6, <1>o DEF ReuseInv

\* The rotation makes the cookie the previous secret, with its grace, and the
\* answer that brings the next one is on its way.
LEMMA RotateReuse ==
    ASSUME TypeOK, RowInv, SeenInv, UseLocks, ReuseInv, NEW t \in Tabs, RotateStep(t)
    PROVE  ReuseInv'
  <1> DEFINE tok == page[t].flight.tok
  <1>o. Others(t) /\ LockHeld'
    BY EnterStepOf, LockStep DEF ReuseInv, OneTab
  <1>p. tok \in Cookies /\ tok.gen \in Nat
    BY TypeNames, Sidded DEF Pages, FlightSet
  <1>a. \A u \in Tabs \ {t} : page[u].flight.at \notin UnderWay
    BY DEF ReuseInv, LockHeld, RotateStep, UnderWay
  <1>t. /\ row' = RotateRow(tok) /\ page[t].flight.at = "checked"
        /\ page'[t].flight.at = "back" /\ page'[t].flight.tok = tok
        /\ page'[t].flight.ans = RotateAnswer(tok)
        /\ UNCHANGED <<cookie, orphans, dropped>>
    BY DEF RotateStep
  <1>r. /\ \A s \in Sids : row'[s] = row[s] \/ Rotates(s, tok) \/ Reuses(s, tok)
        /\ Active(tok.sid) /\ tok.gen = row[tok.sid].gen => Rotates(tok.sid, tok)
    BY <1>p, <1>t, RotatedRows
  <1>g. tok.sid \in Sids \ dropped => tok.gen = row[tok.sid].gen
    BY <1>t DEF ReuseInv, FlightCurrent, Presenting
  <1>n. \A s \in Sids : row[s].gen \in Nat /\ row[s].prev \in Nat \cup {-1}
    BY TypeNames DEF Rows
  <1>1. \A s \in Sids \ dropped : row'[s] = row[s] \/ Rotates(s, tok)
    BY <1>g, <1>r DEF Reuses
  <1>2. FlightCurrent'
    <2>1. Presenting(page'[t].flight, row', dropped')
      <3>1. SUFFICES ASSUME tok.sid \in Sids \ dropped, RotateAnswer(tok).kind = "bundle"
                     PROVE  /\ RotateAnswer(tok).gen = row'[tok.sid].gen
                            /\ tok.gen = row'[tok.sid].prev /\ row'[tok.sid].grace
        BY <1>t DEF Presenting
      <3>2. Active(tok.sid) /\ RotateAnswer(tok).gen = tok.gen + 1
        BY <1>p, <3>1, RotateTypes
      <3> QED BY <1>g, <1>r, <3>1, <3>2 DEF Rotates
    <2>2. \A u \in Tabs \ {t} : Presenting(page'[u].flight, row', dropped')
      BY <1>a, <1>o DEF Others, Presenting, UnderWay
    <2> QED BY <2>1, <2>2 DEF FlightCurrent
  <1>3. OrphansGraced'
    <2> SUFFICES ASSUME NEW q \in orphans, q.tok.sid \in Sids \ dropped
                 PROVE  /\ q.tok.gen <= row'[q.tok.sid].gen
                        /\ q.tok.gen = row'[q.tok.sid].prev => row'[q.tok.sid].grace
      BY <1>t DEF OrphansGraced, Graced
    <2>1. q.tok.gen \in Nat
      BY TypeNames, Sidded DEF Requests
    <2>2. /\ q.tok.gen <= row[q.tok.sid].gen
          /\ q.tok.gen = row[q.tok.sid].prev => row[q.tok.sid].grace
      BY DEF ReuseInv, OrphansGraced, Graced
    <2>3. CASE row'[q.tok.sid] = row[q.tok.sid]
      BY <2>2, <2>3
    <2>4. CASE Rotates(q.tok.sid, tok)
      <3>1. row'[q.tok.sid].gen = row[q.tok.sid].gen + 1 /\ row'[q.tok.sid].grace
        BY <2>4 DEF Rotates
      <3> QED BY <1>n, <2>1, <2>2, <3>1
    <2> QED BY <1>1, <2>3, <2>4
  <1>4. CookieCurrent'
    <2>1. SUFFICES ASSUME cookie.sid \in Sids \ dropped
                   PROVE  \/ cookie.gen = row'[cookie.sid].gen
                          \/ Arriving(t)'
      BY <1>t DEF CookieCurrent
    <2>2. \A u \in Tabs : ~Arriving(u)
      BY <1>a, <1>t DEF Arriving, UnderWay
    <2>3. cookie.gen = row[cookie.sid].gen
      BY <2>1, <2>2 DEF ReuseInv, CookieCurrent
    <2>4. CASE row'[cookie.sid] = row[cookie.sid]
      BY <2>3, <2>4
    <2>5. CASE Rotates(cookie.sid, tok)
      <3>1. cookie.sid = tok.sid /\ cookie.gen = tok.gen /\ row[tok.sid].status = "active"
        BY <2>3, <2>5 DEF Rotates
      <3>2. cookie = tok
        <4>1. cookie \in [sid: Sids, gen: Nat] /\ tok \in [sid: Sids, gen: Nat]
          BY <1>p, <2>1, <3>1, TypeNames, Sidded, WebAssumption DEF Cookies, Sids, NoSid
        <4> QED BY <3>1, <4>1
      <3>3. RotateAnswer(tok).kind = "bundle"
        <4>1. Active(tok.sid) /\ Presents(tok, row[tok.sid].gen)
          BY <1>p, <2>1, <2>3, <3>1 DEF Active, Presents
        <4> QED BY <4>1 DEF RotateAnswer
      <3> QED BY <1>t, <3>2, <3>3 DEF Arriving
    <2> QED BY <1>1, <2>1, <2>4, <2>5
  <1>5. NoFalseReuse'
    <2>1. \A s \in Sids \ dropped : row'[s].why = row[s].why
      BY <1>1 DEF Rotates
    <2> QED BY <1>t, <2>1 DEF ReuseInv, NoFalseReuse
  <1> QED BY <1>2, <1>3, <1>4, <1>5, <1>o DEF ReuseInv

\* The other steps of the server.
LEMMA ServerReuse ==
    ASSUME TypeOK, RowInv, SeenInv, UseLocks, ReuseInv,
           \/ RevokeStep
           \/ \E s \in Sids : GraceStep(s)
           \/ \E q \in orphans : OrphanStep(q)
    PROVE  ReuseInv'
  <1>0. page' = page /\ cookie' = cookie /\ lock' = lock
        /\ orphans' \subseteq orphans /\ dropped \subseteq dropped'
    BY DEF RevokeStep, GraceStep, OrphanStep
  <1>l. LockHeld'
    BY <1>0 DEF ReuseInv, LockHeld
  <1>w. \A t \in Tabs : Arriving(t)' <=> Arriving(t)
    BY <1>0 DEF Arriving
  \* It is enough that the sessions that have lost nothing keep their secrets.
  <1>1. ASSUME \A s \in Sids \ dropped' : KeptSecrets(s) PROVE ReuseInv'
    <2>1. FlightCurrent'
      BY <1>0, <1>1 DEF KeptSecrets, ReuseInv, FlightCurrent, Presenting
    <2>2. OrphansGraced'
      BY <1>0, <1>1 DEF KeptSecrets, ReuseInv, OrphansGraced, Graced
    <2>3. CookieCurrent'
      BY <1>0, <1>1, <1>w DEF KeptSecrets, ReuseInv, CookieCurrent
    <2>4. NoFalseReuse'
      BY <1>0, <1>1 DEF KeptSecrets, ReuseInv, NoFalseReuse
    <2> QED BY <1>l, <2>1, <2>2, <2>3, <2>4 DEF ReuseInv
  <1>2. CASE RevokeStep
    BY <1>1, <1>2, KeptStep
  <1>3. ASSUME NEW s \in Sids, GraceStep(s) PROVE ReuseInv'
    <2>1. ~InFlight(s) /\ row' = [row EXCEPT ![s].grace = FALSE]
          /\ orphans' = orphans /\ dropped' = dropped
      BY <1>3 DEF GraceStep
    <2>2. /\ \A x \in Sids \ {s} : row'[x] = row[x]
          /\ row'[s].gen = row[s].gen /\ row'[s].prev = row[s].prev
          /\ row'[s].why = row[s].why
      <3>1. row \in [Sids -> Rows] /\ row[s] \in Rows
        BY TypeNames
      <3> QED BY <2>1, <3>1 DEF Rows
    <2>k. \A ck \in Cookies : ck.sid = s => ck = [sid |-> s, gen |-> ck.gen]
      <3>1. NoCookie.sid # s
        BY WebAssumption DEF NoCookie, Sids, NoSid
      <3> QED BY <3>1 DEF Cookies
    <2>3. FlightCurrent'
      <3> SUFFICES ASSUME NEW t \in Tabs PROVE Presenting(page[t].flight, row', dropped)
        BY <1>0, <2>1 DEF FlightCurrent
      <3>1. Presenting(page[t].flight, row, dropped) /\ page[t].flight.tok \in Cookies
        BY TypeNames DEF ReuseInv, FlightCurrent, Pages, FlightSet
      <3>2. CASE page[t].flight.tok.sid # s
        BY <2>2, <3>1, <3>2 DEF Presenting
      <3>3. CASE page[t].flight.tok.sid = s
        <4>1. page[t].flight.at = "back" => page[t].flight.tok.gen # row[s].prev
          BY <2>1, <2>k, <3>1, <3>3 DEF InFlight
        <4> QED BY <2>2, <3>1, <3>3, <4>1 DEF Presenting
      <3> QED BY <3>2, <3>3
    <2>4. OrphansGraced'
      <3> SUFFICES ASSUME NEW q \in orphans PROVE Graced(q, row', dropped)
        BY <2>1 DEF OrphansGraced
      <3>1. Graced(q, row, dropped) /\ q.tok \in Cookies
        BY TypeNames DEF ReuseInv, OrphansGraced, Requests
      <3>2. CASE q.tok.sid # s
        BY <2>2, <3>1, <3>2 DEF Graced
      <3>3. CASE q.tok.sid = s
        <4>1. q.tok.gen # row[s].prev
          BY <2>1, <2>k, <3>1, <3>3 DEF InFlight
        <4> QED BY <2>2, <3>1, <3>3, <4>1 DEF Graced
      <3> QED BY <3>2, <3>3
    <2>5. CookieCurrent'
      BY <1>0, <1>w, <2>1, <2>2 DEF ReuseInv, CookieCurrent
    <2>6. NoFalseReuse'
      BY <2>1, <2>2 DEF ReuseInv, NoFalseReuse
    <2> QED BY <1>l, <2>3, <2>4, <2>5, <2>6 DEF ReuseInv
  <1>4. ASSUME NEW q \in orphans, OrphanStep(q) PROVE ReuseInv'
    <2>1. CASE RowsEnd
      BY <1>1, <2>1 DEF RowsEnd, KeptSecrets
    <2>2. CASE ~RowsEnd
      <3>1. /\ row' = RotateRow(q.tok) /\ q.tok \in Cookies
            /\ dropped' = IF RotateAnswer(q.tok).kind = "bundle"
                            THEN dropped \cup {q.tok.sid} ELSE dropped
        BY <1>4, <2>2, TypeNames DEF OrphanStep, Requests
      <3>2. ASSUME NEW s \in Sids \ dropped', Rotates(s, q.tok) PROVE FALSE
        <4>1. s = q.tok.sid /\ Active(q.tok.sid) /\ q.tok.gen = row[q.tok.sid].gen
          BY <3>2 DEF Rotates, Active
        <4>2. Presents(q.tok, row[q.tok.sid].gen)
          BY <3>1, <4>1, Sidded DEF Presents
        <4>3. RotateAnswer(q.tok).kind = "bundle"
          BY <4>1, <4>2 DEF RotateAnswer
        <4> QED BY <3>1, <3>2, <4>1, <4>3
      <3>3. ASSUME NEW s \in Sids \ dropped', Reuses(s, q.tok) PROVE FALSE
        BY <1>0, <3>3 DEF Reuses, ReuseInv, OrphansGraced, Graced
      <3>4. \A s \in Sids \ dropped' : row'[s] = row[s]
        BY <3>1, <3>2, <3>3, RotatedRows
      <3> QED BY <1>1, <3>4 DEF KeptSecrets
    <2> QED BY <2>1, <2>2
  <1> QED BY <1>2, <1>3, <1>4

LEMMA ReuseInit == Init => ReuseInv
  <1> SUFFICES ASSUME Init PROVE ReuseInv
    OBVIOUS
  <1>1. \A t \in Tabs : page[t].flight.at = "none"
    BY DEF Init, NewPage, NoFlight
  <1>2. 1 \in Sids /\ cookie.sid = 1 /\ cookie.gen = 0 /\ orphans = {}
    BY WebAssumption DEF Init, Sids
  <1>3. \A s \in Sids : row[s].why = "none" /\ row[s].gen = 0
    BY DEF Init, NoRow
  <1>4. LockHeld /\ FlightCurrent
    BY <1>1 DEF LockHeld, FlightCurrent, Presenting, UnderWay
  <1> QED BY <1>2, <1>3, <1>4
          DEF ReuseInv, CookieCurrent, OrphansGraced, NoFalseReuse

\* Where the browser has Web Locks, its tabs never trip the reuse detection of
\* RotateUserSessionRefresh, whatever they do and whatever is lost: a session
\* is revoked for "refresh_reuse" only after an answer to one of its rotations
\* has been lost on the way.
THEOREM LockPreventsReuse ==
    ASSUME UseLocks
    PROVE  Spec => []NoFalseReuse
  <1>1. TypeOK /\ Named /\ RowInv /\ SeenInv /\ ReuseInv /\ [Next]_vars => ReuseInv'
    <2> SUFFICES ASSUME TypeOK, Named, RowInv, SeenInv, ReuseInv, [Next]_vars
                 PROVE  ReuseInv'
      OBVIOUS
    <2>1. CASE UNCHANGED vars
      BY <2>1 DEF vars, ReuseInv, LockHeld, CookieCurrent, Arriving, FlightCurrent,
         Presenting, OrphansGraced, Graced, NoFalseReuse
    <2>2. CASE Next
      BY <2>2, Steps, TabReuse, RotateReuse, ServerReuse
    <2> QED BY <2>1, <2>2
  <1>2. ReuseInv => NoFalseReuse
    BY DEF ReuseInv
  <1> QED BY <1>1, <1>2, ReuseInit, SeenHolds, PTL DEF Spec

-----------------------------------------------------------------------------
(* The tabs and the cookie. *)

\* s has been seen, and the cookie is of another session: it will never be of
\* s again, unless tabs have gone astray.
Past(s, c, S) == s \in S /\ (s = NoSid \/ s # c)

\* The event that tells of the session c is on its way.
Hears(ev, c) == \E i \in 1..Len(ev) : ev[i] = [kind |-> "authenticated", sid |-> c]

\* A sign-out was sent without a cookie.
Exits(p) == p.leave.at \in {"sent", "back"} /\ p.leave.ck = NoCookie

\* A refresh expects the session of the store for as long as it counts, and
\* tries a second time only when it expects none.
FlightOf(p) ==
    LET f == p.flight IN
    /\ f.at = "queued" => f.again
    /\ f.at \in UnderWay => /\ f.current => p.store.sid = f.exp
                            /\ f.again \/ f.exp = NoSid
    /\ f.at = "back" =>
         /\ f.ans.kind \in {"bundle", "mismatch", "denied", "failed"}
         /\ f.ans.kind = "mismatch" => f.exp \notin {NoSid, f.tok.sid}

\* A sign-out that leaves the cookie alone had none.
LeaveOf(p) ==
    p.leave.at = "back" /\ p.leave.ans = "ok" /\ ~p.leave.clears => p.leave.ck = NoCookie

AskInv == \A t \in Tabs : FlightOf(page[t]) /\ LeaveOf(page[t])

\* A session that a request names beside the cookie is past.
OldOnes(p, c, S) ==
    /\ /\ p.flight.at \in UnderWay /\ p.flight.exp \notin {NoSid, p.flight.tok.sid}
       => Past(p.flight.exp, c, S)
    /\ Exits(p) => Past(p.leave.tok.sid, c, S)

\* What an event signs out of is past.
OldEvents(ev, c, S) ==
    \A i \in 1..Len(ev) : ev[i].kind = "signed_out" => Past(ev[i].sid, c, S)

\* A page holds the session c of the cookie, or will look for it, or hears of
\* it; one that signs out without a cookie does not look for it.
Agreed(p, ev, c) ==
    c # NoSid => \/ Hears(ev, c)
                 \/ p.store.sid = c
                 \/ p.store.sid = NoSid /\ p.boot # "complete" /\ ~Exits(p)

InStep(p, ev, c, S) == OldOnes(p, c, S) /\ OldEvents(ev, c, S) /\ Agreed(p, ev, c)

SyncInv == ~astray => \A t \in Tabs : InStep(page[t], queue[t], cookie.sid, SeenSids)

\* Nothing that matters here is new in q.
Milder(p, q) ==
    /\ q.store.sid = p.store.sid
    /\ q.boot = "complete" => p.boot = "complete" \/ p.store.sid # NoSid
    /\ q.leave = p.leave \/ q.leave.at \notin {"sent", "back"}
    /\ \/ q.flight.at = "none"
       \/ q.flight.at = "queued" /\ q.flight.again
       \/ /\ q.flight.at = p.flight.at /\ q.flight.again = p.flight.again
          /\ q.flight.exp = p.flight.exp /\ q.flight.tok = p.flight.tok
          /\ q.flight.ans = p.flight.ans
          /\ q.flight.current => p.flight.current

LEMMA MilderAsks ==
    ASSUME NEW p, NEW q, Milder(p, q), FlightOf(p), LeaveOf(p)
    PROVE  FlightOf(q) /\ LeaveOf(q)
  <1>1. FlightOf(q)
    BY DEF Milder, FlightOf, UnderWay
  <1>2. LeaveOf(q)
    BY DEF Milder, LeaveOf
  <1> QED BY <1>1, <1>2

\* What is past stays so.
LEMMA PastStays ==
    ASSUME NEW s, NEW c, NEW S, NEW T, S \subseteq T, NEW d,
           d \in {c, NoSid} \/ d \notin S, Past(s, c, S)
    PROVE  Past(s, d, T)
  BY DEF Past

LEMMA MilderInStep ==
    ASSUME NEW p, NEW q, Milder(p, q), NEW ev, NEW c, NEW d \in {c, NoSid},
           NEW S, NEW T, S \subseteq T, InStep(p, ev, c, S)
    PROVE  InStep(q, ev, d, T)
  <1>1. OldOnes(q, d, T)
    BY PastStays DEF Milder, InStep, OldOnes, UnderWay, Exits
  <1>2. OldEvents(ev, d, T)
    BY PastStays DEF InStep, OldEvents
  <1>3. Agreed(q, ev, d)
    BY DEF InStep, Milder, Agreed, Exits
  <1> QED BY <1>1, <1>2, <1>3 DEF InStep

\* Events that are still to come stay so when another one is sent.
LEMMA SentEvent ==
    ASSUME NEW ev \in Seq(Events), NEW e \in Events
    PROVE  /\ Len(Append(ev, e)) = Len(ev) + 1 /\ Len(ev) \in Nat
           /\ Append(ev, e)[Len(ev) + 1] = e
           /\ \A i \in 1..Len(ev) : Append(ev, e)[i] = ev[i]
  OBVIOUS

\* A tab that another one sends an event to.
LEMMA TellInStep ==
    ASSUME NEW p, NEW ev \in Seq(Events), NEW e \in Events, NEW c, NEW d,
           NEW S, NEW T, S \subseteq T, InStep(p, ev, c, S),
           \/ d \in {c, NoSid}
           \/ d \notin S /\ e = [kind |-> "authenticated", sid |-> d],
           e.kind = "signed_out" => Past(e.sid, d, T)
    PROVE  InStep(p, Append(ev, e), d, T)
  <1> DEFINE n == Len(ev)
             fv == Append(ev, e)
  <1>1. /\ Len(fv) = n + 1 /\ n \in Nat /\ fv[n + 1] = e
        /\ \A i \in 1..n : fv[i] = ev[i]
    BY SentEvent
  <1>2. /\ \A i \in 1..Len(fv) : i \in 1..n \/ fv[i] = e
        /\ \A i \in 1..n : i \in 1..Len(fv)
        /\ n + 1 \in 1..Len(fv)
    BY <1>1
  <1> HIDE DEF fv
  <1>3. OldOnes(p, d, T)
    BY PastStays DEF InStep, OldOnes
  <1>4. OldEvents(fv, d, T)
    <2>1. \A i \in 1..n : ev[i].kind = "signed_out" => Past(ev[i].sid, d, T)
      BY PastStays DEF InStep, OldEvents
    <2> QED BY <1>1, <1>2, <2>1 DEF OldEvents
  <1>5. Agreed(p, fv, d)
    <2>1. CASE d \in {c, NoSid}
      <3>1. Hears(ev, c) => Hears(fv, c)
        BY <1>1, <1>2 DEF Hears
      <3> QED BY <2>1, <3>1 DEF InStep, Agreed
    <2>2. CASE e = [kind |-> "authenticated", sid |-> d]
      <3>1. Hears(fv, d)
        BY <1>1, <1>2, <2>2 DEF Hears
      <3> QED BY <3>1 DEF Agreed
    <2> QED BY <2>1, <2>2
  <1> QED BY <1>3, <1>4, <1>5 DEF InStep, fv

\* A page that has just been loaded.
LEMMA LoadedInStep ==
    /\ FlightOf(NewPage) /\ LeaveOf(NewPage)
    /\ \A c, S : InStep(NewPage, <<>>, c, S)
  <1>1. /\ NewPage.flight = NoFlight /\ NewPage.leave = NoLeave
        /\ NewPage.store.sid = NoSid /\ NewPage.boot = "idle"
        /\ NoFlight.at = "none" /\ NoLeave.at = "none"
    BY DEF NewPage, NoFlight, NoLeave, NoBundle
  <1>2. FlightOf(NewPage) /\ LeaveOf(NewPage)
    BY <1>1 DEF FlightOf, LeaveOf, UnderWay
  <1>3. \A c, S : OldOnes(NewPage, c, S) /\ Agreed(NewPage, <<>>, c)
    BY <1>1 DEF OldOnes, Agreed, Exits, UnderWay
  <1>4. \A c, S : OldEvents(<<>>, c, S)
    BY DEF OldEvents
  <1> QED BY <1>2, <1>3, <1>4 DEF InStep

\* One tab changes, and the others are told of nothing but a sign-out.
LEMMA OneInStep ==
    ASSUME TypeOK, astray' \/ ~astray, SyncInv, SeenSids \subseteq SeenSids',
           NEW t \in Tabs, Others(t), cookie'.sid \in {cookie.sid, NoSid},
           \A u \in Tabs \ {t} :
              \/ queue'[u] = queue[u]
              \/ \E e \in Events : /\ queue'[u] = Append(queue[u], e)
                                   /\ ~astray' => Past(e.sid, cookie'.sid, SeenSids'),
           ~astray' => InStep(page'[t], queue'[t], cookie'.sid, SeenSids')
    PROVE  SyncInv'
  <1> SUFFICES ASSUME ~astray', NEW u \in Tabs \ {t}
               PROVE  InStep(page'[u], queue'[u], cookie'.sid, SeenSids')
    BY DEF SyncInv
  <1>1. /\ InStep(page[u], queue[u], cookie.sid, SeenSids) /\ queue[u] \in Seq(Events)
        /\ page'[u] = page[u]
    BY TypeNames DEF SyncInv, Others
  <1>2. CASE queue'[u] = queue[u]
    <2>1. Milder(page[u], page[u])
      BY DEF Milder
    <2> DEFINE c == cookie.sid
               d == cookie'.sid
               S == SeenSids
               T == SeenSids'
    <2>2. d \in {c, NoSid} /\ S \subseteq T /\ InStep(page[u], queue[u], c, S)
      BY <1>1
    <2> HIDE DEF c, d, S, T
    <2>3. InStep(page[u], queue[u], d, T)
      BY <2>1, <2>2, MilderInStep
    <2> QED BY <1>1, <1>2, <2>3 DEF d, T
  <1>3. CASE \E e \in Events : /\ queue'[u] = Append(queue[u], e)
                               /\ Past(e.sid, cookie'.sid, SeenSids')
    <2>1. PICK e \in Events : /\ queue'[u] = Append(queue[u], e)
                              /\ Past(e.sid, cookie'.sid, SeenSids')
      BY <1>3
    <2> DEFINE c == cookie.sid
               d == cookie'.sid
               S == SeenSids
               T == SeenSids'
    <2>2. d \in {c, NoSid} /\ S \subseteq T /\ Past(e.sid, d, T)
      BY <2>1
    <2> HIDE DEF c, d, S, T
    <2>3. InStep(page[u], Append(queue[u], e), d, T)
      BY <1>1, <2>2, TellInStep DEF c, S
    <2> QED BY <1>1, <2>1, <2>3 DEF d, T
  <1> QED BY <1>2, <1>3

\* One tab asks for something new.
LEMMA OneAsks ==
    ASSUME AskInv, NEW t \in Tabs, Others(t), FlightOf(page'[t]), LeaveOf(page'[t])
    PROVE  AskInv'
  BY DEF AskInv, Others

-----------------------------------------------------------------------------
(* Steps that do not matter to the cookie. *)

MildStep(t) ==
    Others(t) /\ Milder(page[t], page'[t]) /\ UNCHANGED <<cookie, queue, astray>>

LEMMA MilderRefresh ==
    ASSUME NEW p, NEW m \in Pages, Milder(p, m)
    PROVE  Milder(p, Refresh(m))
  <1>1. CASE m.flight.at # "none"
    BY <1>1 DEF Refresh
  <1>2. CASE m.flight.at = "none"
    <2> DEFINE q == Refresh(m)
    <2>1. q.flight.at = "queued" /\ q.flight.again
      BY <1>2 DEF Refresh, Pages, NoFlight
    <2>2. q.store = m.store /\ q.boot = m.boot /\ q.leave = m.leave
      BY <1>2 DEF Refresh, Pages
    <2> HIDE DEF q
    <2>3. Milder(p, q)
      BY <2>1, <2>2 DEF Milder
    <2> QED BY <2>3 DEF q
  <1> QED BY <1>1, <1>2

LEMMA SettleRest ==
    ASSUME NEW p \in Pages, NEW ck \in Cookies, NEW outcome
    PROVE  LET q == Settle(p, outcome, ck) IN
           IF Redirects(p, outcome) THEN q = NewPage
           ELSE /\ q.flight.at = "none" /\ q.store = p.store /\ q.boot = p.boot
                /\ \/ q.leave = p.leave
                   \/ q.leave = NoLeave
                   \/ outcome = "authenticated" /\ q.leave.ck = ck /\ q.leave.at = "sent"
  <1> DEFINE a == [p EXCEPT !.flight = NoFlight]
             b == ResumeCall(a, outcome)
             c == ResumeLeave(b, outcome, ck)
  <1>1. /\ a \in Pages /\ a.flight.at = "none" /\ a.store = p.store /\ a.boot = p.boot
        /\ a.leave = p.leave
    BY Constants DEF Pages, NoFlight
  <1> HIDE DEF a
  <1>2. /\ b \in Pages /\ b.flight = a.flight /\ b.store = a.store /\ b.boot = a.boot
        /\ b.leave = a.leave
    <2>1. b \in Pages
      BY <1>1, Constants DEF ResumeCall, Pages, Calls
    <2> QED BY <1>1, <2>1 DEF ResumeCall, Pages
  <1> HIDE DEF b
  <1>3. /\ c.flight = b.flight /\ c.store = b.store /\ c.boot = b.boot
        /\ \/ c.leave = b.leave
           \/ c.leave = NoLeave
           \/ outcome = "authenticated" /\ c.leave.ck = ck /\ c.leave.at = "sent"
    <2>1. CASE b.leave.at # "wait"
      BY <2>1 DEF ResumeLeave
    <2>2. CASE b.leave.at = "wait" /\ outcome = "authenticated"
      BY <1>2, <2>2 DEF ResumeLeave, SendLeave, Pages, NoLeave
    <2>3. CASE b.leave.at = "wait" /\ outcome # "authenticated"
      BY <1>2, <2>3 DEF ResumeLeave, Pages
    <2> QED BY <2>1, <2>2, <2>3
  <1> HIDE DEF c
  <1>4. Settle(p, outcome, ck) = IF Redirects(p, outcome) THEN NewPage ELSE c
    BY DEF Settle, a, b, c
  <1> QED BY <1>1, <1>2, <1>3, <1>4

LEMMA MildSteps ==
    ASSUME TypeOK, Named, NEW t \in Tabs,
           \/ Navigate(t) \/ Expire(t) \/ CallSend(t) \/ CallOnce(t) \/ CallDone(t)
           \/ CallDenied(t) \/ LoginServe(t) \/ ChangeServe(t) \/ ChangeAdvance(t)
           \/ ChangeBack(t) \/ LeaveFails(t)
           \/ StartRefresh(t) /\ ~IsCurrent(page[t])
    PROVE  MildStep(t)
  <1> DEFINE p == page[t]
  <1>p. /\ p \in Pages /\ page \in [Tabs -> Pages] /\ cookie \in Cookies
        /\ p.store \in Bundles /\ p.boot \in {"idle", "checking", "complete"}
    BY TypeNames DEF Pages
  <1>o. ASSUME NEW q, page' = [page EXCEPT ![t] = q] PROVE page'[t] = q /\ Others(t)
    BY <1>o, <1>p DEF Others
  <1>r. ASSUME NEW q, Milder(p, q), page' = [page EXCEPT ![t] = q],
               UNCHANGED <<cookie, queue, astray>>
        PROVE  MildStep(t)
    BY <1>o, <1>r DEF MildStep
  <1>s. p.store.fresh => p.store.sid # NoSid
    BY <1>p, Sidded DEF NoBundle
  <1> HIDE DEF p
  <1>c. ASSUME NEW x \in Calls
        PROVE  [p EXCEPT !.call = x] \in Pages /\ Milder(p, [p EXCEPT !.call = x])
    BY <1>p DEF Pages, Milder
  <1>b. /\ [p EXCEPT !.boot = "checking"] \in Pages
        /\ Milder(p, [p EXCEPT !.boot = "checking"])
        /\ p.store.fresh => Milder(p, [p EXCEPT !.boot = "complete"])
    BY <1>p, <1>s DEF Pages, Milder
  <1>1. CASE Navigate(t)
    <2>1. \/ page' = [page EXCEPT ![t] = [p EXCEPT !.boot = "complete"]] /\ p.store.fresh
          \/ page' = [page EXCEPT ![t] = Refresh([p EXCEPT !.boot = "checking"])]
      BY <1>1 DEF Navigate, p
    <2>2. UNCHANGED <<cookie, queue, astray>>
      BY <1>1 DEF Navigate, history
    <2> QED BY <1>b, <1>r, <2>1, <2>2, MilderRefresh
  <1>2. CASE Expire(t) \/ LoginServe(t) \/ ChangeServe(t) \/ ChangeAdvance(t) \/ LeaveFails(t)
    <2>1. UNCHANGED <<cookie, queue, astray>>
      BY <1>2 DEF Expire, LoginServe, ChangeServe, ChangeAdvance, LeaveFails, history
    <2>2. /\ \A x : Milder(p, [p EXCEPT !.enter = x])
          /\ \A x : Milder(p, [p EXCEPT !.change = x])
          /\ Milder(p, [p EXCEPT !.leave = NoLeave])
          /\ \A b : b.sid = p.store.sid => Milder(p, [p EXCEPT !.store = b])
      BY <1>p, Sidded DEF Pages, Milder, NoLeave
    <2>3. \/ \E x : page' = [page EXCEPT ![t] = [p EXCEPT !.enter = x]]
          \/ \E x : page' = [page EXCEPT ![t] = [p EXCEPT !.change = x]]
          \/ page' = [page EXCEPT ![t] = [p EXCEPT !.leave = NoLeave]]
          \/ page' = [page EXCEPT ![t] = [p EXCEPT !.store = [p.store EXCEPT !.fresh = FALSE]]]
      BY <1>2 DEF Expire, LoginServe, ChangeServe, ChangeAdvance, LeaveFails, p
    <2>4. [p.store EXCEPT !.fresh = FALSE].sid = p.store.sid
      BY <1>p DEF Bundles, NoBundle
    <2> QED BY <1>r, <2>1, <2>2, <2>3, <2>4
  <1>3. CASE CallSend(t) \/ CallDone(t)
    <2>1. UNCHANGED <<cookie, queue, astray>>
      BY <1>3 DEF CallSend, CallDone, history
    <2>2. \E x \in Calls : page' = [page EXCEPT ![t] = [p EXCEPT !.call = x]]
      <3>1. [at |-> "sent", single |-> FALSE, tok |-> p.store] \in Calls /\ NoCall \in Calls
        BY <1>p, Constants DEF Calls
      <3>2. \/ page' = [page EXCEPT ![t] = [p EXCEPT !.call = NoCall]]
            \/ page' = [page EXCEPT ![t] = [p EXCEPT !.call =
                          [at |-> "sent", single |-> FALSE, tok |-> p.store]]]
        BY <1>3 DEF CallSend, CallDone, p
      <3> QED BY <3>1, <3>2
    <2> QED BY <1>r, <1>c, <2>1, <2>2
  <1>4. CASE CallOnce(t) \/ CallDenied(t)
    <2>1. UNCHANGED <<cookie, queue, astray>>
      BY <1>4 DEF CallOnce, CallDenied, history
    <2>2. \E x \in Calls : \/ page' = [page EXCEPT ![t] = [p EXCEPT !.call = x]]
                           \/ page' = [page EXCEPT ![t] = Refresh([p EXCEPT !.call = x])]
      <3> DEFINE call == [at |-> "first", single |-> TRUE, tok |-> NoBundle]
      <3>1. /\ call \in Calls /\ [call EXCEPT !.at = "sent", !.tok = p.store] \in Calls
            /\ NoCall \in Calls
        BY <1>p, Constants DEF Calls
      <3>2. [p.call EXCEPT !.at = "wait"] \in Calls
        BY <1>p DEF Pages, Calls
      <3>3. CASE CallOnce(t)
        BY <3>1, <3>3 DEF CallOnce, p
      <3>4. CASE CallDenied(t)
        BY <3>1, <3>2, <3>4 DEF CallDenied, p
      <3> QED BY <1>4, <3>3, <3>4
    <2> QED BY <1>r, <1>c, <2>1, <2>2, MilderRefresh
  <1>5. CASE ChangeBack(t)
    <2>1. UNCHANGED <<cookie, queue, astray>>
      BY <1>5 DEF ChangeBack, history
    <2> DEFINE m == [p EXCEPT !.change = NoChange]
               c == p.change
               q == Accept(m, [sid |-> c.sid, ver |-> c.ver, fresh |-> TRUE])
    <2>2. \/ page' = [page EXCEPT ![t] = m]
          \/ page' = [page EXCEPT ![t] = q] /\ m.store.sid = c.sid
      BY <1>5 DEF ChangeBack, p
    <2>3. Milder(p, m)
      BY <1>p DEF Pages, Milder
    <2>4. ASSUME m.store.sid = c.sid, c.sid # NoSid PROVE Milder(p, q)
      <3>1. /\ q.store.sid = c.sid /\ q.boot = "complete" /\ q.leave = p.leave
            /\ m.store = p.store
        BY <1>p DEF Accept, Pages
      <3>2. /\ q.flight.at = p.flight.at /\ q.flight.again = p.flight.again
            /\ q.flight.exp = p.flight.exp /\ q.flight.tok = p.flight.tok
            /\ q.flight.ans = p.flight.ans /\ ~q.flight.current
        BY <1>p DEF Accept, Pages, FlightSet
      <3> HIDE DEF q
      <3> QED BY <2>4, <3>1, <3>2 DEF Milder
    <2>5. c.sid # NoSid
      BY <1>5, WebAssumption DEF ChangeBack, Named, p, Sids, NoSid
    <2> HIDE DEF q, m, c
    <2> QED BY <1>r, <2>1, <2>2, <2>3, <2>4, <2>5
  <1>6. CASE StartRefresh(t) /\ ~IsCurrent(page[t])
    <2>1. UNCHANGED <<cookie, queue, astray>>
      BY <1>6 DEF StartRefresh, history
    <2> DEFINE q == Settle(p, "transient", cookie)
    <2>2. page' = [page EXCEPT ![t] = q]
      BY <1>6 DEF StartRefresh, p
    <2>3. ~Redirects(p, "transient")
      BY DEF Redirects
    <2>4. /\ q.flight.at = "none" /\ q.store = p.store /\ q.boot = p.boot
          /\ q.leave = p.leave \/ q.leave = NoLeave
      BY <1>p, <2>3, SettleRest
    <2>5. NoLeave.at = "none"
      BY DEF NoLeave
    <2> HIDE DEF q
    <2>6. Milder(p, q)
      BY <2>4, <2>5 DEF Milder
    <2> QED BY <1>r, <2>1, <2>2, <2>6
  <1> QED BY <1>1, <1>2, <1>3, <1>4, <1>5, <1>6

LEMMA MildSync ==
    ASSUME TypeOK, AskInv, SyncInv, SeenSids \subseteq SeenSids', NEW t \in Tabs,
           MildStep(t)
    PROVE  AskInv' /\ SyncInv'
  <1>1. FlightOf(page'[t]) /\ LeaveOf(page'[t])
    BY MilderAsks DEF MildStep, AskInv
  <1>2. ASSUME ~astray PROVE InStep(page'[t], queue[t], cookie.sid, SeenSids')
    BY <1>2, MilderInStep DEF MildStep, SyncInv
  <1> QED BY <1>1, <1>2, OneAsks, OneInStep DEF MildStep

-----------------------------------------------------------------------------
(* A refresh until its answer has arrived. *)

\* The request is sent, or the server is at it.
AskStep(t) ==
    LET p == page[t]
        q == page'[t]
        f == p.flight
        g == q.flight
    IN
    /\ Others(t) /\ UNCHANGED <<cookie, queue, astray>>
    /\ q.store = p.store /\ q.boot = p.boot /\ q.leave = p.leave
    /\ g.at \in UnderWay /\ g.again = f.again /\ g.current = f.current
    /\ \/ f.at = "queued" /\ g.at = "sent" /\ g.exp = p.store.sid /\ g.tok = cookie
       \/ /\ f.at \in UnderWay /\ g.exp = f.exp /\ g.tok = f.tok
          /\ g.at = "back" =>
               /\ g.ans.kind \in {"bundle", "mismatch", "denied", "failed"}
               /\ g.ans.kind = "mismatch" => f.exp \notin {NoSid, f.tok.sid}

LEMMA AskSync ==
    ASSUME TypeOK, AskInv, SyncInv, SeenSids \subseteq SeenSids', SeenInv,
           NEW t \in Tabs, AskStep(t)
    PROVE  AskInv' /\ SyncInv'
  <1> DEFINE p == page[t]
             q == page'[t]
             c == cookie.sid
             T == SeenSids'
  <1>s. p.store.sid \in T
    BY DEF SeenInv, AllSeen, PageIn
  <1>u. Others(t) /\ UNCHANGED <<cookie, queue, astray>>
    BY DEF AskStep
  <1>a. FlightOf(p) /\ LeaveOf(p)
    BY DEF AskInv
  <1>1. FlightOf(q)
    BY <1>a DEF AskStep, FlightOf, UnderWay
  <1>2. LeaveOf(q)
    BY <1>a DEF AskStep, LeaveOf
  <1>3. ASSUME ~astray PROVE InStep(q, queue[t], c, T)
    <2>1. InStep(p, queue[t], c, SeenSids)
      BY <1>3 DEF SyncInv
    <2>2. Milder(p, p)
      BY DEF Milder
    <2>3. InStep(p, queue[t], c, T)
      BY <2>1, <2>2, MilderInStep
    <2>4. OldOnes(q, c, T)
      <3>1. Exits(q) <=> Exits(p)
        BY DEF AskStep, Exits
      <3>2. CASE p.flight.at = "queued" /\ q.flight.exp = p.store.sid
                 /\ q.flight.tok = cookie
        BY <1>s, <2>3, <3>1, <3>2 DEF InStep, OldOnes, Past, AskStep
      <3>3. CASE p.flight.at \in UnderWay /\ q.flight.exp = p.flight.exp
                 /\ q.flight.tok = p.flight.tok
        BY <2>3, <3>1, <3>3 DEF InStep, OldOnes, AskStep
      <3> QED BY <3>2, <3>3 DEF AskStep
    <2>5. Agreed(q, queue[t], c)
      BY <2>3 DEF InStep, Agreed, AskStep, Exits
    <2> QED BY <2>3, <2>4, <2>5 DEF InStep
  <1> HIDE DEF p, q, c, T
  <1>4. AskInv'
    BY <1>1, <1>2, <1>u, OneAsks DEF q
  <1>5. SyncInv'
    BY <1>3, <1>u, OneInStep DEF q, c, T
  <1> QED BY <1>4, <1>5

LEMMA AskSteps ==
    ASSUME TypeOK, Named, NoRace', NEW t \in Tabs,
           \/ StartRefresh(t) /\ IsCurrent(page[t])
           \/ RefreshCheck(t) \/ RefreshRotate(t) \/ RefreshFails(t) \/ AnswerLost(t)
    PROVE  AskStep(t)
  <1> DEFINE p == page[t]
             f == p.flight
  <1>p. /\ p \in Pages /\ page \in [Tabs -> Pages] /\ f \in FlightSet
        /\ f.tok \in Cookies /\ f.exp \in SidsOrNone
    BY TypeNames DEF Pages, FlightSet
  <1>o. ASSUME NEW q, page' = [page EXCEPT ![t] = q] PROVE page'[t] = q /\ Others(t)
    BY <1>o, <1>p DEF Others
  <1>1. CASE StartRefresh(t) /\ IsCurrent(page[t])
    <2>1. page' = [page EXCEPT ![t] = SendRefresh(p, cookie)] /\ f.at = "queued"
          /\ UNCHANGED <<cookie, queue, astray>>
      BY <1>1 DEF StartRefresh, MayRun, history
    <2>2. page'[t] = SendRefresh(p, cookie) /\ Others(t)
      BY <1>o, <2>1
    <2>3. LET q == SendRefresh(p, cookie) IN
          /\ q.store = p.store /\ q.boot = p.boot /\ q.leave = p.leave
          /\ q.flight.at = "sent" /\ q.flight.again = f.again
          /\ q.flight.current = f.current /\ q.flight.exp = p.store.sid
          /\ q.flight.tok = cookie
      BY <1>p DEF SendRefresh, Pages, FlightSet
    <2> QED BY <2>1, <2>2, <2>3 DEF AskStep, UnderWay
  <1>r. ASSUME NEW at \in {"checked", "back"}, NEW ans, f.at \in UnderWay,
               page' = [page EXCEPT ![t].flight.at = at, ![t].flight.ans = ans],
               UNCHANGED <<cookie, queue, astray>>,
               at = "back" =>
                 /\ ans.kind \in {"bundle", "mismatch", "denied", "failed"}
                 /\ ans.kind = "mismatch" => f.exp \notin {NoSid, f.tok.sid}
        PROVE  AskStep(t)
    <2>1. page' = [page EXCEPT ![t] =
                     [p EXCEPT !.flight = [f EXCEPT !.at = at, !.ans = ans]]]
      BY <1>r, <1>p
    <2> DEFINE q == [p EXCEPT !.flight = [f EXCEPT !.at = at, !.ans = ans]]
    <2>2. page'[t] = q /\ Others(t)
      BY <1>o, <2>1
    <2>3. /\ q.store = p.store /\ q.boot = p.boot /\ q.leave = p.leave
          /\ q.flight.at = at /\ q.flight.again = f.again
          /\ q.flight.current = f.current /\ q.flight.exp = f.exp
          /\ q.flight.tok = f.tok /\ q.flight.ans = ans
      BY <1>p DEF Pages, FlightSet
    <2> HIDE DEF q
    <2> QED BY <1>r, <2>2, <2>3 DEF AskStep, UnderWay
  <1>k. \A kind \in AnswerKinds : Answer(kind).kind = kind
    BY AnswerTypes
  <1> HIDE DEF f, p
  <1>2. CASE RefreshCheck(t)
    <2> DEFINE kind == CheckAnswer(f.tok, f.exp)
               at == IF kind = "none" THEN "checked" ELSE "back"
    <2>1. /\ page' = [page EXCEPT ![t].flight.at = at, ![t].flight.ans = Answer(kind)]
          /\ f.at = "sent" /\ UNCHANGED <<cookie, queue, astray>>
      BY <1>2 DEF RefreshCheck, history, f, p
    <2>2. /\ kind \in {"none", "denied", "mismatch"}
          /\ kind = "mismatch" => f.exp \notin {NoSid, f.tok.sid}
      BY DEF CheckAnswer
    <2> HIDE DEF kind
    <2>3. at \in {"checked", "back"} /\ Answer(kind).kind = kind
          /\ (at = "back" => kind \in {"denied", "mismatch"})
      BY <1>k, <2>2 DEF AnswerKinds
    <2> HIDE DEF at
    <2>4. f.at \in UnderWay
      BY <2>1 DEF UnderWay
    <2> QED BY <1>r, <2>1, <2>2, <2>3, <2>4
  <1>3. CASE RefreshRotate(t)
    <2> DEFINE ans == RotateAnswer(f.tok)
    <2>1. /\ page' = [page EXCEPT ![t].flight.at = "back", ![t].flight.ans = ans]
          /\ f.at = "checked" /\ UNCHANGED <<cookie, queue, astray>>
      BY <1>3 DEF RefreshRotate, history, f, p
    <2>2. ans.kind \in {"bundle", "failed", "race", "denied"}
      <3>1. \A k \in {"failed", "race", "denied"} : Answer(k).kind = k
        BY <1>k DEF AnswerKinds
      <3> QED BY <3>1 DEF RotateAnswer
    <2> HIDE DEF ans
    <2>3. ans.kind # "race"
      <3>1. page'[t].flight.ans = ans
        BY <1>p, <2>1 DEF Pages, FlightSet, f, p
      <3> QED BY <3>1 DEF NoRace
    <2>4. f.at \in UnderWay
      BY <2>1 DEF UnderWay
    <2> QED BY <1>r, <2>1, <2>2, <2>3, <2>4
  <1>4. CASE RefreshFails(t) \/ AnswerLost(t)
    <2>1. \E kind \in {"failed", "denied"} :
            page' = [page EXCEPT ![t].flight.at = "back", ![t].flight.ans = Answer(kind)]
      <3>1. CASE RefreshFails(t)
        BY <3>1 DEF RefreshFails
      <3>2. CASE AnswerLost(t)
        BY <3>2, <1>p DEF AnswerLost, Pages, FlightSet, f, p
      <3> QED BY <1>4, <3>1, <3>2
    <2>2. f.at \in UnderWay /\ UNCHANGED <<cookie, queue, astray>>
      BY <1>4 DEF RefreshFails, AnswerLost, history, f, p, UnderWay
    <2>3. PICK kind \in {"failed", "denied"} :
            page' = [page EXCEPT ![t].flight.at = "back", ![t].flight.ans = Answer(kind)]
      BY <2>1
    <2>4. Answer(kind).kind = kind
      BY <1>k DEF AnswerKinds
    <2> QED BY <1>r, <2>2, <2>3, <2>4
  <1> QED BY <1>1, <1>2, <1>3, <1>4

-----------------------------------------------------------------------------
(* The answer to a refresh. *)

\* What others hear of a sign-out.
Told(t, sid) ==
    \A u \in Tabs \ {t} :
        \/ queue'[u] = queue[u]
        \/ sid \in Sids /\ queue'[u] = Append(queue[u], [kind |-> "signed_out", sid |-> sid])

\* The bundle is taken.
TakeStep(t) ==
    /\ Others(t) /\ queue' = queue
    /\ cookie'.sid \in Sids /\ page'[t].store.sid = cookie'.sid
    /\ page'[t].flight.at = "none"
    /\ \/ page'[t].leave = page[t].leave
       \/ page'[t].leave.at \notin {"sent", "back"}
       \/ page'[t].leave.ck # NoCookie /\ page'[t].leave.at = "sent"

\* The tab held another session, and looks for the one of the cookie.
LookStep(t) ==
    LET p == page[t]
        q == page'[t]
    IN
    /\ Others(t) /\ UNCHANGED <<cookie, queue>>
    /\ p.flight.at = "back" /\ p.flight.current /\ p.flight.ans.kind = "mismatch"
    /\ q.store.sid = NoSid /\ q.boot = "idle" /\ q.leave = p.leave
    /\ q.flight.at = "sent" /\ q.flight.exp = NoSid

\* The session is over.
OutStep(t) ==
    LET p == page[t]
        q == page'[t]
    IN
    /\ Others(t) /\ cookie' = NoCookie /\ Told(t, p.store.sid)
    /\ \/ q = NewPage /\ queue'[t] = <<>>
       \/ /\ queue'[t] = queue[t] /\ q.store.sid = NoSid /\ q.flight.at = "none"
          /\ q.leave = p.leave \/ q.leave.at \notin {"sent", "back"}

LEMMA PublishedTells ==
    ASSUME TypeOK, NEW t \in Tabs, NEW kind, NEW sid \in SidsOrNone
    PROVE  LET new == Published(t, kind, sid) IN
           /\ sid = NoSid => new = queue
           /\ new[t] = queue[t] /\ DOMAIN new = Tabs /\ new = [u \in Tabs |-> new[u]]
           /\ sid # NoSid => \A u \in Tabs \ {t} :
                new[u] = Append(queue[u], [kind |-> kind, sid |-> sid])
  BY TypeNames DEF Published

LEMMA BackSteps ==
    ASSUME TypeOK, Named, NoRace, AskInv, NEW t \in Tabs, RefreshBack(t)
    PROVE  \/ /\ Others(t) /\ Milder(page[t], page'[t]) /\ queue' = queue
              /\ astray' \/ cookie'.sid \in {cookie.sid, NoSid}
           \/ TakeStep(t) /\ (astray' \/ cookie'.sid = cookie.sid)
           \/ LookStep(t)
           \/ OutStep(t)
  <1> DEFINE p == page[t]
             f == p.flight
             ans == f.ans
             ck == CookieAfter(ans)
             outcome == RunOutcome(p)
             sid == IF outcome = "anonymous" THEN p.store.sid ELSE NoSid
             heard == Published(t, "signed_out", sid)
             run == RunPage(p, ck)
             q == Settle(run, outcome, ck)
  <1>p. /\ p \in Pages /\ page \in [Tabs -> Pages] /\ f \in FlightSet
        /\ ans \in Answers /\ p.store.sid \in SidsOrNone /\ cookie \in Cookies
    BY TypeNames, Sidded DEF Pages, FlightSet
  <1>o. ASSUME NEW x, page' = [page EXCEPT ![t] = x] PROVE page'[t] = x /\ Others(t)
    BY <1>o, <1>p DEF Others
  <1>b. f.at = "back" /\ cookie' = ck /\ (ck.sid \in {NoSid, cookie.sid} \/ astray')
        /\ (ans.kind = "bundle" => ans.sid \in Sids)
    BY DEF RefreshBack, Named
  <1>f. /\ ans.kind \in {"bundle", "mismatch", "denied", "failed"}
        /\ ans.kind = "mismatch" => f.exp \notin {NoSid, f.tok.sid} /\ f.again
    BY <1>b DEF AskInv, FlightOf, UnderWay
  <1>k. ck \in Cookies
    BY <1>p, <1>b, Constants DEF CookieAfter, Cookies, Answers
  <1>e. outcome # "goes_on" =>
          /\ page' = [page EXCEPT ![t] = q]
          /\ queue' = IF Redirects(p, outcome) THEN [heard EXCEPT ![t] = <<>>] ELSE heard
    BY DEF RefreshBack
  <1>n. /\ ~Redirects(p, "transient") /\ ~Redirects(p, "authenticated")
        /\ NoLeave.at = "none" /\ ~Redirects([p EXCEPT !.boot = "idle"], "transient")
    BY DEF Redirects, NoLeave
  <1>1. CASE ~f.current
    <2>1. run = p /\ outcome = "transient"
      BY <1>1 DEF RunPage, RunOutcome, IsCurrent
    <2>2. page'[t] = Settle(p, "transient", ck) /\ Others(t)
          /\ queue' = Published(t, "signed_out", NoSid)
      BY <1>e, <1>n, <1>o, <2>1
    <2>3. queue' = queue
      BY <2>2, PublishedTells DEF SidsOrNone
    <2> DEFINE x == Settle(p, "transient", ck)
    <2>4. /\ x.flight.at = "none" /\ x.store = p.store /\ x.boot = p.boot
          /\ x.leave = p.leave \/ x.leave = NoLeave
      BY <1>p, <1>k, <1>n, SettleRest
    <2> HIDE DEF x
    <2>5. Milder(p, x)
      BY <1>n, <2>4 DEF Milder
    <2> QED BY <1>b, <2>2, <2>3, <2>5 DEF x
  <1>2. CASE f.current /\ ans.kind = "bundle"
    <2> DEFINE b == [sid |-> ans.sid, ver |-> ans.ver, fresh |-> TRUE]
               m == Accept(p, b)
               x == Settle(m, "authenticated", ck)
    <2>1. run = m /\ outcome = "authenticated"
      BY <1>2 DEF RunPage, RunOutcome, IsCurrent
    <2>m. b \in Bundles /\ m \in Pages /\ m.store.sid = ans.sid /\ m.leave = p.leave
      <3>1. b \in Bundles
        BY <1>b, <1>2, <1>p DEF Bundles, Answers
      <3>2. m \in Pages
        BY <1>p, <3>1, StoreTypes
      <3> QED BY <1>p, <3>1, <3>2 DEF Accept, Pages
    <2>2. page'[t] = x /\ Others(t) /\ queue' = Published(t, "signed_out", NoSid)
      BY <1>e, <1>n, <1>o, <2>1
    <2>3. queue' = queue
      BY <2>2, PublishedTells DEF SidsOrNone
    <2>4. ck.sid = ans.sid /\ ck # NoCookie
      BY <1>2, <1>b, <1>k, Sidded, WebAssumption DEF CookieAfter, Sids, NoSid
    <2>r. ~Redirects(m, "authenticated")
      BY DEF Redirects
    <2> HIDE DEF m
    <2>5. /\ x.flight.at = "none" /\ x.store = m.store
          /\ \/ x.leave = m.leave \/ x.leave = NoLeave
             \/ x.leave.ck = ck /\ x.leave.at = "sent"
      BY <1>k, <2>m, <2>r, SettleRest
    <2> HIDE DEF x
    <2>6. TakeStep(t)
      BY <1>b, <1>2, <1>n, <2>m, <2>2, <2>3, <2>4, <2>5 DEF TakeStep
    <2>7. astray' \/ cookie'.sid = cookie.sid
      BY <1>b, <1>2, <2>4, WebAssumption DEF Sids, NoSid
    <2> QED BY <2>6, <2>7
  <1>3. CASE f.current /\ ans.kind = "mismatch"
    <2> DEFINE m == [p EXCEPT !.store = NoBundle, !.boot = "idle",
                              !.flight.again = FALSE, !.flight.race = 0]
               x == SendRefresh(m, ck)
    <2>1. run = x /\ outcome = "goes_on" /\ ck = cookie
      BY <1>3, <1>f DEF RunPage, RunOutcome, IsCurrent, CookieAfter
    <2>2. page' = [page EXCEPT ![t] = x] /\ queue' = queue
      BY <2>1 DEF RefreshBack
    <2>m. m.store = NoBundle /\ m.boot = "idle" /\ m.leave = p.leave /\ NoBundle.sid = NoSid
      BY <1>p DEF Pages, NoBundle
    <2>3. /\ x.store.sid = NoSid /\ x.boot = "idle" /\ x.leave = p.leave
          /\ x.flight.at = "sent" /\ x.flight.exp = NoSid
      BY <1>p, <2>m DEF SendRefresh, Pages, FlightSet
    <2> HIDE DEF x
    <2>4. page'[t] = x /\ Others(t)
      BY <1>o, <2>2
    <2> QED BY <1>b, <1>3, <2>1, <2>2, <2>3, <2>4 DEF LookStep
  <1>4. CASE f.current /\ ans.kind = "denied"
    <2> DEFINE m == Clear(p)
               x == Settle(m, "anonymous", ck)
    <2>1. run = m /\ outcome = "anonymous" /\ ck = NoCookie
      BY <1>4 DEF RunPage, RunOutcome, IsCurrent, CookieAfter
    <2>m. m \in Pages /\ m.store.sid = NoSid /\ m.leave = p.leave /\ m.call = p.call
      BY <1>p, StoreTypes, Constants DEF Clear, Pages, NoBundle
    <2>r. Redirects(m, "anonymous") <=> Redirects(p, "anonymous")
      BY <2>m DEF Redirects
    <2> DEFINE new == Published(t, "signed_out", p.store.sid)
    <2>2. /\ page'[t] = x /\ Others(t)
          /\ queue' = IF Redirects(p, "anonymous") THEN [new EXCEPT ![t] = <<>>] ELSE new
      BY <1>e, <1>o, <2>1
    <2>3. /\ new[t] = queue[t] /\ t \in DOMAIN new
          /\ \A u \in Tabs \ {t} :
               \/ new[u] = queue[u]
               \/ /\ p.store.sid \in Sids
                  /\ new[u] = Append(queue[u], [kind |-> "signed_out", sid |-> p.store.sid])
      BY <1>p, PublishedTells DEF SidsOrNone
    <2> HIDE DEF m, new
    <2>4. Told(t, p.store.sid)
      BY <2>2, <2>3 DEF Told
    <2>5. CASE Redirects(p, "anonymous")
      <3>1. x = NewPage /\ queue'[t] = <<>>
        BY <1>k, <2>m, <2>r, <2>2, <2>3, <2>5, SettleRest
      <3> QED BY <1>b, <2>1, <2>2, <2>4, <3>1 DEF OutStep
    <2>6. CASE ~Redirects(p, "anonymous")
      <3>1. /\ x.flight.at = "none" /\ x.store = m.store
            /\ x.leave = m.leave \/ x.leave = NoLeave
        BY <1>k, <2>m, <2>r, <2>6, SettleRest
      <3>2. queue'[t] = queue[t]
        BY <2>2, <2>3, <2>6
      <3> HIDE DEF x
      <3> QED BY <1>b, <1>n, <2>m, <2>1, <2>2, <2>4, <3>1, <3>2 DEF OutStep
    <2> QED BY <2>5, <2>6
  <1>5. CASE f.current /\ ans.kind = "failed"
    <2> DEFINE m == [p EXCEPT !.boot = "idle"]
               x == Settle(m, "transient", ck)
    <2>1. run = m /\ outcome = "transient" /\ ck = cookie
      BY <1>5 DEF RunPage, RunOutcome, IsCurrent, CookieAfter
    <2>m. m \in Pages /\ m.store = p.store /\ m.leave = p.leave /\ m.boot = "idle"
      BY <1>p DEF Pages
    <2>2. page'[t] = x /\ Others(t) /\ queue' = Published(t, "signed_out", NoSid)
      BY <1>e, <1>n, <1>o, <2>1
    <2>3. queue' = queue
      BY <2>2, PublishedTells DEF SidsOrNone
    <2>r. ~Redirects(m, "transient")
      BY <1>n
    <2> HIDE DEF m
    <2>4. /\ x.flight.at = "none" /\ x.store = m.store /\ x.boot = m.boot
          /\ x.leave = m.leave \/ x.leave = NoLeave
      BY <1>k, <2>m, <2>r, SettleRest
    <2> HIDE DEF x
    <2>5. Milder(p, x)
      BY <1>n, <2>m, <2>4 DEF Milder
    <2> QED BY <1>b, <2>1, <2>2, <2>3, <2>5
  <1> QED BY <1>f, <1>1, <1>2, <1>3, <1>4, <1>5

LEMMA BackSync ==
    ASSUME TypeOK, TypeOK', Named, NoRace, AskInv, SyncInv, SeenInv,
           SeenSids \subseteq SeenSids', astray' \/ ~astray,
           NEW t \in Tabs, RefreshBack(t)
    PROVE  AskInv' /\ SyncInv'
  <1> DEFINE p == page[t]
             q == page'[t]
             c == cookie.sid
             d == cookie'.sid
             S == SeenSids
             T == SeenSids'
             ev == queue[t]
  <1>a. FlightOf(p) /\ LeaveOf(p)
    BY DEF AskInv
  <1>s. p.store.sid \in T /\ NoSid \in T /\ S \subseteq T /\ p.store.sid \in S
    BY DEF SeenInv, AllSeen, PageIn, SeenSids
  <1>i. astray' \/ InStep(p, ev, c, S)
    BY DEF SyncInv
  <1>q. queue \in [Tabs -> Seq(Events)]
    BY TypeNames
  <1>z. ASSUME d \in {c, NoSid} PROVE astray' \/ InStep(p, ev, d, T)
    <2>1. Milder(p, p)
      BY DEF Milder
    <2> HIDE DEF p, c, d, S, T, ev
    <2> QED BY <1>i, <1>s, <1>z, <2>1, MilderInStep
  <1>u. ASSUME Others(t), FlightOf(q), LeaveOf(q), queue' = queue,
               ~astray' => d \in {c, NoSid} /\ InStep(q, ev, d, T)
        PROVE  AskInv' /\ SyncInv'
    <2>1. AskInv'
      BY <1>u, OneAsks
    <2>2. CASE astray'
      BY <2>1, <2>2 DEF SyncInv
    <2>3. CASE ~astray'
      BY <1>u, <2>1, <2>3, OneInStep
    <2> QED BY <2>1, <2>2, <2>3
  <1>1. CASE /\ Others(t) /\ Milder(p, q) /\ queue' = queue
             /\ astray' \/ cookie'.sid \in {cookie.sid, NoSid}
    <2>1. FlightOf(q) /\ LeaveOf(q)
      BY <1>a, <1>1, MilderAsks
    <2>2. ASSUME ~astray' PROVE d \in {c, NoSid} /\ InStep(q, ev, d, T)
      <3>1. d \in {c, NoSid} /\ Milder(p, q)
        BY <1>1, <2>2
      <3> HIDE DEF p, q, c, d, S, T, ev
      <3> QED BY <1>i, <1>s, <2>2, <3>1, MilderInStep
    <2> QED BY <1>u, <1>1, <2>1, <2>2
  <1>2. CASE TakeStep(t) /\ (astray' \/ cookie'.sid = cookie.sid)
    <2>1. FlightOf(q) /\ LeaveOf(q)
      BY <1>a, <1>2 DEF TakeStep, FlightOf, LeaveOf, UnderWay
    <2>2. ASSUME ~astray' PROVE d \in {c, NoSid} /\ InStep(q, ev, d, T)
      <3>1. d = c /\ d \in {c, NoSid}
        BY <1>2, <2>2
      <3>2. InStep(p, ev, d, T)
        BY <1>z, <2>2, <3>1
      <3>3. OldOnes(q, d, T)
        BY <1>2, <3>2 DEF TakeStep, InStep, OldOnes, Exits, UnderWay
      <3>4. Agreed(q, ev, d)
        BY <1>2 DEF TakeStep, Agreed
      <3> QED BY <3>1, <3>2, <3>3, <3>4 DEF InStep
    <2> QED BY <1>u, <1>2, <2>1, <2>2 DEF TakeStep
  <1>3. CASE LookStep(t)
    <2>1. FlightOf(q) /\ LeaveOf(q)
      BY <1>a, <1>3 DEF LookStep, FlightOf, LeaveOf, UnderWay
    <2>2. ASSUME ~astray' PROVE d \in {c, NoSid} /\ InStep(q, ev, d, T)
      <3>1. d = c /\ d \in {c, NoSid}
        BY <1>3 DEF LookStep
      <3>2. InStep(p, ev, d, T)
        BY <1>z, <2>2, <3>1
      <3>3. OldOnes(q, d, T)
        BY <1>3, <3>2 DEF LookStep, InStep, OldOnes, Exits
      <3>4. p.store.sid # NoSid /\ p.store.sid # d
        <4>1. p.store.sid = p.flight.exp /\ p.flight.exp \notin {NoSid, p.flight.tok.sid}
          BY <1>a, <1>3 DEF LookStep, FlightOf, UnderWay
        <4>2. Past(p.flight.exp, d, T)
          BY <1>3, <3>2, <4>1 DEF LookStep, InStep, OldOnes, UnderWay
        <4> QED BY <4>1, <4>2 DEF Past
      <3>5. Agreed(q, ev, d)
        BY <1>3, <3>2, <3>4 DEF LookStep, InStep, Agreed, Exits
      <3> QED BY <3>1, <3>2, <3>3, <3>5 DEF InStep
    <2> QED BY <1>u, <1>3, <2>1, <2>2 DEF LookStep
  <1>4. CASE OutStep(t)
    <2>1. d = NoSid /\ d \in {c, NoSid} /\ Others(t)
      BY <1>4 DEF OutStep, NoCookie
    <2>2. astray' \/ InStep(p, ev, d, T)
      BY <1>z, <2>1
    <2>3. FlightOf(q) /\ LeaveOf(q) /\ (astray' \/ InStep(q, queue'[t], d, T))
      <3>1. CASE q = NewPage /\ queue'[t] = <<>>
        BY <3>1, LoadedInStep
      <3>2. CASE queue'[t] = ev /\ q.store.sid = NoSid /\ q.flight.at = "none"
                 /\ (q.leave = p.leave \/ q.leave.at \notin {"sent", "back"})
        <4>1. FlightOf(q) /\ LeaveOf(q)
          BY <1>a, <3>2 DEF FlightOf, LeaveOf, UnderWay
        <4>2. astray' \/ OldOnes(q, d, T)
          BY <2>2, <3>2 DEF InStep, OldOnes, Exits, UnderWay
        <4>3. Agreed(q, ev, d)
          BY <2>1 DEF Agreed
        <4> QED BY <2>2, <3>2, <4>1, <4>2, <4>3 DEF InStep
      <3> QED BY <1>4, <3>1, <3>2 DEF OutStep
    <2>4. \A u \in Tabs \ {t} :
              \/ queue'[u] = queue[u]
              \/ \E e \in Events : /\ queue'[u] = Append(queue[u], e)
                                   /\ ~astray' => Past(e.sid, cookie'.sid, SeenSids')
      <3> SUFFICES ASSUME NEW u \in Tabs \ {t}, queue'[u] # queue[u]
                   PROVE  \E e \in Events :
                            /\ queue'[u] = Append(queue[u], e)
                            /\ Past(e.sid, cookie'.sid, SeenSids')
        OBVIOUS
      <3> DEFINE e == [kind |-> "signed_out", sid |-> p.store.sid]
      <3>1. p.store.sid \in Sids /\ queue'[u] = Append(queue[u], e)
        BY <1>4 DEF OutStep, Told
      <3>2. e \in Events /\ e.sid = p.store.sid
        BY <3>1 DEF Events
      <3>3. Past(e.sid, d, T)
        BY <1>s, <2>1, <3>2 DEF Past
      <3> HIDE DEF e
      <3> QED BY <3>1, <3>2, <3>3
    <2>5. AskInv'
      BY <2>1, <2>3, OneAsks
    <2>6. SyncInv'
      BY <2>1, <2>3, <2>4, OneInStep
    <2> QED BY <2>5, <2>6
  <1> QED BY <1>1, <1>2, <1>3, <1>4, BackSteps

-----------------------------------------------------------------------------
(* Documents and events. *)

LEMMA ReloadSync ==
    ASSUME TypeOK, AskInv, SyncInv, SeenSids \subseteq SeenSids', NEW t \in Tabs,
           Reload(t), UNCHANGED <<cookie, astray>>
    PROVE  AskInv' /\ SyncInv'
  <1>1. /\ page'[t] = NewPage /\ Others(t) /\ queue'[t] = <<>>
        /\ \A u \in Tabs \ {t} : queue'[u] = queue[u]
    BY TypeNames DEF Reload, Others
  <1>2. FlightOf(page'[t]) /\ LeaveOf(page'[t])
        /\ InStep(page'[t], queue'[t], cookie'.sid, SeenSids')
    BY <1>1, LoadedInStep
  <1> QED BY <1>1, <1>2, OneAsks, OneInStep

\* The events after the first.
LEMMA LaterEvents ==
    ASSUME NEW ev \in Seq(Events), ev # <<>>
    PROVE  /\ Head(ev) = ev[1] /\ Head(ev) \in Events /\ Tail(ev) \in Seq(Events)
           /\ \A i \in 1..Len(Tail(ev)) : i + 1 \in 1..Len(ev) /\ Tail(ev)[i] = ev[i + 1]
           /\ 1 \in 1..Len(ev)
           /\ \A i \in 1..Len(ev) : i = 1 \/ \E j \in 1..Len(Tail(ev)) : Tail(ev)[j] = ev[i]
  <1>1. /\ Head(ev) = ev[1] /\ Len(ev) \in Nat /\ Len(ev) # 0 /\ Tail(ev) \in Seq(Events)
        /\ Len(Tail(ev)) = Len(ev) - 1
        /\ \A i \in 1..(Len(ev) - 1) : Tail(ev)[i] = ev[i + 1]
    OBVIOUS
  <1> DEFINE n == Len(ev)
             tl == Tail(ev)
  <1>2. 1 \in 1..n /\ \A i \in 1..(n - 1) : i + 1 \in 1..n
    BY <1>1
  <1>3. ev[1] \in Events
    BY <1>2
  <1>4. ASSUME NEW i \in 1..n, i # 1 PROVE \E j \in 1..Len(tl) : tl[j] = ev[i]
    <2>1. i - 1 \in 1..(n - 1) /\ (i - 1) + 1 = i
      BY <1>1, <1>4
    <2> QED BY <1>1, <2>1
  <1> QED BY <1>1, <1>2, <1>3, <1>4

LEMMA DeliverSync ==
    ASSUME TypeOK, AskInv, SyncInv, SeenInv, SeenSids \subseteq SeenSids', NEW t \in Tabs,
           Deliver(t)
    PROVE  AskInv' /\ SyncInv'
  <1> DEFINE p == page[t]
             q == page'[t]
             c == cookie.sid
             T == SeenSids'
             ev == queue[t]
             e == Head(ev)
  <1>p. /\ p \in Pages /\ page \in [Tabs -> Pages] /\ queue \in [Tabs -> Seq(Events)]
        /\ ev \in Seq(Events)
    BY TypeNames
  <1>1. CASE e.kind = "authenticated" /\ e.sid # p.store.sid
    BY <1>1, ReloadSync DEF Deliver
  <1>2. CASE ~(e.kind = "authenticated" /\ e.sid # p.store.sid)
    <2> DEFINE out == e.kind = "signed_out" /\ e.sid = p.store.sid
    <2>1. /\ ev # <<>> /\ UNCHANGED <<cookie, astray>>
          /\ page' = IF out THEN [page EXCEPT ![t] = Clear(p)] ELSE page
          /\ queue' = [queue EXCEPT ![t] = Tail(@)]
      BY <1>2 DEF Deliver
    <2>2. /\ Others(t) /\ q = (IF out THEN Clear(p) ELSE p) /\ queue'[t] = Tail(ev)
          /\ \A u \in Tabs \ {t} : queue'[u] = queue[u]
      BY <1>p, <2>1 DEF Others
    <2>c. LET x == Clear(p) IN
          /\ x.store.sid = NoSid /\ x.leave = p.leave /\ ~x.flight.current
          /\ x.flight.at = p.flight.at /\ x.flight.again = p.flight.again
          /\ x.flight.exp = p.flight.exp /\ x.flight.tok = p.flight.tok
          /\ x.flight.ans = p.flight.ans
      BY <1>p DEF Clear, Pages, FlightSet, NoBundle
    <2>3. FlightOf(q) /\ LeaveOf(q)
      <3>1. FlightOf(p) /\ LeaveOf(p)
        BY DEF AskInv
      <3>2. CASE q = p
        BY <3>1, <3>2
      <3>3. CASE q = Clear(p)
        BY <2>c, <3>1, <3>3 DEF FlightOf, LeaveOf, UnderWay
      <3> QED BY <2>2, <3>2, <3>3
    <2>4. ASSUME ~astray PROVE InStep(q, Tail(ev), c, T)
      <3>1. InStep(p, ev, c, T)
        <4>1. Milder(p, p) /\ InStep(p, ev, c, SeenSids)
          BY <2>4 DEF Milder, SyncInv
        <4> QED BY <4>1, MilderInStep
      <3>e. /\ e = ev[1] /\ e \in Events
            /\ \A i \in 1..Len(Tail(ev)) : i + 1 \in 1..Len(ev) /\ Tail(ev)[i] = ev[i + 1]
            /\ 1 \in 1..Len(ev)
            /\ \A i \in 1..Len(ev) :
                  i = 1 \/ \E j \in 1..Len(Tail(ev)) : Tail(ev)[j] = ev[i]
        BY <1>p, <2>1, LaterEvents
      <3>n. e.sid # NoSid
        BY <3>e, WebAssumption DEF Events, Sids, NoSid
      <3> HIDE DEF e, ev
      <3>2. OldEvents(Tail(ev), c, T)
        BY <3>1, <3>e DEF InStep, OldEvents
      <3>3. OldOnes(q, c, T)
        BY <2>2, <2>c, <3>1 DEF InStep, OldOnes, Exits
      <3>4. ASSUME c # NoSid, ~Hears(Tail(ev), c)
            PROVE  q.store.sid = c \/ (q.store.sid = NoSid /\ q.boot # "complete" /\ ~Exits(q))
        <4>1. CASE Hears(ev, c)
          <5>1. e = [kind |-> "authenticated", sid |-> c]
            BY <3>4, <3>e, <4>1 DEF Hears
          <5>2. e.kind = "authenticated" /\ e.sid = c
            BY <5>1
          <5> QED BY <1>2, <2>2, <5>2
        <4>2. CASE ~Hears(ev, c)
          <5>1. p.store.sid = c
                  \/ (p.store.sid = NoSid /\ p.boot # "complete" /\ ~Exits(p))
            BY <3>1, <3>4, <4>2 DEF InStep, Agreed
          <5>2. ~out
            <6>1. e.kind = "signed_out" => e.sid # c
              BY <3>1, <3>e, <3>n DEF InStep, OldEvents, Past
            <6> QED BY <3>n, <5>1, <6>1
          <5> QED BY <2>2, <5>1, <5>2
        <4> QED BY <4>1, <4>2
      <3>5. Agreed(q, Tail(ev), c)
        BY <3>4 DEF Agreed
      <3> QED BY <3>2, <3>3, <3>5 DEF InStep
    <2>5. AskInv'
      BY <2>2, <2>3, OneAsks
    <2>6. SyncInv'
      BY <2>1, <2>2, <2>4, OneInStep
    <2> QED BY <2>5, <2>6
  <1> QED BY <1>1, <1>2

-----------------------------------------------------------------------------
(* Signing in and out. *)

\* The cookie becomes that of a session nobody has seen, and everybody is told.
LEMMA LoginSync ==
    ASSUME TypeOK, TypeOK', AskInv, SyncInv, SeenInv, SeenSids \subseteq SeenSids',
           NEW t \in Tabs, LoginBack(t)
    PROVE  AskInv' /\ SyncInv'
  <1> DEFINE p == page[t]
             m == [p EXCEPT !.enter = NoSid]
             s == p.enter
             S == SeenSids
             T == SeenSids'
             b == [sid |-> s, ver |-> 1, fresh |-> TRUE]
             q == page'[t]
  <1>p. /\ p \in Pages /\ page \in [Tabs -> Pages] /\ queue \in [Tabs -> Seq(Events)]
        /\ s \in SidsOrNone
    BY TypeNames DEF Pages
  <1>s. s # NoSid /\ s \in Sids /\ s \notin S
    <2>1. s # NoSid /\ s \in Sids
      BY <1>p DEF LoginBack, SidsOrNone
    <2> QED BY <2>1 DEF SeenSids
  <1>c. cookie'.sid = s
    BY DEF LoginBack
  <1>m. m \in Pages /\ m.store = p.store /\ m.boot = p.boot /\ m.leave = p.leave
        /\ m.flight = p.flight
    BY <1>p, Constants DEF Pages
  <1>a. FlightOf(p) /\ LeaveOf(p)
    BY DEF AskInv
  <1>1. CASE page' = [page EXCEPT ![t] = m] /\ astray'
    <2>1. page' = [page EXCEPT ![t] = m] /\ astray'
      BY <1>1
    <2>2. q = m /\ Others(t)
      BY <1>p, <2>1 DEF Others
    <2> HIDE DEF m
    <2>3. FlightOf(q) /\ LeaveOf(q)
      BY <1>a, <1>m, <2>2 DEF FlightOf, LeaveOf
    <2>4. AskInv'
      BY <2>2, <2>3, OneAsks
    <2> QED BY <2>1, <2>4 DEF SyncInv
  <1>2. CASE /\ page' = [page EXCEPT ![t] = Accept(m, b)]
             /\ queue' = Published(t, "authenticated", s)
             /\ astray' = astray
    <2> DEFINE x == Accept(m, b)
    <2>1. page' = [page EXCEPT ![t] = x] /\ queue' = Published(t, "authenticated", s)
          /\ (~astray' => ~astray)
      BY <1>2
    <2>2. q = x /\ Others(t)
      BY <1>p, <2>1 DEF Others
    <2>3. /\ x.store.sid = s /\ x.leave = m.leave /\ ~x.flight.current
          /\ x.flight.at = m.flight.at /\ x.flight.again = m.flight.again
          /\ x.flight.exp = m.flight.exp /\ x.flight.tok = m.flight.tok
          /\ x.flight.ans = m.flight.ans
      BY <1>m DEF Accept, Pages, FlightSet
    <2> HIDE DEF m, x
    <2>4. FlightOf(q) /\ LeaveOf(q)
      BY <1>a, <1>m, <2>2, <2>3 DEF FlightOf, LeaveOf, UnderWay
    <2>5. AskInv'
      BY <2>2, <2>4, OneAsks
    <2>6. /\ queue'[t] = queue[t]
          /\ \A u \in Tabs \ {t} :
                queue'[u] = Append(queue[u], [kind |-> "authenticated", sid |-> s])
      BY <1>p, <1>s, <2>1, PublishedTells
    <2>7. ASSUME ~astray', NEW u \in Tabs PROVE InStep(page'[u], queue'[u], s, T)
      <3>1. InStep(page[u], queue[u], cookie.sid, S)
        BY <2>1, <2>7 DEF SyncInv
      <3>2. CASE u = t
        <4>1. OldOnes(p, s, T) /\ OldEvents(queue[t], s, T)
          BY <1>s, <3>1, <3>2, PastStays DEF InStep, OldOnes, OldEvents
        <4>2. OldOnes(q, s, T)
          BY <1>m, <2>2, <2>3, <4>1 DEF OldOnes, Exits
        <4>3. Agreed(q, queue[t], s)
          BY <2>2, <2>3 DEF Agreed
        <4> QED BY <2>6, <3>2, <4>1, <4>2, <4>3 DEF InStep
      <3>3. CASE u # t
        <4> DEFINE e == [kind |-> "authenticated", sid |-> s]
                   c == cookie.sid
        <4>1. e \in Events /\ e.kind # "signed_out" /\ queue[u] \in Seq(Events)
              /\ queue'[u] = Append(queue[u], e) /\ page'[u] = page[u]
          BY <1>p, <1>s, <2>2, <2>6, <3>3 DEF Events, Others
        <4>2. InStep(page[u], queue[u], c, S) /\ S \subseteq T
          BY <3>1
        <4> HIDE DEF c, S, T, s
        <4>3. InStep(page[u], Append(queue[u], e), s, T)
          BY <1>s, <4>1, <4>2, TellInStep
        <4> QED BY <4>1, <4>3
      <3> QED BY <3>2, <3>3
    <2>8. SyncInv'
      BY <1>c, <2>7 DEF SyncInv
    <2> QED BY <2>5, <2>8
  <1> QED BY <1>1, <1>2 DEF LoginBack

LEMMA LeaveSendSync ==
    ASSUME TypeOK, AskInv, SyncInv, SeenInv, SeenSids \subseteq SeenSids',
           NEW t \in Tabs, LeaveSend(t) \/ LeaveServe(t)
    PROVE  AskInv' /\ SyncInv'
  <1> DEFINE p == page[t]
             q == page'[t]
             c == cookie.sid
             T == SeenSids'
  <1>p. /\ p \in Pages /\ page \in [Tabs -> Pages] /\ p.leave \in Leaves /\ cookie \in Cookies
    BY TypeNames DEF Pages
  <1>u. UNCHANGED <<cookie, queue, astray>>
    BY DEF LeaveSend, LeaveServe, history
  <1>1. /\ Others(t) /\ q.store = p.store /\ q.boot = p.boot /\ q.flight = p.flight
        /\ LeaveOf(q)
        /\ \/ q.leave.tok = p.store /\ q.leave.ck = cookie
           \/ q.leave.tok = p.leave.tok /\ q.leave.ck = p.leave.ck /\ p.leave.at = "sent"
    <2>1. CASE LeaveSend(t)
      <3> DEFINE l == [NoLeave EXCEPT !.at = "sent", !.again = TRUE, !.tok = p.store,
                                      !.ck = cookie]
      <3>1. page' = [page EXCEPT ![t] = [p EXCEPT !.leave = l]]
        BY <2>1 DEF LeaveSend, SendLeave
      <3>2. l.tok = p.store /\ l.ck = cookie /\ l.at = "sent"
        BY DEF NoLeave
      <3> HIDE DEF l
      <3>3. q = [p EXCEPT !.leave = l] /\ Others(t)
        BY <1>p, <3>1 DEF Others
      <3>4. q.store = p.store /\ q.boot = p.boot /\ q.flight = p.flight /\ q.leave = l
        BY <1>p, <3>3 DEF Pages
      <3> QED BY <3>2, <3>3, <3>4 DEF LeaveOf
    <2>2. CASE LeaveServe(t)
      <3> DEFINE r == p.leave
                 mismatch == r.ck # NoCookie /\ r.ck.sid # r.tok.sid
                 ans == IF mismatch THEN "mismatch" ELSE "ok"
                 clears == ~mismatch /\ (r.tok.fresh => r.ck # NoCookie)
                 l == [r EXCEPT !.at = "back", !.ans = ans, !.clears = clears]
      <3>0. /\ r.at = "sent"
            /\ page' = [page EXCEPT ![t].leave.at = "back", ![t].leave.ans = ans,
                                    ![t].leave.clears = clears]
        BY <2>2, Zenon DEF LeaveServe
      <3>1. page' = [page EXCEPT ![t] = [p EXCEPT !.leave = l]] /\ r.at = "sent"
        <4> HIDE DEF ans, clears, mismatch
        <4> DEFINE p1 == [p EXCEPT !.leave.at = "back"]
                   p2 == [p1 EXCEPT !.leave.ans = ans]
                   p3 == [p2 EXCEPT !.leave.clears = clears]
        <4>1. page' = [page EXCEPT ![t] = p3]
          BY <1>p, <3>0
        <4>2. p3 = [p EXCEPT !.leave = l]
          BY <1>p DEF Pages, Leaves
        <4> QED BY <3>0, <4>1, <4>2
      <3>2. l.tok = r.tok /\ l.ck = r.ck /\ l.at = "back" /\ l.ans = ans /\ l.clears = clears
        BY <1>p DEF Leaves
      <3>3. ans = "ok" /\ ~clears => r.ck = NoCookie
        OBVIOUS
      <3> HIDE DEF l, ans, clears
      <3>4. q = [p EXCEPT !.leave = l] /\ Others(t)
        BY <1>p, <3>1 DEF Others
      <3>5. q.store = p.store /\ q.boot = p.boot /\ q.flight = p.flight /\ q.leave = l
        BY <1>p, <3>4 DEF Pages
      <3> QED BY <3>1, <3>2, <3>3, <3>4, <3>5 DEF LeaveOf
    <2> QED BY <2>1, <2>2
  <1>2. FlightOf(q)
    BY <1>1 DEF AskInv, FlightOf
  <1>3. ASSUME ~astray PROVE InStep(q, queue[t], c, T)
    <2>1. InStep(p, queue[t], c, T)
      <3>1. Milder(p, p) /\ InStep(p, queue[t], c, SeenSids)
        BY <1>3 DEF Milder, SyncInv
      <3> QED BY <3>1, MilderInStep
    <2>2. NoCookie.sid = NoSid /\ p.store.sid \in T
      BY DEF NoCookie, SeenInv, AllSeen, PageIn
    <2>3. OldOnes(q, c, T)
      BY <1>1, <2>1, <2>2 DEF InStep, OldOnes, Exits, Past
    <2>4. Agreed(q, queue[t], c)
      BY <1>1, <2>1, <2>2 DEF InStep, Agreed, Exits
    <2> QED BY <2>1, <2>3, <2>4 DEF InStep
  <1>4. AskInv'
    BY <1>1, <1>2, OneAsks
  <1>5. SyncInv'
    BY <1>1, <1>3, <1>u, OneInStep
  <1> QED BY <1>4, <1>5

LEMMA LeaveBackSync ==
    ASSUME TypeOK, AskInv, SyncInv, SeenInv, SeenSids \subseteq SeenSids',
           NEW t \in Tabs, LeaveBack(t)
    PROVE  AskInv' /\ SyncInv'
  <1> DEFINE p == page[t]
             q == page'[t]
             c == cookie.sid
             d == cookie'.sid
             S == SeenSids
             T == SeenSids'
             ev == queue[t]
             done == [p EXCEPT !.leave = NoLeave]
  <1>p. /\ p \in Pages /\ page \in [Tabs -> Pages] /\ p.leave \in Leaves
        /\ queue \in [Tabs -> Seq(Events)] /\ p.store.sid \in SidsOrNone
    BY TypeNames, Sidded DEF Pages
  <1>o. ASSUME NEW x, page' = [page EXCEPT ![t] = x] PROVE q = x /\ Others(t)
    BY <1>o, <1>p DEF Others
  <1>a. FlightOf(p) /\ LeaveOf(p)
    BY DEF AskInv
  <1>s. p.store.sid \in S /\ S \subseteq T
    BY DEF SeenInv, AllSeen, PageIn
  <1>b. /\ p.leave.at = "back" /\ NoLeave.at = "none"
        /\ cookie' = IF p.leave.clears THEN NoCookie ELSE cookie
        /\ ~astray' => ~astray /\ p.store.sid \in {NoSid, p.leave.tok.sid}
    BY DEF LeaveBack, NoLeave
  <1>d. d \in {c, NoSid} /\ (p.leave.clears => d = NoSid) /\ (~p.leave.clears => d = c)
    BY <1>b DEF NoCookie
  <1>m. done \in Pages /\ done.store = p.store /\ done.boot = p.boot
        /\ done.leave = NoLeave /\ done.flight = p.flight
    BY <1>p, Constants DEF Pages
  <1>1. CASE p.leave.ans = "ok"
    <2> DEFINE x == Clear(done)
               new == Published(t, "signed_out", p.store.sid)
    <2>1. page' = [page EXCEPT ![t] = x] /\ queue' = new
      BY <1>1 DEF LeaveBack
    <2>2. /\ x.store.sid = NoSid /\ x.leave = NoLeave /\ ~x.flight.current
          /\ x.flight.at = p.flight.at /\ x.flight.again = p.flight.again
          /\ x.flight.exp = p.flight.exp /\ x.flight.tok = p.flight.tok
          /\ x.flight.ans = p.flight.ans
      BY <1>p, <1>m DEF Clear, Pages, FlightSet, NoBundle
    <2>3. /\ new[t] = ev
          /\ \A u \in Tabs \ {t} :
               \/ new[u] = queue[u]
               \/ /\ p.store.sid \in Sids
                  /\ new[u] = Append(queue[u], [kind |-> "signed_out", sid |-> p.store.sid])
      BY <1>p, PublishedTells DEF SidsOrNone
    <2> HIDE DEF x, new, done
    <2>4. q = x /\ Others(t)
      BY <1>o, <2>1
    <2>5. FlightOf(q) /\ LeaveOf(q)
      BY <1>a, <1>b, <2>2, <2>4 DEF FlightOf, LeaveOf, UnderWay
    <2>6. ASSUME ~astray'
          PROVE  InStep(q, ev, d, T) /\ Past(p.store.sid, d, T)
      <3>1. InStep(p, ev, d, T) /\ InStep(p, ev, c, S)
        <4>1. Milder(p, p) /\ InStep(p, ev, c, S)
          BY <1>b, <2>6 DEF Milder, SyncInv
        <4> HIDE DEF p, ev, c, d, S, T
        <4> QED BY <1>d, <1>s, <4>1, MilderInStep
      <3>2. OldOnes(q, d, T)
        BY <1>b, <2>2, <2>4, <3>1 DEF InStep, OldOnes, Exits
      <3>3. CASE p.leave.clears
        <4>1. d = NoSid
          BY <1>d, <3>3
        <4>2. Agreed(q, ev, d)
          BY <4>1 DEF Agreed
        <4>3. Past(p.store.sid, d, T)
          BY <1>s, <4>1 DEF Past
        <4> QED BY <3>1, <3>2, <4>2, <4>3 DEF InStep
      <3>4. CASE ~p.leave.clears
        <4>1. Exits(p)
          BY <1>a, <1>b, <1>1, <3>4 DEF LeaveOf, Exits
        <4>2. Past(p.leave.tok.sid, d, T)
          BY <3>1, <4>1 DEF InStep, OldOnes
        <4>3. Past(p.store.sid, d, T)
          BY <1>b, <1>s, <2>6, <4>2 DEF Past
        <4>4. Agreed(q, ev, d)
          BY <3>1, <4>1, <4>3 DEF InStep, Agreed, Past
        <4> QED BY <3>1, <3>2, <4>3, <4>4 DEF InStep
      <3> QED BY <3>3, <3>4
    <2>7. \A u \in Tabs \ {t} :
              \/ queue'[u] = queue[u]
              \/ \E e \in Events : /\ queue'[u] = Append(queue[u], e)
                                   /\ ~astray' => Past(e.sid, cookie'.sid, SeenSids')
      <3> SUFFICES ASSUME NEW u \in Tabs \ {t}, queue'[u] # queue[u]
                   PROVE  \E e \in Events :
                            /\ queue'[u] = Append(queue[u], e)
                            /\ ~astray' => Past(e.sid, cookie'.sid, SeenSids')
        OBVIOUS
      <3> DEFINE e == [kind |-> "signed_out", sid |-> p.store.sid]
      <3>1. p.store.sid \in Sids /\ queue'[u] = Append(queue[u], e)
        BY <2>1, <2>3
      <3>2. e \in Events /\ e.sid = p.store.sid
        BY <3>1 DEF Events
      <3> HIDE DEF e
      <3> QED BY <2>6, <3>1, <3>2
    <2>8. AskInv'
      BY <2>4, <2>5, OneAsks
    <2>9. queue'[t] = ev
      BY <2>1, <2>3
    <2>10. SyncInv'
      <3>1. ~astray' => InStep(page'[t], queue'[t], cookie'.sid, SeenSids')
        BY <2>6, <2>9
      <3>2. astray' \/ ~astray
        BY <1>b
      <3> QED BY <1>d, <2>4, <2>7, <3>1, <3>2, OneInStep
    <2> QED BY <2>8, <2>10
  <1>2. CASE p.leave.ans = "mismatch"
    <2> DEFINE m == [p EXCEPT !.leave = [p.leave EXCEPT !.at = "wait"]]
    <2>1. /\ queue' = queue
          /\ page' = [page EXCEPT ![t] = Refresh(m)] \/ page' = [page EXCEPT ![t] = done]
      BY <1>2, <1>p DEF LeaveBack
    <2>2. m \in Pages /\ Milder(p, m)
      <3>1. [p.leave EXCEPT !.at = "wait"] \in Leaves /\ [p.leave EXCEPT !.at = "wait"].at = "wait"
        BY <1>p DEF Leaves
      <3> DEFINE l == [p.leave EXCEPT !.at = "wait"]
      <3> HIDE DEF l
      <3>2. m \in Pages /\ m.store = p.store /\ m.boot = p.boot /\ m.leave = l
            /\ m.flight = p.flight
        BY <1>p, <3>1 DEF Pages, l
      <3> QED BY <3>1, <3>2 DEF Milder, l
    <2>3. Milder(p, done)
      BY <1>b, <1>m DEF Milder
    <2>4. Milder(p, q) /\ Others(t)
      BY <1>o, <2>1, <2>2, <2>3, MilderRefresh
    <2>5. FlightOf(q) /\ LeaveOf(q)
      BY <1>a, <2>4, MilderAsks
    <2>6. AskInv'
      BY <2>4, <2>5, OneAsks
    <2>7. ~astray' => InStep(q, queue'[t], d, T)
      <3>1. ASSUME ~astray' PROVE InStep(p, ev, c, S)
        BY <1>b, <3>1 DEF SyncInv
      <3>2. queue'[t] = ev
        BY <2>1
      <3> HIDE DEF p, q, ev, c, d, S, T
      <3> QED BY <1>d, <1>s, <2>4, <3>1, <3>2, MilderInStep
    <2>8. astray' \/ ~astray
      BY <1>b
    <2>9. SyncInv'
      BY <1>d, <2>1, <2>4, <2>7, <2>8, OneInStep
    <2> QED BY <2>6, <2>9
  <1> QED BY <1>1, <1>2 DEF LeaveBack

-----------------------------------------------------------------------------
(* All steps. *)

LEMMA TabSync ==
    ASSUME TypeOK, TypeOK', Named, NoRace, NoRace', AskInv, SyncInv, SeenInv,
           SeenSids \subseteq SeenSids', NEW t \in Tabs,
           TabStep(t) \/ UserStep(t) \/ FaultStep(t)
    PROVE  AskInv' /\ SyncInv'
  <1>1. CASE \/ Navigate(t) \/ Expire(t) \/ CallSend(t) \/ CallOnce(t) \/ CallDone(t)
             \/ CallDenied(t) \/ LoginServe(t) \/ ChangeServe(t) \/ ChangeAdvance(t)
             \/ ChangeBack(t) \/ LeaveFails(t)
    BY <1>1, MildSteps, MildSync
  <1>2. CASE StartRefresh(t)
    BY <1>2, MildSteps, MildSync, AskSteps, AskSync
  <1>3. CASE \/ RefreshCheck(t) \/ RefreshRotate(t) \/ RefreshFails(t) \/ AnswerLost(t)
    BY <1>3, AskSteps, AskSync
  <1>4. CASE RefreshBack(t)
    <2>1. astray' \/ ~astray
      BY <1>4 DEF RefreshBack
    <2> QED BY <1>4, <2>1, BackSync
  <1>5. CASE ReplayDenied(t) \/ UserReload(t)
    <2>1. Reload(t) /\ UNCHANGED <<cookie, astray>>
      BY <1>5 DEF ReplayDenied, UserReload
    <2> QED BY <2>1, ReloadSync
  <1>6. CASE LoginBack(t) \/ LeaveSend(t) \/ LeaveServe(t) \/ LeaveBack(t) \/ Deliver(t)
    BY <1>6, LoginSync, LeaveSendSync, LeaveBackSync, DeliverSync
  <1>7. CASE EventLost(t)
    BY <1>7 DEF EventLost, AskInv, SyncInv
  <1> QED BY <1>1, <1>2, <1>3, <1>4, <1>5, <1>6, <1>7 DEF TabStep, UserStep, FaultStep

LEMMA SyncStep ==
    ASSUME TypeOK, TypeOK', Named, NoRace, NoRace', RowInv, AskInv, SyncInv, SeenInv, Next
    PROVE  AskInv' /\ SyncInv'
  <1>1. SeenSids \subseteq SeenSids'
    BY SeenGrows
  <1>2. CASE \E t \in Tabs : TabStep(t) \/ UserStep(t) \/ FaultStep(t)
    BY <1>1, <1>2, TabSync
  <1>3. CASE \/ \E s \in Sids : RemoteRevoke(s) \/ GraceEnds(s)
             \/ \E q \in orphans : OrphanServe(q)
    <2>1. UNCHANGED <<page, cookie, queue, astray>>
      BY <1>3 DEF RemoteRevoke, GraceEnds, OrphanServe, history
    <2>2. AskInv'
      BY <2>1 DEF AskInv
    <2>3. ASSUME NEW t \in Tabs, ~astray
          PROVE  InStep(page[t], queue[t], cookie.sid, SeenSids')
      <3>1. Milder(page[t], page[t]) /\ InStep(page[t], queue[t], cookie.sid, SeenSids)
        BY <2>3 DEF Milder, SyncInv
      <3> QED BY <1>1, <3>1, MilderInStep
    <2>4. SyncInv'
      BY <2>1, <2>3 DEF SyncInv
    <2> QED BY <2>2, <2>4
  <1> QED BY <1>2, <1>3 DEF Next

LEMMA SyncInit == Init => AskInv /\ SyncInv
  <1> SUFFICES ASSUME Init PROVE AskInv /\ SyncInv
    OBVIOUS
  <1>1. \A t \in Tabs : page[t] = NewPage /\ queue[t] = <<>>
    BY DEF Init
  <1> QED BY <1>1, LoadedInStep DEF AskInv, SyncInv

\* When nothing is under way, every tab that is signed in, or has finished its
\* check, holds the session of the cookie, whether or not there are Web Locks:
\* the events of the BroadcastChannel and the mismatch answer of RefreshAuth
\* bring every tab to the newest login, but for the exceptions in astray.
THEOREM TabsComeTogether == Spec => []TabsAgree
  <1>1. /\ TypeOK /\ TypeOK' /\ Named /\ NoRace /\ NoRace' /\ RowInv /\ SeenInv
        /\ AskInv /\ SyncInv /\ [Next]_vars
        => AskInv' /\ SyncInv'
    <2> SUFFICES ASSUME TypeOK, TypeOK', Named, NoRace, NoRace', RowInv, SeenInv,
                        AskInv, SyncInv, [Next]_vars
                 PROVE  AskInv' /\ SyncInv'
      OBVIOUS
    <2>1. CASE UNCHANGED vars
      BY <2>1 DEF vars, AskInv, SyncInv, SeenSids
    <2>2. CASE Next
      BY <2>2, SyncStep
    <2> QED BY <2>1, <2>2
  <1>2. TypeOK /\ SyncInv => TabsAgree
    <2> SUFFICES ASSUME TypeOK, SyncInv, Quiet, ~astray, cookie # NoCookie,
                        NEW t \in Tabs, Signed(page[t]) \/ page[t].boot = "complete"
                 PROVE  page[t].store.sid = cookie.sid
      BY DEF TabsAgree
    <2>1. InStep(page[t], queue[t], cookie.sid, SeenSids) /\ queue[t] = <<>>
      BY DEF SyncInv, Quiet
    <2>2. cookie.sid # NoSid /\ (page[t].store.sid = NoSid => ~Signed(page[t]))
      BY TypeNames, Sidded DEF Signed, Pages
    <2>3. ~Hears(queue[t], cookie.sid)
      BY <2>1 DEF Hears
    <2> QED BY <2>1, <2>2, <2>3 DEF InStep, Agreed
  <1> QED BY <1>1, <1>2, SyncInit, SeenHolds, NobodyRaces, PTL DEF Spec
=============================================================================
