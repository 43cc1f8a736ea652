----------------------------- MODULE WebSession -----------------------------
(***************************************************************************)
(* The login session of one browser: its tabs (web/src/lib/auth-session.ts *)
(* and the code that calls it), the refresh cookie they share, and the     *)
(* rows of user_sessions behind /api/user/auth (controller, service and    *)
(* model code in Go).                                                      *)
(*                                                                         *)
(* A tab runs JavaScript between awaits in one step; a request is sent,    *)
(* served and answered in steps of their own, and the cookie of a response *)
(* is stored by the browser when the response arrives.  A refresh secret   *)
(* is its place in the chain that deriveNextRefreshSecret builds, so the   *)
(* cookie is [sid, gen].  authEpoch is kept as flight.current: whether the *)
(* epoch is still the one the refresh in flight has captured.              *)
(***************************************************************************)
EXTENDS Integers, FiniteSets, Sequences

CONSTANTS
    Tabs,           \* tabs of one browser
    MaxSessions,    \* bound: how often somebody logs in
    UseLocks,       \* navigator.locks exists (secure contexts)
    MaxEvents,      \* bound: expiries, reloads, revocations, changes
    MaxFaults       \* bound: failed requests, lost responses and events

Nobody == "nobody"

ASSUME WebAssumption ==
    /\ Nobody \notin Tabs
    /\ MaxSessions \in Nat \ {0} /\ MaxEvents \in Nat /\ MaxFaults \in Nat
    /\ UseLocks \in BOOLEAN

Sids == 1..MaxSessions
NoSid == 0
RaceDelays == 3              \* refreshRaceDelays = [80, 200, 500]

VARIABLES
    row,         \* row[s] of user_sessions
    userAuth,    \* users.auth_version
    cookie,      \* the refresh cookie; its hint cookie lives and dies with it
    page,        \* page[t]: the memory of the document in tab t
    lock,        \* holder of the Web Lock new-api:auth-refresh
    queue,       \* queue[t]: events of the BroadcastChannel not yet delivered
    orphans,     \* refresh requests whose page has gone
    events,
    faults,
    dropped,     \* history: sessions that lost the answer to a rotation
    left,        \* left[t]: history: the sessions tab t has signed out of
    astray       \* history: one of the ways in which tabs may part (below)

server == <<row, userAuth>>
bounds == <<events, faults>>
history == <<dropped, left, astray>>
vars == <<row, userAuth, cookie, page, lock, queue, orphans, events, faults,
          dropped, left, astray>>

NoCookie == [sid |-> NoSid, gen |-> 0]
Cookies == [sid: Sids, gen: Nat] \cup {NoCookie}

NoBundle == [sid |-> NoSid, ver |-> 0, fresh |-> FALSE]
Bundles == [sid: Sids, ver: Nat, fresh: BOOLEAN] \cup {NoBundle}

NoRow == [status |-> "absent", gen |-> 0, prev |-> -1, grace |-> FALSE,
          ver |-> 1, auth |-> 0, why |-> "none"]

AnswerKinds == {"none", "bundle", "race", "mismatch", "denied", "failed", "ok"}
NoAnswer == [kind |-> "none", sid |-> NoSid, ver |-> 0, gen |-> 0]
Answer(kind) == [NoAnswer EXCEPT !.kind = kind]

NoFlight == [at |-> "none", current |-> FALSE, again |-> FALSE, race |-> 0,
             exp |-> NoSid, tok |-> NoCookie, ans |-> NoAnswer]
NoCall == [at |-> "none", single |-> FALSE, tok |-> NoBundle]
NoLeave == [at |-> "none", again |-> FALSE, tok |-> NoBundle, ck |-> NoCookie,
            clears |-> FALSE, ans |-> "none"]
NoChange == [at |-> "none", sid |-> NoSid, ver |-> 0]

\* The memory of a document that has just been loaded.
NewPage == [store |-> NoBundle, boot |-> "idle", flight |-> NoFlight,
            call |-> NoCall, leave |-> NoLeave, enter |-> NoSid,
            change |-> NoChange]

Init ==
    /\ row = [s \in Sids |-> IF s = 1 THEN [NoRow EXCEPT !.status = "active",
                                                       !.auth = 1] ELSE NoRow]
    /\ userAuth = 1
    /\ cookie = [sid |-> 1, gen |-> 0]
    /\ page = [t \in Tabs |-> NewPage]
    /\ lock = Nobody
    /\ queue = [t \in Tabs |-> <<>>]
    /\ orphans = {}
    /\ events = 0
    /\ faults = 0
    /\ dropped = {}
    /\ left = [t \in Tabs |-> {}]
    /\ astray = FALSE

\* One more event of the environment, or one more fault.
Event == events < MaxEvents /\ events' = events + 1
Fault == faults < MaxFaults /\ faults' = faults + 1

-----------------------------------------------------------------------------
(* The store and the epoch of one page. *)

Signed(p) == p.store # NoBundle

\* A mutant of Accept: applyAuthBundle without the step of authEpoch.
AcceptSameEpoch(p, b) == [p EXCEPT !.store = b, !.boot = "complete"]

\* setBundle and the epoch of applyAuthBundle.
Accept(p, b) ==
    [p EXCEPT !.store = b, !.boot = "complete", !.flight.current = FALSE]

\* clearAuthentication: reset and the epoch.
Clear(p) ==
    [p EXCEPT !.store = NoBundle, !.boot = "complete", !.flight.current = FALSE]

\* refreshAuthentication: join the refresh in flight or start one.
Refresh(p) ==
    IF p.flight.at # "none" THEN p
    ELSE [p EXCEPT !.flight = [NoFlight EXCEPT !.at = "queued",
                                    !.current = TRUE, !.again = TRUE]]

\* A mutant of Published: nobody hears the event.
PublishedToNobody(t, kind, sid) == queue

\* A mutant of Published: a page that is not signed in publishes, too.
PublishedAnyway(t, kind, sid) ==
    [u \in Tabs |-> IF u = t THEN queue[u]
                    ELSE Append(queue[u], [kind |-> kind, sid |-> sid])]

\* publishAuthSessionEvent: every other tab gets the event.
Published(t, kind, sid) ==
    [u \in Tabs |-> IF u = t \/ sid = NoSid THEN queue[u]
                    ELSE Append(queue[u], [kind |-> kind, sid |-> sid])]

\* A mutant of Unlocked: the lock is never given back.
UnlockedNever(t) == lock

\* The Web Lock once t no longer needs it.
Unlocked(t) == IF lock = t THEN Nobody ELSE lock

\* The requests of a page that goes away: the server may still get them.
Abandoned(p) ==
    IF p.flight.at \in {"sent", "checked"}
        THEN {[tok |-> p.flight.tok, exp |-> p.flight.exp]} ELSE {}

\* Sessions whose rotated secret is lost with the page.
LostWith(p) ==
    IF p.flight.at = "back" /\ p.flight.ans.kind = "bundle"
        THEN {p.flight.ans.sid} ELSE {}

\* The document of t is replaced: memory, lock and undelivered events go.
Reload(t) ==
    /\ page' = [page EXCEPT ![t] = NewPage]
    /\ lock' = Unlocked(t)
    /\ orphans' = orphans \cup Abandoned(page[t])
    /\ dropped' = dropped \cup LostWith(page[t])
    /\ queue' = [queue EXCEPT ![t] = <<>>]

-----------------------------------------------------------------------------
(* The server. *)

Active(s) == s \in Sids /\ row[s].status = "active"

Revoked(s, why) ==
    [row EXCEPT ![s].status = "revoked", ![s].why = why]

\* middleware: the access token is validated against row and user.
ValidToken(b) ==
    /\ b.fresh
    /\ Active(b.sid)
    /\ row[b.sid].ver = b.ver
    /\ row[b.sid].auth = userAuth

\* deriveNextRefreshSecret.
Derive(gen) == gen + 1

\* RefreshLoginSession up to the rotation.
CheckAnswer(tok, exp) ==
    IF tok = NoCookie THEN "denied"
    ELSE IF exp # NoSid /\ exp # tok.sid THEN "mismatch"
    ELSE IF ~Active(tok.sid) \/ row[tok.sid].auth # userAuth THEN "denied"
    ELSE "none"

\* A session behind the user's version is revoked by the check.
CheckRow(tok, exp) ==
    IF /\ exp \in {NoSid, tok.sid} /\ Active(tok.sid)
       /\ row[tok.sid].auth # userAuth
        THEN Revoked(tok.sid, "user_security_changed") ELSE row

Presents(tok, gen) == gen >= 0 /\ tok.gen = gen

\* A mutant of RotateRow: the next secret is not the derived one.
RotateRowRandom(tok) ==
    IF Active(tok.sid) /\ Presents(tok, row[tok.sid].gen)
        THEN [row EXCEPT ![tok.sid].prev = tok.gen, ![tok.sid].grace = TRUE,
                         ![tok.sid].gen = tok.gen + 2]
        ELSE row

\* RotateUserSessionRefresh: the row after it.
RotateRow(tok) ==
    LET r == row[tok.sid] IN
    IF ~Active(tok.sid) THEN row
    ELSE IF Presents(tok, r.gen)
        THEN [row EXCEPT ![tok.sid].prev = r.gen, ![tok.sid].grace = TRUE,
                         ![tok.sid].gen = Derive(tok.gen)]
    ELSE IF Presents(tok, r.prev) /\ ~r.grace
        THEN Revoked(tok.sid, "refresh_reuse")
    ELSE row

\* RotateUserSessionRefresh and what RefreshLoginSession answers after it.
RotateAnswer(tok) ==
    LET r == row[tok.sid]
        bundle == [kind |-> "bundle", sid |-> tok.sid, ver |-> r.ver,
                   gen |-> Derive(tok.gen)]
    IN
    IF ~Active(tok.sid) THEN Answer("failed")
    ELSE IF Presents(tok, r.gen) THEN bundle
    ELSE IF Presents(tok, r.prev) /\ r.grace
        THEN IF Derive(tok.gen) = r.gen THEN bundle ELSE Answer("race")
    ELSE Answer("denied")

\* RefreshAuth, first half.
RefreshCheck(t) ==
    LET f == page[t].flight
        kind == CheckAnswer(f.tok, f.exp)
    IN
    /\ f.at = "sent"
    /\ row' = CheckRow(f.tok, f.exp)
    /\ page' = [page EXCEPT
                  ![t].flight.at = IF kind = "none" THEN "checked" ELSE "back",
                  ![t].flight.ans = Answer(kind)]
    /\ UNCHANGED <<userAuth, cookie, lock, queue, orphans, bounds, history>>

\* RefreshAuth, second half.
RefreshRotate(t) ==
    LET f == page[t].flight IN
    /\ f.at = "checked"
    /\ row' = RotateRow(f.tok)
    /\ page' = [page EXCEPT ![t].flight.at = "back",
                            ![t].flight.ans = RotateAnswer(f.tok)]
    /\ UNCHANGED <<userAuth, cookie, lock, queue, orphans, bounds, history>>

\* A refresh request whose page has gone: its answer reaches nobody.
OrphanServe(q) ==
    /\ orphans' = orphans \ {q}
    /\ IF CheckAnswer(q.tok, q.exp) = "none"
         THEN /\ row' = RotateRow(q.tok)
              /\ dropped' = IF RotateAnswer(q.tok).kind = "bundle"
                              THEN dropped \cup {q.tok.sid} ELSE dropped
         ELSE /\ row' = CheckRow(q.tok, q.exp)
              /\ UNCHANGED dropped
    /\ UNCHANGED <<userAuth, cookie, page, lock, queue, bounds, left, astray>>

-----------------------------------------------------------------------------
(* createRefreshRunner. *)

\* requestRefresh, with the cookie ck of now and the sid of the store.
SendRefresh(p, ck) ==
    [p EXCEPT !.flight.at = "sent", !.flight.exp = p.store.sid,
              !.flight.tok = ck, !.flight.ans = NoAnswer]

\* executeLogout's request.
SendLeave(p, ck, again) ==
    [p EXCEPT !.leave = [NoLeave EXCEPT !.at = "sent", !.again = again,
                                        !.tok = p.store, !.ck = ck]]

\* The call that awaits the refresh: replayed, sent for the first time, or
\* failed.
ResumeCall(p, outcome) ==
    CASE p.call.at = "wait" /\ outcome = "authenticated" ->
            [p EXCEPT !.call.at = "resent", !.call.tok = p.store]
      [] p.call.at = "first" /\ (outcome = "authenticated" \/ p.store.fresh) ->
            [p EXCEPT !.call.at = "sent", !.call.tok = p.store]
      [] p.call.at \in {"sent", "resent", "none"} -> p
      [] OTHER -> [p EXCEPT !.call = NoCall]

\* The sign-out that awaits the refresh: tried again, done, or failed.
ResumeLeave(p, outcome, ck) ==
    IF p.leave.at # "wait" THEN p
    ELSE IF outcome = "authenticated" THEN SendLeave(p, ck, FALSE)
    ELSE [p EXCEPT !.leave = NoLeave]

\* A call that awaits a refresh that ends so sends the tab to /sign-in.
Redirects(p, outcome) ==
    p.call.at = "wait" /\ outcome \in {"anonymous", "out_of_sync"}

\* The refresh of p ends and everything that awaits it goes on.
Settle(p, outcome, ck) ==
    IF Redirects(p, outcome) THEN NewPage
    ELSE ResumeLeave(ResumeCall([p EXCEPT !.flight = NoFlight], outcome),
                     outcome, ck)

\* A mutant of IsCurrent: a refresh is never superseded.
IsCurrentAlways(p) == TRUE

\* isCurrent: authEpoch is the one the refresh has captured.
IsCurrent(p) == p.flight.current

\* A mutant of MayRun: the lock is not waited for.
MayRunAtOnce(t) == page[t].flight.at = "queued"

\* navigator.locks runs the callback when nobody else holds the lock.
MayRun(t) == page[t].flight.at = "queued" /\ (UseLocks => lock = Nobody)

\* performRefreshWithBrowserLock: runRefresh starts once the lock is held.
StartRefresh(t) ==
    LET p == page[t] IN
    /\ MayRun(t)
    /\ IF IsCurrent(p)
         THEN /\ page' = [page EXCEPT ![t] = SendRefresh(p, cookie)]
              /\ lock' = IF UseLocks THEN t ELSE lock
         ELSE /\ page' = [page EXCEPT ![t] = Settle(p, "transient", cookie)]
              /\ UNCHANGED lock
    /\ UNCHANGED <<server, cookie, queue, orphans, bounds, history>>

\* Set-Cookie of an answer to a refresh.
CookieAfter(ans) ==
    CASE ans.kind = "bundle" -> [sid |-> ans.sid, gen |-> ans.gen]
      [] ans.kind = "denied" -> NoCookie
      [] OTHER -> cookie

\* What run() makes of an answer: the page after it, and how the refresh
\* ends ("goes_on" when it sends another request).
RunPage(p, ck) ==
    LET ans == p.flight.ans IN
    IF ~IsCurrent(p) THEN p ELSE
    CASE ans.kind = "bundle" ->
            Accept(p, [sid |-> ans.sid, ver |-> ans.ver, fresh |-> TRUE])
      [] ans.kind = "race" /\ p.flight.race < RaceDelays ->
            SendRefresh([p EXCEPT !.flight.race = @ + 1], ck)
      [] ans.kind = "mismatch" /\ p.flight.again ->
            SendRefresh([p EXCEPT !.store = NoBundle, !.boot = "idle",
                           !.flight.again = FALSE, !.flight.race = 0], ck)
      [] ans.kind = "failed" -> [p EXCEPT !.boot = "idle"]
      [] OTHER -> Clear(p)

RunOutcome(p) ==
    LET ans == p.flight.ans IN
    IF ~IsCurrent(p) THEN "transient" ELSE
    CASE ans.kind = "bundle" -> "authenticated"
      [] ans.kind = "race" /\ p.flight.race < RaceDelays -> "goes_on"
      [] ans.kind = "mismatch" /\ p.flight.again -> "goes_on"
      [] ans.kind = "failed" -> "transient"
      [] ans.kind = "denied" -> "anonymous"
      [] OTHER -> "out_of_sync"

\* The answer arrives: the browser stores the cookie, run() goes on.
RefreshBack(t) ==
    LET p == page[t]
        ck == CookieAfter(p.flight.ans)
        outcome == RunOutcome(p)
        heard == Published(t, "signed_out",
                           IF outcome = "anonymous" THEN p.store.sid ELSE NoSid)
    IN
    /\ p.flight.at = "back"
    /\ cookie' = ck
    /\ IF outcome = "goes_on"
         THEN /\ page' = [page EXCEPT ![t] = RunPage(p, ck)]
              /\ UNCHANGED <<lock, queue>>
         ELSE /\ page' = [page EXCEPT ![t] = Settle(RunPage(p, ck), outcome, ck)]
              /\ lock' = Unlocked(t)
              /\ queue' = IF Redirects(p, outcome)
                            THEN [heard EXCEPT ![t] = <<>>] ELSE heard
    /\ astray' = (astray \/ ck.sid \notin {NoSid, cookie.sid})
    /\ UNCHANGED <<server, orphans, bounds, dropped, left>>

\* The request fails on its way or with 429 or 5xx; a session that cannot
\* be read is answered like an unknown secret.
RefreshFails(t) ==
    /\ Fault
    /\ page[t].flight.at = "sent"
    /\ \E kind \in {"failed", "denied"} :
         page' = [page EXCEPT ![t].flight.at = "back",
                              ![t].flight.ans = Answer(kind)]
    /\ UNCHANGED <<server, cookie, lock, queue, orphans, events, history>>

\* The answer to a refresh is lost: axios reports status 0.
AnswerLost(t) ==
    /\ Fault
    /\ page[t].flight.at = "back" /\ page[t].flight.ans.kind # "failed"
    /\ page' = [page EXCEPT ![t].flight.ans = Answer("failed")]
    /\ dropped' = dropped \cup LostWith(page[t])
    /\ UNCHANGED <<server, cookie, lock, queue, orphans, events, left, astray>>

-----------------------------------------------------------------------------
(* Navigation and API calls. *)

\* resolveAuthentication in a route guard (bootstrapAuthentication skips it
\* when there is neither a bundle nor a hint).
Navigate(t) ==
    LET p == page[t] IN
    /\ p.store.fresh => p.boot # "complete"
    /\ p.boot = "complete" => Signed(p)
    /\ page' = [page EXCEPT ![t] =
                 IF p.store.fresh THEN [p EXCEPT !.boot = "complete"]
                 ELSE Refresh([p EXCEPT !.boot = "checking"])]
    /\ page' # page
    /\ UNCHANGED <<server, cookie, lock, queue, orphans, bounds, history>>

\* The access token reaches its 15 minutes.
Expire(t) ==
    /\ Event
    /\ page[t].store.fresh
    /\ page' = [page EXCEPT ![t].store.fresh = FALSE]
    /\ UNCHANGED <<server, cookie, lock, queue, orphans, faults, history>>

\* A request with the token of the store.
CallSend(t) ==
    /\ Event
    /\ Signed(page[t]) /\ page[t].call = NoCall
    /\ page' = [page EXCEPT ![t].call = [at |-> "sent", single |-> FALSE,
                                         tok |-> page[t].store]]
    /\ UNCHANGED <<server, cookie, lock, queue, orphans, faults, history>>

\* A request that spends a proof: a token within a minute of its end is
\* refreshed first.
CallOnce(t) ==
    LET p == page[t]
        call == [at |-> "first", single |-> TRUE, tok |-> NoBundle]
    IN
    /\ Event
    /\ Signed(p) /\ p.call = NoCall
    /\ \/ /\ p.store.fresh
          /\ page' = [page EXCEPT ![t].call = [call EXCEPT !.at = "sent",
                                                           !.tok = p.store]]
       \/ page' = [page EXCEPT ![t] = Refresh([p EXCEPT !.call = call])]
    /\ UNCHANGED <<server, cookie, lock, queue, orphans, faults, history>>

\* The call succeeds.
CallDone(t) ==
    /\ page[t].call.at \in {"sent", "resent"} /\ ValidToken(page[t].call.tok)
    /\ page' = [page EXCEPT ![t].call = NoCall]
    /\ UNCHANGED <<server, cookie, lock, queue, orphans, bounds, history>>

\* The first 401 of a call: refresh and replay, unless it spends a proof.
CallDenied(t) ==
    LET p == page[t] IN
    /\ p.call.at = "sent" /\ ~ValidToken(p.call.tok)
    /\ page' = [page EXCEPT ![t] =
                 IF p.call.single THEN [p EXCEPT !.call = NoCall]
                 ELSE Refresh([p EXCEPT !.call.at = "wait"])]
    /\ UNCHANGED <<server, cookie, lock, queue, orphans, bounds, history>>

\* The 401 of a replay: clear and go to /sign-in.
ReplayDenied(t) ==
    /\ page[t].call.at = "resent" /\ ~ValidToken(page[t].call.tok)
    /\ Reload(t)
    /\ UNCHANGED <<server, cookie, bounds, left, astray>>

UserReload(t) ==
    /\ Event
    /\ Reload(t)
    /\ UNCHANGED <<server, cookie, faults, left, astray>>

-----------------------------------------------------------------------------
(* Signing in and out. *)

\* createLoginSession for the sign-in form or the OAuth callback.
LoginServe(t) ==
    LET s == 1 + Cardinality({x \in Sids : row[x] # NoRow}) IN
    /\ Event
    /\ ~Signed(page[t]) /\ page[t].boot # "checking" /\ page[t].enter = NoSid
    /\ s \in Sids
    /\ row' = [row EXCEPT ![s] = [NoRow EXCEPT !.status = "active",
                                               !.auth = userAuth]]
    /\ page' = [page EXCEPT ![t].enter = s]
    /\ UNCHANGED <<userAuth, cookie, lock, queue, orphans, faults, history>>

\* The answer to a sign-in: the browser stores its cookie in any case.
\* handleLoginSuccess ignores the bundle when the form has been left or the
\* store has got a session meanwhile; the WeChat callback always applies it.
LoginBack(t) ==
    LET p == [page[t] EXCEPT !.enter = NoSid]
        s == page[t].enter
    IN
    /\ s # NoSid
    /\ cookie' = [sid |-> s, gen |-> 0]
    /\ \/ /\ page' = [page EXCEPT ![t] = p]
          /\ astray' = TRUE
          /\ UNCHANGED queue
       \/ /\ page' = [page EXCEPT ![t] =
                       Accept(p, [sid |-> s, ver |-> 1, fresh |-> TRUE])]
          /\ queue' = Published(t, "authenticated", s)
          /\ UNCHANGED astray
    /\ UNCHANGED <<server, lock, orphans, bounds, dropped, left>>

LeaveSend(t) ==
    /\ Event
    /\ Signed(page[t]) /\ page[t].leave = NoLeave
    /\ page' = [page EXCEPT ![t] = SendLeave(page[t], cookie, TRUE)]
    /\ UNCHANGED <<server, cookie, lock, queue, orphans, faults, history>>

\* The secret is the current one, or the previous one in its grace window.
Possesses(ck) ==
    /\ Active(ck.sid)
    /\ \/ Presents(ck, row[ck.sid].gen)
       \/ Presents(ck, row[ck.sid].prev) /\ row[ck.sid].grace

\* AuthLogout.
LeaveServe(t) ==
    LET q == page[t].leave
        mismatch == q.ck # NoCookie /\ q.ck.sid # q.tok.sid
        out == IF q.tok.fresh THEN q.tok.sid
               ELSE IF Possesses(q.ck) THEN q.ck.sid ELSE NoSid
    IN
    /\ q.at = "sent"
    /\ row' = IF ~mismatch /\ Active(out) THEN Revoked(out, "logout") ELSE row
    /\ page' = [page EXCEPT ![t].leave.at = "back",
                  ![t].leave.ans = IF mismatch THEN "mismatch" ELSE "ok",
                  ![t].leave.clears = ~mismatch /\ (q.tok.fresh => q.ck # NoCookie)]
    /\ UNCHANGED <<userAuth, cookie, lock, queue, orphans, bounds, history>>

LeaveFails(t) ==
    /\ Fault
    /\ page[t].leave.at \in {"sent", "back"}
    /\ page' = [page EXCEPT ![t].leave = NoLeave]
    /\ UNCHANGED <<server, cookie, lock, queue, orphans, events, history>>

\* executeLogout and handleSignOut with the answer.
LeaveBack(t) ==
    LET p == page[t]
        done == [p EXCEPT !.leave = NoLeave]
    IN
    /\ p.leave.at = "back"
    /\ cookie' = IF p.leave.clears THEN NoCookie ELSE cookie
    /\ \/ /\ p.leave.ans = "ok"
          /\ page' = [page EXCEPT ![t] = Clear(done)]
          /\ queue' = Published(t, "signed_out", p.store.sid)
          /\ left' = [left EXCEPT ![t] = @ \cup {s \in Sids : s = p.store.sid /\ ~Active(s)}]
       \/ /\ p.leave.ans = "mismatch"
          /\ page' = [page EXCEPT ![t] =
                       IF p.leave.again
                         THEN Refresh([p EXCEPT !.leave.at = "wait"]) ELSE done]
          /\ UNCHANGED <<queue, left>>
    /\ astray' = (astray \/ p.store.sid \notin {NoSid, p.leave.tok.sid})
    /\ UNCHANGED <<server, lock, orphans, bounds, dropped>>

-----------------------------------------------------------------------------
(* Security changes, revocations from elsewhere, the grace window. *)

\* A security setting is changed: the user's version goes up first.
ChangeServe(t) ==
    /\ Event
    /\ page[t].change = NoChange /\ ValidToken(page[t].store)
    /\ userAuth' = userAuth + 1
    /\ page' = [page EXCEPT ![t].change =
                 [at |-> "bumped", sid |-> page[t].store.sid,
                  ver |-> page[t].store.ver]]
    /\ UNCHANGED <<row, cookie, lock, queue, orphans, faults, history>>

\* AdvanceCurrentSessionToUserVersion: this session follows, others end.
ChangeAdvance(t) ==
    LET c == page[t].change IN
    /\ c.at = "bumped"
    /\ IF Active(c.sid) /\ row[c.sid].ver = c.ver
         THEN /\ row' = [s \in Sids |->
                  IF s = c.sid THEN [row[s] EXCEPT !.ver = @ + 1, !.auth = userAuth]
                  ELSE IF Active(s)
                    THEN [row[s] EXCEPT !.status = "revoked", !.why = "changed"]
                  ELSE row[s]]
              /\ page' = [page EXCEPT ![t].change =
                           [c EXCEPT !.at = "back", !.ver = @ + 1]]
         ELSE /\ page' = [page EXCEPT ![t].change = NoChange]
              /\ UNCHANGED row
    /\ UNCHANGED <<userAuth, cookie, lock, queue, orphans, bounds, history>>

\* applyAuthRotation.
ChangeBack(t) ==
    LET p == [page[t] EXCEPT !.change = NoChange]
        c == page[t].change
    IN
    /\ c.at = "back"
    /\ page' = [page EXCEPT ![t] =
                 IF p.store.sid = c.sid
                   THEN Accept(p, [sid |-> c.sid, ver |-> c.ver, fresh |-> TRUE])
                   ELSE p]
    /\ UNCHANGED <<server, cookie, lock, queue, orphans, bounds, history>>

\* Another device, or an administrator, revokes the session.
RemoteRevoke(s) ==
    /\ Event
    /\ Active(s)
    /\ row' = Revoked(s, "user_revoked")
    /\ UNCHANGED <<userAuth, cookie, page, lock, queue, orphans, faults, history>>

\* A request that presents the previous secret of s is under way.
InFlight(s) ==
    \/ \E t \in Tabs : /\ page[t].flight.at \in {"sent", "checked", "back"}
                       /\ page[t].flight.tok = [sid |-> s, gen |-> row[s].prev]
    \/ \E q \in orphans : q.tok = [sid |-> s, gen |-> row[s].prev]

\* The 30 seconds are over; no round trip takes as long.
GraceEnds(s) ==
    /\ Event
    /\ row[s].grace /\ ~InFlight(s)
    /\ row' = [row EXCEPT ![s].grace = FALSE]
    /\ UNCHANGED <<userAuth, cookie, page, lock, queue, orphans, faults, history>>

-----------------------------------------------------------------------------
(* The listener of the root route. *)

Deliver(t) ==
    LET p == page[t]
        e == Head(queue[t])
        rest == [queue EXCEPT ![t] = Tail(@)]
    IN
    /\ queue[t] # <<>>
    /\ IF e.kind = "authenticated" /\ e.sid # p.store.sid
         THEN Reload(t)
         ELSE /\ page' = IF e.kind = "signed_out" /\ e.sid = p.store.sid
                           THEN [page EXCEPT ![t] = Clear(p)] ELSE page
              /\ queue' = rest
              /\ UNCHANGED <<lock, orphans, dropped>>
    /\ UNCHANGED <<server, cookie, bounds, left, astray>>

\* The event is older than a minute when a frozen tab gets it.
EventLost(t) ==
    /\ Fault
    /\ queue[t] # <<>>
    /\ queue' = [queue EXCEPT ![t] = Tail(@)]
    /\ astray' = TRUE
    /\ UNCHANGED <<server, cookie, page, lock, orphans, events, dropped, left>>

-----------------------------------------------------------------------------
TabStep(t) ==
    \/ StartRefresh(t) \/ RefreshCheck(t) \/ RefreshRotate(t) \/ RefreshBack(t)
    \/ CallDone(t) \/ CallDenied(t) \/ ReplayDenied(t)
    \/ LoginBack(t) \/ LeaveServe(t) \/ LeaveBack(t)
    \/ ChangeAdvance(t) \/ ChangeBack(t) \/ Deliver(t)

UserStep(t) ==
    \/ Navigate(t) \/ CallSend(t) \/ CallOnce(t) \/ UserReload(t)
    \/ LoginServe(t) \/ LeaveSend(t) \/ ChangeServe(t)

FaultStep(t) ==
    RefreshFails(t) \/ AnswerLost(t) \/ LeaveFails(t) \/ EventLost(t) \/ Expire(t)

Next ==
    \/ \E t \in Tabs : TabStep(t) \/ UserStep(t) \/ FaultStep(t)
    \/ \E s \in Sids : RemoteRevoke(s) \/ GraceEnds(s)
    \/ \E q \in orphans : OrphanServe(q)

Spec == Init /\ [][Next]_vars

\* A request is answered or reported as failed by the browser, and Web Locks
\* are granted in the order in which they were asked for.
Fairness ==
    \A t \in Tabs :
        /\ SF_vars(StartRefresh(t))
        /\ WF_vars(RefreshCheck(t) \/ RefreshRotate(t) \/ RefreshBack(t))
        /\ WF_vars(CallDone(t) \/ CallDenied(t) \/ ReplayDenied(t))
        /\ WF_vars(LoginBack(t))
        /\ WF_vars(LeaveServe(t) \/ LeaveBack(t))
        /\ WF_vars(ChangeAdvance(t) \/ ChangeBack(t))

FairSpec == Spec /\ Fairness

-----------------------------------------------------------------------------
(* Properties. *)

Flights ==
    [at: {"none", "queued", "sent", "checked", "back"}, current: BOOLEAN,
     again: BOOLEAN, race: 0..RaceDelays, exp: Sids \cup {NoSid}, tok: Cookies,
     ans: [kind: AnswerKinds, sid: Sids \cup {NoSid}, ver: Nat, gen: Nat]]

\* Every variable keeps its type: the rows of user_sessions, the cookie, and
\* the store, the refresh and the requests of every page.
TypeOK ==
    /\ row \in [Sids -> [status: {"absent", "active", "revoked"}, gen: Nat,
                         prev: Nat \cup {-1}, grace: BOOLEAN, ver: Nat,
                         auth: Nat,
                         why: {"none", "logout", "refresh_reuse", "user_revoked",
                               "user_security_changed", "changed"}]]
    /\ userAuth \in Nat
    /\ cookie \in Cookies
    /\ page \in [Tabs ->
         [store: Bundles, boot: {"idle", "checking", "complete"},
          flight: Flights,
          call: [at: {"none", "sent", "wait", "first", "resent"},
                 single: BOOLEAN, tok: Bundles],
          leave: [at: {"none", "sent", "back", "wait"}, again: BOOLEAN,
                  tok: Bundles, ck: Cookies, clears: BOOLEAN,
                  ans: {"none", "ok", "mismatch"}],
          enter: Sids \cup {NoSid},
          change: [at: {"none", "bumped", "back"}, sid: Sids \cup {NoSid},
                   ver: Nat]]]
    /\ lock \in Tabs \cup {Nobody}
    /\ queue \in [Tabs -> Seq([kind: {"authenticated", "signed_out"}, sid: Sids])]
    /\ orphans \in SUBSET [tok: Cookies, exp: Sids \cup {NoSid}]
    /\ events \in 0..MaxEvents /\ faults \in 0..MaxFaults
    /\ dropped \in SUBSET Sids
    /\ left \in [Tabs -> SUBSET Sids]
    /\ astray \in BOOLEAN

\* The tabs of one browser never trip the reuse detection of
\* RotateUserSessionRefresh: a session is revoked for "refresh_reuse" only
\* when the answer to one of its rotations never reached the browser.  The
\* Web Lock is what orders the cookies that the answers of two tabs set.
NoFalseReuse == \A s \in Sids : row[s].why = "refresh_reuse" => s \in dropped

\* Two refreshes that present the same secret derive the same next one, so
\* within the grace window RefreshLoginSession answers both with a bundle
\* and never with AUTH_REFRESH_RACE.
NoRace == \A t \in Tabs : page[t].flight.ans.kind # "race"

\* A tab that has signed out of a session the server ended does not get it
\* back, whatever refresh was in flight in it or in another tab.
StaysOut == \A t \in Tabs : page[t].store.sid \notin left[t]

\* No request of a tab and no event is under way.
Quiet ==
    /\ orphans = {}
    /\ \A t \in Tabs : /\ queue[t] = <<>>
                       /\ page[t].flight = NoFlight /\ page[t].leave = NoLeave
                       /\ page[t].enter = NoSid

\* When nothing is under way and there is a cookie, every tab that is signed
\* in, or has finished its check, holds the session of the cookie.  astray
\* names the exceptions: a tab missed an event, an answer brought back the
\* cookie of a session that a newer login had replaced, the answer to a
\* sign-in came after its form was left or its tab had got another session,
\* or that to a sign-out reached a tab with another session.
TabsAgree ==
    Quiet /\ ~astray /\ cookie # NoCookie =>
        \A t \in Tabs : Signed(page[t]) \/ page[t].boot = "complete" =>
            page[t].store.sid = cookie.sid

\* The answer of a refresh never replaces the access token of a session by
\* one of an older session version: a token that a security change brought
\* while the refresh was in flight stays.
NoOlderToken ==
    [][\A t \in Tabs :
          LET old == page[t].store
              new == page'[t].store
          IN /\ page[t].flight.at = "back" /\ page'[t].flight.at = "none"
             /\ old.sid = new.sid
             => old.ver <= new.ver]_vars

\* Every refresh, call and sign-out of a tab comes to an end: no chain of
\* retries and replays, and no wait for the Web Lock, goes on for ever.
EveryRequestSettles ==
    \A t \in Tabs :
        /\ page[t].flight # NoFlight ~> page[t].flight = NoFlight
        /\ page[t].call # NoCall ~> page[t].call = NoCall
        /\ page[t].leave # NoLeave ~> page[t].leave = NoLeave
=============================================================================
