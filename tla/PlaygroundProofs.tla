-------------------------- MODULE PlaygroundProofs --------------------------
(***************************************************************************)
(* Theorems about Playground, for any number of requests, tokens, events   *)
(* and messages.                                                           *)
(***************************************************************************)
EXTENDS Playground, SequenceTheorems, WellFoundedInduction, TLAPS

-----------------------------------------------------------------------------
(* Least and greatest members. *)

\* A set of naturals that is not empty has a least member.
LEMMA Least ==
    ASSUME NEW T, T \subseteq Nat, T # {}
    PROVE  \E n \in T : \A m \in T : n <= m
  <1> DEFINE R == OpToRel(<, Nat)
  <1>1. IsWellFoundedOn(R, Nat)
    BY NatLessThanWellFounded
  <1>2. \A m, n \in Nat : m < n => <<m, n>> \in R
    BY DEF OpToRel
  <1> HIDE DEF R
  <1>3. PICK n \in T : \A m \in T : ~(<<m, n>> \in R)
    BY <1>1, WFMin
  <1>4. ASSUME NEW m \in T PROVE n <= m
    <2>1. m \in Nat /\ n \in Nat
      OBVIOUS
    <2>2. ~(m < n)
      BY <1>2, <1>3, <2>1
    <2> QED BY <2>1, <2>2
  <1> QED BY <1>4

\* A set of numbers below a bound has a greatest member.
LEMMA Greatest ==
    ASSUME NEW n \in Nat, NEW S, S \subseteq 1..n, S # {}
    PROVE  Max(S) \in S /\ \A y \in S : Max(S) >= y
  <1> DEFINE T == {n - x : x \in S}
  <1>1. T \subseteq Nat /\ T # {}
    <2>1. \A x \in S : n - x \in Nat
      OBVIOUS
    <2> QED BY <2>1
  <1>2. PICK m \in T : \A k \in T : m <= k
    BY <1>1, Least
  <1>3. PICK x \in S : m = n - x
    OBVIOUS
  <1>4. \A y \in S : x >= y
    <2> SUFFICES ASSUME NEW y \in S PROVE x >= y
      OBVIOUS
    <2>1. m <= n - y
      BY <1>2
    <2>2. x \in 1..n /\ y \in 1..n
      OBVIOUS
    <2> QED BY <1>3, <2>1, <2>2
  <1>5. \E z \in S : \A y \in S : z >= y
    BY <1>4
  <1> QED BY <1>5 DEF Max

-----------------------------------------------------------------------------
(* What FoldLeft computes. *)

\* The recursion by which FoldLeft(UpdateLast, ms, q) is defined, on the
\* subsets of S.
FoldStep(f, ms, q, s) ==
    IF s = {} THEN ms
    ELSE LET x == Max(s) IN UpdateLast(f[s \ {x}], q[x])

FoldsTo(f, ms, q, S) == f = [s \in SUBSET S |-> FoldStep(f, ms, q, s)]

Folded(ms, q) == CHOOSE f : FoldsTo(f, ms, q, DOMAIN q)

LEMMA RenderedIsFolded ==
    ASSUME NEW ms, NEW q
    PROVE  Rendered(ms, q) = Folded(ms, q)[DOMAIN q]
  BY Zenon DEF Rendered, FoldLeft, MapThenFoldSet, Folded, FoldsTo, FoldStep

\* The recursion has a solution.
LEMMA FoldExists ==
    ASSUME NEW ms, NEW q, NEW N \in Nat
    PROVE  \E f : FoldsTo(f, ms, q, 1..N)
  <1> DEFINE T == {m \in 0..N : ~ \E f : FoldsTo(f, ms, q, 1..m)}
  <1>1. SUFFICES ASSUME T # {} PROVE FALSE
    OBVIOUS
  <1>2. PICK m \in T : \A j \in T : m <= j
    <2>1. T \subseteq Nat
      OBVIOUS
    <2> HIDE DEF T
    <2> QED BY <1>1, <2>1, Least
  <1>m. m \in 0..N /\ ~ \E f : FoldsTo(f, ms, q, 1..m)
    BY <1>2
  <1>3. m # 0
    <2> DEFINE f == [s \in SUBSET (1..0) |-> ms]
    <2>1. \A s \in SUBSET (1..0) : s = {}
      OBVIOUS
    <2>2. FoldsTo(f, ms, q, 1..0)
      BY <2>1 DEF FoldsTo, FoldStep
    <2> QED BY <1>m, <2>2
  <1>4. m - 1 \in 0..N /\ m - 1 < m
    BY <1>m, <1>3
  <1>5. m - 1 \notin T
    <2> HIDE DEF T
    <2>1. m - 1 \in T => m <= m - 1
      BY <1>2
    <2> QED BY <1>m, <1>4, <2>1
  <1>6. PICK f : FoldsTo(f, ms, q, 1..(m - 1))
    BY <1>4, <1>5
  <1> HIDE DEF T
  <1> DEFINE g == [s \in SUBSET (1..m) |-> FoldStep(f, ms, q, s)]
  <1>7. ASSUME NEW s \in SUBSET (1..(m - 1)) PROVE g[s] = f[s]
    <2>1. s \in SUBSET (1..m)
      BY <1>m
    <2>2. g[s] = FoldStep(f, ms, q, s)
      BY <2>1
    <2>3. f[s] = FoldStep(f, ms, q, s)
      BY <1>6 DEF FoldsTo
    <2> QED BY <2>2, <2>3
  <1>8. ASSUME NEW s \in SUBSET (1..m), s # {}
        PROVE  s \ {Max(s)} \in SUBSET (1..(m - 1))
    <2>1. m \in Nat
      BY <1>m
    <2>4. Max(s) \in s /\ \A y \in s : Max(s) >= y
      BY <1>8, <2>1, Greatest
    <2>2. \A y \in s : y \in 1..m
      OBVIOUS
    <2>3. ASSUME NEW y \in s, y # Max(s) PROVE y \in 1..(m - 1)
      <3>1. y \in 1..m /\ Max(s) \in 1..m /\ Max(s) >= y
        BY <2>2, <2>4
      <3> QED BY <2>1, <2>3, <3>1
    <2> QED BY <2>3
  <1> HIDE DEF g
  <1>9. ASSUME NEW s \in SUBSET (1..m) PROVE FoldStep(g, ms, q, s) = FoldStep(f, ms, q, s)
    <2>1. CASE s = {}
      BY <2>1 DEF FoldStep
    <2>2. CASE s # {}
      <3>1. g[s \ {Max(s)}] = f[s \ {Max(s)}]
        BY <1>7, <1>8, <2>2
      <3> QED BY <2>2, <3>1 DEF FoldStep
    <2> QED BY <2>1, <2>2
  <1>10. g = [s \in SUBSET (1..m) |-> FoldStep(g, ms, q, s)]
    <2>1. g = [s \in SUBSET (1..m) |-> FoldStep(f, ms, q, s)]
      BY DEF g
    <2> QED BY <1>9, <2>1
  <1>11. FoldsTo(g, ms, q, 1..m)
    BY <1>10 DEF FoldsTo
  <1> QED BY <1>m, <1>11

\* What Render shows: the results after 0, 1, 2 ... updaters.
LEMMA RenderedSteps ==
    ASSUME NEW ms, NEW D, NEW q \in Seq(D)
    PROVE  \E h : /\ h[0] = ms
                  /\ \A n \in 1..Len(q) : h[n] = UpdateLast(h[n - 1], q[n])
                  /\ Rendered(ms, q) = h[Len(q)]
  <1> DEFINE N == Len(q)
             f == Folded(ms, q)
  <1>n. N \in Nat /\ DOMAIN q = 1..N
    OBVIOUS
  <1>1. FoldsTo(f, ms, q, 1..N)
    BY <1>n, FoldExists DEF Folded
  <1>2. Rendered(ms, q) = f[1..N]
    BY <1>n, RenderedIsFolded
  <1> HIDE DEF f, N
  <1> DEFINE h == [k \in 0..N |-> f[1..k]]
  <1>3. ASSUME NEW k \in 0..N
        PROVE  h[k] = FoldStep(f, ms, q, 1..k)
    <2>1. 1..k \in SUBSET (1..N)
      BY <1>n
    <2> QED BY <1>1, <2>1 DEF FoldsTo
  <1>4. h[0] = ms
    <2>1. 1..0 = {} /\ 0 \in 0..N
      BY <1>n
    <2>2. h[0] = FoldStep(f, ms, q, 1..0)
      BY <1>3, <2>1
    <2> QED BY <2>1, <2>2 DEF FoldStep
  <1>5. ASSUME NEW k \in 1..N PROVE h[k] = UpdateLast(h[k - 1], q[k])
    <2>1. k \in Nat /\ k \in 1..k /\ k - 1 \in 0..N /\ k \in 0..N
      BY <1>n
    <2>2. Max(1..k) = k
      <3>1. Max(1..k) \in 1..k /\ \A y \in 1..k : Max(1..k) >= y
        <4>1. 1..k \subseteq 1..k /\ 1..k # {}
          BY <2>1
        <4> QED BY <2>1, <4>1, Greatest
      <3> QED BY <2>1, <3>1
    <2>3. (1..k) \ {k} = 1..(k - 1)
      BY <2>1
    <2>4. h[k - 1] = f[1..(k - 1)]
      BY <2>1
    <2>5. 1..k # {}
      BY <2>1
    <2>6. FoldStep(f, ms, q, 1..k) = UpdateLast(f[(1..k) \ {Max(1..k)}], q[Max(1..k)])
      BY <2>5 DEF FoldStep
    <2>7. h[k] = FoldStep(f, ms, q, 1..k)
      BY <1>3, <2>1
    <2> HIDE DEF h
    <2> QED BY <2>2, <2>3, <2>4, <2>6, <2>7
  <1>6. h[N] = f[1..N]
    BY <1>n
  <1> HIDE DEF h
  <1>7. Rendered(ms, q) = h[N]
    BY <1>2, <1>6
  <1> QED BY <1>4, <1>5, <1>7 DEF N

\* Induction up to a bound, for a set of numbers.
LEMMA UpTo ==
    ASSUME NEW N \in Nat, NEW G, 0 \in G, \A n \in 1..N : n - 1 \in G => n \in G
    PROVE  \A n \in 0..N : n \in G
  <1> DEFINE T == {n \in 0..N : n \notin G}
  <1>1. ASSUME NEW n \in T, \A m \in T : n <= m PROVE FALSE
    <2>1. n \in 0..N /\ n \notin G /\ n # 0
      OBVIOUS
    <2>2. n \in 1..N /\ n - 1 \in 0..N
      BY <2>1
    <2>3. n - 1 \notin T
      <3> HIDE DEF T
      <3>1. n - 1 \in T => n <= n - 1
        BY <1>1
      <3> QED BY <2>2, <3>1
    <2> QED BY <2>1, <2>2, <2>3
  <1>2. T \subseteq Nat
    OBVIOUS
  <1>3. T = {}
    <2> HIDE DEF T
    <2> QED BY <1>1, <1>2, Least
  <1> QED BY <1>3

\* What every updater of a queue keeps, the queue keeps.
LEMMA RenderedKeeps ==
    ASSUME NEW ms, NEW D, NEW q \in Seq(D), NEW G, ms \in G,
           \A x \in G : \A n \in 1..Len(q) : UpdateLast(x, q[n]) \in G
    PROVE  Rendered(ms, q) \in G
  <1>1. PICK h : /\ h[0] = ms
                 /\ \A n \in 1..Len(q) : h[n] = UpdateLast(h[n - 1], q[n])
                 /\ Rendered(ms, q) = h[Len(q)]
    BY RenderedSteps
  <1> DEFINE H == {n \in 0..Len(q) : h[n] \in G}
  <1>2. Len(q) \in Nat
    OBVIOUS
  <1>3. 0 \in H
    BY <1>1, <1>2
  <1>4. \A n \in 1..Len(q) : n - 1 \in H => n \in H
    BY <1>1, <1>2
  <1>5. \A n \in 0..Len(q) : n \in H
    <2> HIDE DEF H
    <2> QED BY <1>2, <1>3, <1>4, UpTo
  <1> QED BY <1>1, <1>2, <1>5

LEMMA RenderedEmpty ==
    ASSUME NEW ms
    PROVE  Rendered(ms, <<>>) = ms
  <1>1. <<>> \in Seq({}) /\ Len(<<>>) = 0
    OBVIOUS
  <1> QED BY <1>1, RenderedSteps

\* Queues that do the same one by one do the same together; one more updater
\* is applied to what the others have made.
LEMMA RenderedAgree ==
    ASSUME NEW ms, NEW D, NEW q \in Seq(D), NEW p \in Seq(D), Len(q) <= Len(p),
           \A n \in 1..Len(q) : \A x : UpdateLast(x, p[n]) = UpdateLast(x, q[n])
    PROVE  /\ Len(p) = Len(q) => Rendered(ms, p) = Rendered(ms, q)
           /\ Len(p) = Len(q) + 1 =>
                 Rendered(ms, p) = UpdateLast(Rendered(ms, q), p[Len(p)])
  <1>1. PICK h : /\ h[0] = ms
                 /\ \A n \in 1..Len(q) : h[n] = UpdateLast(h[n - 1], q[n])
                 /\ Rendered(ms, q) = h[Len(q)]
    BY RenderedSteps
  <1>2. PICK g : /\ g[0] = ms
                 /\ \A n \in 1..Len(p) : g[n] = UpdateLast(g[n - 1], p[n])
                 /\ Rendered(ms, p) = g[Len(p)]
    BY RenderedSteps
  <1> DEFINE H == {n \in 0..Len(q) : h[n] = g[n]}
  <1>3. Len(q) \in Nat /\ Len(p) \in Nat
    OBVIOUS
  <1>4. 0 \in H
    BY <1>1, <1>2, <1>3
  <1>5. ASSUME NEW n \in 1..Len(q), n - 1 \in H PROVE n \in H
    <2>1. n \in 1..Len(p) /\ n \in 0..Len(q)
      BY <1>3
    <2>2. g[n] = UpdateLast(g[n - 1], p[n]) /\ h[n] = UpdateLast(h[n - 1], q[n])
      BY <1>1, <1>2, <2>1
    <2>3. h[n - 1] = g[n - 1]
      BY <1>5
    <2> QED BY <2>1, <2>2, <2>3
  <1>6. \A n \in 0..Len(q) : n \in H
    <2> HIDE DEF H
    <2> QED BY <1>3, <1>4, <1>5, UpTo
  <1>7. h[Len(q)] = g[Len(q)]
    BY <1>3, <1>6
  <1>8. ASSUME Len(p) = Len(q) + 1
        PROVE  g[Len(p)] = UpdateLast(g[Len(q)], p[Len(p)])
    <2>1. Len(p) \in 1..Len(p) /\ Len(p) - 1 = Len(q)
      BY <1>3, <1>8
    <2> QED BY <1>2, <2>1
  <1> QED BY <1>1, <1>2, <1>7, <1>8

-----------------------------------------------------------------------------
(* Requests and their generation. *)

Stages == {"none", "headers", "open", "silent", "plain", "over"}

RequestSet == [at: Stages, fresh: BOOLEAN, live: BOOLEAN,
               reasoning: 0..MaxChunks, content: 0..MaxChunks]

NetTypes ==
    /\ source \in Requests \cup {None} /\ aborter \in Requests \cup {None}
    /\ req \in [Requests -> RequestSet] /\ requesting \in BOOLEAN

UnderWay == {"headers", "open", "silent", "plain"}

\* At most one request is of the current generation; it is the source or the
\* one that can be aborted as soon as it has got that far, and nothing else
\* is.  The chat counts as requesting exactly while there is one.
NetInv ==
    /\ \A r \in Requests : req[r].fresh => req[r].at \in UnderWay
    /\ \A r, s \in Requests : req[r].fresh /\ req[s].fresh => r = s
    /\ source # None => req[source].fresh /\ req[source].at \in {"open", "silent"}
    /\ aborter # None => req[aborter].fresh /\ req[aborter].at = "plain"
    /\ \A r \in Requests : req[r].fresh /\ req[r].at \in {"open", "silent"} => source = r
    /\ \A r \in Requests : req[r].fresh /\ req[r].at = "plain" => aborter = r
    /\ requesting <=> \E r \in Requests : req[r].fresh

NetGood == NetTypes /\ NetInv /\ OneStream

\* Requests that the step leaves as they are.
Calm == UNCHANGED <<net, requesting>>

\* Every generation is left.
Leaves ==
    /\ req' = Superseded /\ source' = None /\ aborter' = None
    /\ requesting' = FALSE

Sends(r) ==
    /\ r \in Free /\ (SendStream(r) \/ SendPlain(r)) /\ requesting' = TRUE

NetChanges(r) ==
    \/ HeadersBack(r) \/ HeadersFail(r) \/ ResponseBack(r) \/ StreamGoesSilent(r)
    \/ \E type \in Types, k \in 1..MaxChunks : ChunkBack(r, type, k)
    \/ \E kind \in {"finish", "error"} : StreamEnds(r, kind)

\* The next request is one that was not used yet.
LEMMA NextFree ==
    ASSUME Free # {}
    PROVE  NextRequest \in Free
  <1>1. Free \subseteq Nat
    BY PlaygroundAssumption DEF Free, Requests
  <1>2. \E r \in Free : \A s \in Free : r <= s
    BY <1>1, Least
  <1> QED BY <1>2 DEF NextRequest


\* What a step does to the requests.
LEMMA NetEffects ==
    ASSUME Next
    PROVE  \/ Calm \/ Leaves
           \/ \E r \in Requests : Sends(r)
           \/ \E r \in Requests : NetChanges(r)
  <1>1. CASE SendMessage
    BY <1>1, NextFree DEF SendMessage, SendChat, Sends, Free
  <1>2. ASSUME NEW i, RegenerateMessage(i) \/ SubmitEdit(i)
        PROVE  \E r \in Requests : Sends(r)
    BY <1>2, NextFree DEF RegenerateMessage, SubmitEdit, SendChat, Sends, Free
  <1>3. CASE StopGeneration \/ Unmount \/ Reload
    BY <1>3 DEF StopGeneration, Stopped, Unmount, Reload, Fresh, Leaves
  <1>4. CASE ClearMessages \/ CancelEdit \/ Render \/ Flush \/ Load \/ Save
    BY <1>4 DEF ClearMessages, CancelEdit, Render, Flush, Load, Save, Click, Calm, net, page
  <1>5. ASSUME NEW i, EditMessage(i) \/ SaveEdit(i) \/ DeleteMessage(i) PROVE Calm
    BY <1>5 DEF EditMessage, SaveEdit, DeleteMessage, Click, Calm, net
  <1>6. ASSUME NEW r \in Requests, NetStep(r) \/ StreamGoesSilent(r) PROVE NetChanges(r)
    BY <1>6 DEF NetStep, NetChanges
  <1> QED BY <1>1, <1>2, <1>3, <1>4, <1>5, <1>6 DEF Next, UserStep, SystemStep

\* Superseded in its parts.
LEMMA SupersededFields ==
    ASSUME NetTypes
    PROVE  /\ Superseded \in [Requests -> RequestSet]
           /\ \A r \in Requests : /\ Superseded[r].at = req[r].at
                                  /\ ~Superseded[r].fresh
                                  /\ Superseded[r].live <=>
                                       req[r].live /\ r \notin {source, aborter}
  BY DEF NetTypes, Superseded, RequestSet

LEMMA NoRequestFields ==
    /\ NoRequest \in RequestSet /\ NoRequest.at = "none"
    /\ ~NoRequest.fresh /\ ~NoRequest.live
  BY PlaygroundAssumption DEF NoRequest, RequestSet, Stages

LEMMA NetLeaves ==
    ASSUME NetGood, Leaves
    PROVE  NetGood'
  <1>1. NetTypes' /\ \A r \in Requests : ~req'[r].fresh /\ ~req'[r].live
    BY SupersededFields DEF NetGood, NetTypes, Leaves, OneStream
  <1> QED BY <1>1 DEF NetGood, NetInv, OneStream, Leaves

LEMMA NetSends ==
    ASSUME NetGood, NEW r \in Requests, Sends(r)
    PROVE  NetGood'
  <1>n. None \notin Requests /\ r # None
    BY PlaygroundAssumption DEF None, Requests
  <1>1. CASE SendStream(r)
    <2> DEFINE new == [NoRequest EXCEPT !.at = "headers", !.fresh = TRUE]
    <2>1. new \in RequestSet /\ new.at = "headers" /\ new.fresh /\ ~new.live
      BY NoRequestFields DEF RequestSet, Stages
    <2>2. req' = [Superseded EXCEPT ![r] = new] /\ source' = None /\ aborter' = None
          /\ requesting' = TRUE
      BY <1>1 DEF SendStream, Sends
    <2> HIDE DEF new
    <2>3. /\ req' \in [Requests -> RequestSet] /\ req'[r] = new
          /\ \A s \in Requests \ {r} : ~req'[s].fresh /\ ~req'[s].live
      BY <2>1, <2>2, SupersededFields DEF NetGood, OneStream
    <2> QED BY <2>1, <2>2, <2>3 DEF NetGood, NetTypes, NetInv, OneStream, UnderWay
  <1>2. CASE SendPlain(r)
    <2> DEFINE new == [NoRequest EXCEPT !.at = "plain", !.fresh = TRUE, !.live = TRUE]
    <2>1. new \in RequestSet /\ new.at = "plain" /\ new.fresh /\ new.live
      BY NoRequestFields DEF RequestSet, Stages
    <2>2. req' = [Superseded EXCEPT ![r] = new] /\ source' = None /\ aborter' = r
          /\ requesting' = TRUE
      BY <1>2 DEF SendPlain, Sends
    <2> HIDE DEF new
    <2>3. /\ req' \in [Requests -> RequestSet] /\ req'[r] = new
          /\ \A s \in Requests \ {r} : ~req'[s].fresh /\ ~req'[s].live
      BY <2>1, <2>2, SupersededFields DEF NetGood, OneStream
    <2> QED BY <1>n, <2>1, <2>2, <2>3 DEF NetGood, NetTypes, NetInv, OneStream, UnderWay
  <1> QED BY <1>1, <1>2 DEF Sends

\* A record of req with another stage.
LEMMA OverFields ==
    ASSUME NetTypes, NEW r \in Requests
    PROVE  /\ Over(r) \in [Requests -> RequestSet]
           /\ ~Over(r)[r].fresh /\ ~Over(r)[r].live
           /\ \A s \in Requests \ {r} : Over(r)[s] = req[s]
  <1> DEFINE new == [NoRequest EXCEPT !.at = "over"]
  <1>1. new \in RequestSet /\ ~new.fresh /\ ~new.live
    BY NoRequestFields DEF RequestSet, Stages
  <1>2. Over(r) = [req EXCEPT ![r] = new]
    BY DEF Over
  <1> HIDE DEF new
  <1> QED BY <1>1, <1>2 DEF NetTypes

\* The end of a request whose generation has been left.
LEMMA NetOverUnheard ==
    ASSUME NetGood, NEW r \in Requests, ~req[r].fresh, req' = Over(r),
           UNCHANGED <<source, aborter, requesting>>
    PROVE  NetGood'
  <1>1. NetTypes'
    BY OverFields DEF NetGood, NetTypes
  <1>2. \A s \in Requests : s # r => req'[s] = req[s]
    BY OverFields DEF NetGood
  <1>3. ~req'[r].fresh /\ ~req'[r].live
    BY OverFields DEF NetGood
  <1>4. source # r /\ aborter # r
    BY PlaygroundAssumption DEF NetGood, NetInv, None, Requests
  <1>5. source # None => source \in Requests
    BY DEF NetGood, NetTypes
  <1>6. aborter # None => aborter \in Requests
    BY DEF NetGood, NetTypes
  <1> QED BY <1>1, <1>2, <1>3, <1>4, <1>5, <1>6 DEF NetGood, NetInv, OneStream

\* The end of the request of the current generation.
LEMMA NetOverHeard ==
    ASSUME NetGood, NEW r \in Requests, req[r].fresh, req' = Over(r),
           source' = None, aborter' = None, requesting' = FALSE
    PROVE  NetGood'
  <1>1. NetTypes'
    BY OverFields DEF NetGood, NetTypes
  <1>2. \A s \in Requests : ~req'[s].fresh /\ ~req'[s].live
    BY OverFields DEF NetGood, NetInv, OneStream
  <1> QED BY <1>1, <1>2 DEF NetGood, NetInv, OneStream

\* A chunk keeps the answer within its bound.
LEMMA ChunkLength ==
    ASSUME NEW r \in Requests, req[r] \in RequestSet, NEW type \in Types,
           NEW k \in 1..MaxChunks, ChunkBack(r, type, k)
    PROVE  /\ req[r][type] \in 0..MaxChunks /\ req[r][type] + k \in 0..MaxChunks
           /\ req[r][type] < req[r][type] + k
  <1>1. req[r].reasoning + req[r].content + k <= MaxChunks
    BY DEF ChunkBack
  <1>2. req[r].reasoning \in 0..MaxChunks /\ req[r].content \in 0..MaxChunks
    BY DEF RequestSet
  <1>3. req[r][type] \in {req[r].reasoning, req[r].content}
    BY DEF Types
  <1> QED BY <1>1, <1>2, <1>3, PlaygroundAssumption

LEMMA NetChange ==
    ASSUME NetGood, NEW r \in Requests, NetChanges(r)
    PROVE  NetGood'
  <1>n. None \notin Requests /\ r # None
    BY PlaygroundAssumption DEF None, Requests
  <1>s. source \in Requests \cup {None} /\ aborter \in Requests \cup {None}
    BY DEF NetGood, NetTypes
  <1>r. req \in [Requests -> RequestSet] /\ req[r] \in RequestSet
    BY DEF NetGood, NetTypes
  <1>f. /\ req[r].fresh /\ req[r].at # "plain" => aborter = None
        /\ req[r].fresh /\ req[r].at \notin {"open", "silent"} => source = None
    BY <1>s DEF NetGood, NetInv
  <1>1. CASE HeadersBack(r)
    <2>1. CASE req[r].fresh
      <3>1. /\ source' = r /\ aborter' = aborter /\ requesting' = requesting
            /\ req' = [req EXCEPT ![r].at = "open", ![r].live = TRUE]
            /\ aborter = None /\ source = None
        BY <1>1, <1>f, <2>1 DEF HeadersBack, AwaitsHeaders, page
      <3>2. /\ req' \in [Requests -> RequestSet]
            /\ \A s \in Requests : s # r => req'[s] = req[s]
            /\ req'[r].at = "open" /\ req'[r].live /\ req'[r].fresh
        BY <1>r, <2>1, <3>1 DEF RequestSet, Stages
      <3> QED BY <1>n, <2>1, <3>1, <3>2 DEF NetGood, NetTypes, NetInv, OneStream, UnderWay
    <2>2. CASE ~req[r].fresh
      BY <1>1, <2>2, NetOverUnheard DEF HeadersBack, AwaitsHeaders, page
    <2> QED BY <2>1, <2>2
  <1>2. CASE HeadersFail(r)
    <2>1. CASE req[r].fresh
      <3>1. source = None /\ aborter = None
        BY <1>2, <1>f, <2>1 DEF HeadersFail
      <3>2. req' = Over(r) /\ source' = None /\ aborter' = None /\ requesting' = FALSE
        BY <1>2, <2>1, <3>1 DEF HeadersFail, AwaitsHeaders, Finish
      <3> QED BY <2>1, <3>2, NetOverHeard
    <2>2. CASE ~req[r].fresh
      BY <1>2, <2>2, NetOverUnheard DEF HeadersFail, AwaitsHeaders, Unheard
    <2> QED BY <2>1, <2>2
  <1>3. CASE ResponseBack(r)
    <2>1. CASE req[r].fresh
      <3>1. source = None /\ aborter = r
        BY <1>3, <1>f, <2>1 DEF ResponseBack, NetGood, NetInv
      <3>2. req' = Over(r) /\ source' = None /\ aborter' = None /\ requesting' = FALSE
        BY <1>3, <2>1, <3>1 DEF ResponseBack, IsAwaited, Finish
      <3> QED BY <2>1, <3>2, NetOverHeard
    <2>2. CASE ~req[r].fresh
      BY <1>3, <2>2, NetOverUnheard DEF ResponseBack, IsAwaited, Unheard
    <2> QED BY <2>1, <2>2
  <1>4. CASE StreamGoesSilent(r)
    <2>1. /\ req' = [req EXCEPT ![r].at = "silent", ![r].live = FALSE]
          /\ UNCHANGED <<source, aborter, requesting>> /\ req[r].at = "open"
      BY <1>4 DEF StreamGoesSilent, page
    <2>2. /\ req' \in [Requests -> RequestSet]
          /\ \A s \in Requests : s # r => req'[s] = req[s]
          /\ req'[r].at = "silent" /\ ~req'[r].live /\ (req'[r].fresh <=> req[r].fresh)
      BY <1>r, <2>1 DEF RequestSet, Stages
    <2> QED BY <1>n, <1>s, <2>1, <2>2 DEF NetGood, NetTypes, NetInv, OneStream, UnderWay
  <1>5. ASSUME NEW type \in Types, NEW k \in 1..MaxChunks, ChunkBack(r, type, k)
        PROVE  NetGood'
    <2> DEFINE n == req[r][type] + k
    <2>1. /\ req' = [req EXCEPT ![r][type] = n]
          /\ UNCHANGED <<source, aborter, requesting>>
      BY <1>5 DEF ChunkBack
    <2>2. n \in 0..MaxChunks
      BY <1>5, <1>r, ChunkLength
    <2> HIDE DEF n
    <2>3. [req[r] EXCEPT ![type] = n] \in RequestSet
      BY <1>r, <2>2 DEF RequestSet, Types
    <2>4. /\ req' \in [Requests -> RequestSet]
          /\ \A s \in Requests : s # r => req'[s] = req[s]
          /\ req'[r].at = req[r].at /\ req'[r].live = req[r].live
          /\ req'[r].fresh = req[r].fresh
      BY <1>r, <2>1, <2>3 DEF RequestSet, Types
    <2> QED BY <1>n, <1>s, <2>1, <2>4 DEF NetGood, NetTypes, NetInv, OneStream, UnderWay
  <1>6. ASSUME NEW kind \in {"finish", "error"}, StreamEnds(r, kind)
        PROVE  NetGood'
    <2>1. CASE req[r].fresh
      <3>1. aborter = None /\ source = r
        BY <1>6, <1>f, <2>1 DEF StreamEnds, NetGood, NetInv
      <3>2. req' = Over(r) /\ source' = None /\ aborter' = None /\ requesting' = FALSE
        BY <1>6, <2>1, <3>1 DEF StreamEnds, IsCurrent, Finish
      <3> QED BY <2>1, <3>2, NetOverHeard
    <2>2. CASE ~req[r].fresh
      BY <1>6, <2>2, NetOverUnheard DEF StreamEnds, IsCurrent, Unheard
    <2> QED BY <2>1, <2>2
  <1> QED BY <1>1, <1>2, <1>3, <1>4, <1>5, <1>6 DEF NetChanges

LEMMA NetInit ==
    ASSUME Init
    PROVE  NetGood
  BY NoRequestFields DEF Init, NetGood, NetTypes, NetInv, OneStream, NoRequest

LEMMA NetStepGood ==
    ASSUME NetGood, [Next]_vars
    PROVE  NetGood'
  <1>1. CASE Calm \/ UNCHANGED vars
    BY <1>1 DEF Calm, vars, net, page, NetGood, NetTypes, NetInv, OneStream
  <1>2. CASE Next
    BY <1>1, <1>2, NetEffects, NetLeaves, NetSends, NetChange
  <1> QED BY <1>1, <1>2

LEMMA NetHolds == Spec => []NetGood
  BY NetInit, NetStepGood, PTL DEF Spec

\* Whatever is stopped, superseded, reloaded or answered late, a request that
\* is open on the network is the one whose answer the page shows.
THEOREM OneStreamHolds == Spec => []OneStream
  <1>1. NetGood => OneStream
    BY DEF NetGood
  <1> QED BY <1>1, NetHolds, PTL

\* As long as the chat counts as generating, a request of the current
\* generation is under way.
THEOREM NeverStuck == Spec => []NotStuck
  <1>1. NetGood => NotStuck
    BY DEF NetGood, NetTypes, NetInv, NotStuck, Streaming, UnderWay
  <1> QED BY <1>1, NetHolds, PTL

-----------------------------------------------------------------------------
(* Conversations. *)

Statuses == {"none", "loading", "streaming", "complete", "error"}

MessageSet ==
    [key: Nat, from: {"user", "assistant"}, owner: Requests \cup {None},
     text: Texts, reasoning: Texts, status: Statuses]

ChunkSet == [reasoning: Texts, content: Texts]

UpdateSet ==
    [kind: {"flush", "finish", "error", "response", "stop"}, chunks: ChunkSet,
     req: Requests \cup {None}, sure: BOOLEAN]

\* n is m with another text, reasoning or status.
Like(n, m) ==
    n \in MessageSet /\ n.key = m.key /\ n.from = m.from /\ n.owner = m.owner

\* A conversation whose keys are at most k.
Conv(ms, k) ==
    /\ ms \in Seq(MessageSet)
    /\ \A i \in 1..Len(ms) : /\ ms[i].key <= k
                             /\ Pending(ms[i]) => ms[i].from = "assistant"
    /\ \A i, j \in 1..Len(ms) : ms[i].key = ms[j].key => i = j

LEMMA MessagesAre == Messages = Seq(MessageSet)
  BY DEF Messages, MessageSet, Statuses

LEMMA MessageFields ==
    ASSUME NEW m \in MessageSet
    PROVE  /\ m.key \in Nat /\ m.from \in {"user", "assistant"}
           /\ m.owner \in Requests \cup {None}
           /\ m.text \in Texts /\ m.reasoning \in Texts /\ m.status \in Statuses
  BY DEF MessageSet

LEMMA UpdateFields ==
    ASSUME NEW u \in UpdateSet
    PROVE  /\ u.kind \in {"flush", "finish", "error", "response", "stop"}
           /\ u.chunks \in ChunkSet /\ u.chunks.reasoning \in Texts
           /\ u.chunks.content \in Texts /\ u.req \in Requests \cup {None}
           /\ u.sure \in BOOLEAN
  BY DEF UpdateSet, ChunkSet

\* Tokens and texts.
TokenSet == [req: Requests \cup {None}, type: Types, n: Nat]

LEMMA TextsAre == Texts = Seq(TokenSet)
  BY DEF Texts, TokenSet

LEMMA AnswerText ==
    ASSUME NEW r \in Requests \cup {None}, NEW type \in Types, NEW n \in Nat
    PROVE  /\ Answer(r, type, n) \in Texts /\ Len(Answer(r, type, n)) = n
           /\ \A i \in 1..n : Answer(r, type, n)[i] = Token(r, type, i)
  <1>1. \A i \in Nat : Token(r, type, i) \in TokenSet
    BY DEF Token, TokenSet
  <1>2. n - 0 = n /\ \A i \in 1..n : 0 + i = i
    OBVIOUS
  <1>3. /\ Answer(r, type, n) \in [1..n -> TokenSet]
        /\ \A i \in 1..n : Answer(r, type, n)[i] = Token(r, type, i)
    BY <1>1, <1>2 DEF Answer, Tokens
  <1> QED BY <1>3, TextsAre

\* A run of tokens, and nothing else, is in order.
LEMMA TokensText ==
    ASSUME NEW r \in Requests, NEW type \in Types, NEW a \in Nat, NEW b \in Nat, a <= b
    PROVE  /\ Tokens(r, type, a, b) \in Texts /\ Len(Tokens(r, type, a, b)) = b - a
           /\ \A i \in 1..(b - a) : Tokens(r, type, a, b)[i] = Token(r, type, a + i)
           /\ Ordered(r, type, Tokens(r, type, a, b), a, b)
  <1> DEFINE s == Tokens(r, type, a, b)
  <1>1. \A i \in 1..(b - a) : Token(r, type, a + i) \in TokenSet /\ Token(r, type, a + i).n = a + i
    BY DEF Token, TokenSet
  <1>2. b - a \in Nat
    OBVIOUS
  <1>3. s \in [1..(b - a) -> TokenSet] /\ \A i \in 1..(b - a) : s[i] = Token(r, type, a + i)
    BY <1>1 DEF Tokens
  <1>4. s \in Texts /\ Len(s) = b - a
    BY <1>2, <1>3, TextsAre
  <1> HIDE DEF s
  <1>5. \A i \in 1..(b - a) : s[i].n = a + i /\ s[i] = Token(r, type, s[i].n)
    BY <1>1, <1>3
  <1>6. Ordered(r, type, s, a, b)
    BY <1>4, <1>5 DEF Ordered
  <1> QED BY <1>3, <1>4, <1>6 DEF s

LEMMA FixedTexts ==
    Prompt \in Texts /\ Edited \in Texts /\ ErrorText \in Texts /\ <<>> \in Texts
  <1>1. \A n \in Nat : Token(None, "content", n) \in TokenSet
    BY DEF Token, TokenSet, Types
  <1> QED BY <1>1, TextsAre DEF Prompt, Edited, ErrorText

LEMMA ChunkTexts ==
    ASSUME NEW a \in Texts, NEW b \in Texts
    PROVE  a \o AppendableChunk(a, b) \in Texts /\ MergeChunk(a, b) \in Texts
  <1>1. a \in Seq(TokenSet) /\ b \in Seq(TokenSet)
    BY TextsAre
  <1>2. SubSeq(b, Len(a) + 1, Len(b)) \in Seq(TokenSet)
    BY <1>1
  <1>3. AppendableChunk(a, b) \in Seq(TokenSet)
    BY <1>1, <1>2 DEF AppendableChunk
  <1> QED BY <1>1, <1>3, TextsAre DEF MergeChunk

\* What an updater makes of a message.
LEMMA UpdatedLike ==
    ASSUME NEW m \in MessageSet, NEW u \in UpdateSet
    PROVE  /\ Like(UpdatedMessage(m, u), m)
           /\ u.kind = "flush" =>
                 Pending(UpdatedMessage(m, u)) \/ UpdatedMessage(m, u).status = "error"
           /\ u.kind \in {"finish", "error", "response"} => Final(UpdatedMessage(m, u))
           /\ u.kind = "stop" => ~Pending(UpdatedMessage(m, u))
  <1>m. /\ m.key \in Nat /\ m.from \in {"user", "assistant"}
        /\ m.owner \in Requests \cup {None}
        /\ m.text \in Texts /\ m.reasoning \in Texts /\ m.status \in Statuses
    BY MessageFields
  <1>u. /\ u.kind \in {"flush", "finish", "error", "response", "stop"}
        /\ u.chunks.reasoning \in Texts /\ u.chunks.content \in Texts
        /\ u.req \in Requests \cup {None}
    BY UpdateFields
  <1>1. CASE u.kind = "flush"
    <2>1. UpdatedMessage(m, u) = ApplyChunks(m, u.chunks)
      BY <1>1 DEF UpdatedMessage
    <2>2. /\ m.reasoning \o AppendableChunk(m.reasoning, u.chunks.reasoning) \in Texts
          /\ m.text \o AppendableChunk(m.text, u.chunks.content) \in Texts
      BY <1>m, <1>u, ChunkTexts
    <2>3. Like(ApplyChunks(m, u.chunks), m) /\ ApplyChunks(m, u.chunks).status \in {"error", "streaming"}
      BY <1>m, <2>2 DEF ApplyChunks, Like, MessageSet, Statuses
    <2> QED BY <1>1, <2>1, <2>3 DEF Pending
  <1>2. CASE u.kind = "finish"
    <2>1. UpdatedMessage(m, u) = IF Final(m) THEN m ELSE Complete(m)
      BY <1>2 DEF UpdatedMessage
    <2> QED BY <1>2, <1>m, <2>1 DEF Complete, Final, Like, MessageSet, Statuses
  <1>3. CASE u.kind = "error"
    <2>1. UpdatedMessage(m, u) = Failed(m)
      BY <1>3 DEF UpdatedMessage
    <2> QED BY <1>3, <1>m, <2>1, FixedTexts DEF Failed, Final, Like, MessageSet, Statuses
  <1>4. CASE u.kind = "response"
    <2>1. UpdatedMessage(m, u) = ApplyResponse(m, u.req)
      BY <1>4 DEF UpdatedMessage
    <2>2. Answer(u.req, "content", MaxChunks) \in Texts
      BY <1>u, PlaygroundAssumption, AnswerText DEF Types
    <2> QED BY <1>4, <1>m, <2>1, <2>2 DEF ApplyResponse, Final, Like, MessageSet, Statuses
  <1>5. CASE u.kind = "stop"
    <2>1. UpdatedMessage(m, u) = IF Pending(m) THEN Complete(m) ELSE m
      BY <1>5 DEF UpdatedMessage
    <2> QED BY <1>5, <1>m, <2>1 DEF Complete, Pending, Like, MessageSet, Statuses
  <1> QED BY <1>u, <1>1, <1>2, <1>3, <1>4, <1>5

\* An updater touches the last message only, and only an assistant's.
LEMMA UpdateLastLike ==
    ASSUME NEW ms \in Seq(MessageSet), NEW u \in UpdateSet
    PROVE  /\ UpdateLast(ms, u) \in Seq(MessageSet) /\ Len(UpdateLast(ms, u)) = Len(ms)
           /\ \A i \in 1..Len(ms) : i # Len(ms) => UpdateLast(ms, u)[i] = ms[i]
           /\ ms # <<>> => Like(Last(UpdateLast(ms, u)), Last(ms))
           /\ ms # <<>> /\ Last(ms).from = "assistant" =>
                 Last(UpdateLast(ms, u)) = UpdatedMessage(Last(ms), u)
           /\ ms = <<>> \/ Last(ms).from # "assistant" => UpdateLast(ms, u) = ms
  <1>1. CASE ms = <<>>
    BY <1>1 DEF UpdateLast
  <1>2. CASE ms # <<>>
    <2>1. Len(ms) \in Nat /\ Len(ms) \in 1..Len(ms)
      BY <1>2
    <2>2. Last(ms) \in MessageSet /\ Last(ms) = ms[Len(ms)]
      BY <2>1 DEF Last
    <2>3. CASE Last(ms).from # "assistant"
      BY <1>2, <2>1, <2>2, <2>3, MessageFields DEF UpdateLast, Like
    <2>4. CASE Last(ms).from = "assistant"
      <3> DEFINE n == UpdatedMessage(Last(ms), u)
      <3>1. UpdateLast(ms, u) = [ms EXCEPT ![Len(ms)] = n]
        BY <1>2, <2>4 DEF UpdateLast
      <3>2. n \in MessageSet /\ Like(n, Last(ms))
        BY <2>2, UpdatedLike DEF Like
      <3> HIDE DEF n
      <3>3. /\ UpdateLast(ms, u) \in Seq(MessageSet) /\ Len(UpdateLast(ms, u)) = Len(ms)
            /\ UpdateLast(ms, u)[Len(ms)] = n
            /\ \A i \in 1..Len(ms) : i # Len(ms) => UpdateLast(ms, u)[i] = ms[i]
        BY <2>1, <3>1, <3>2
      <3>4. Last(UpdateLast(ms, u)) = n
        BY <3>3 DEF Last
      <3> QED BY <1>2, <2>4, <3>2, <3>3, <3>4 DEF n
    <2> QED BY <2>3, <2>4
  <1> QED BY <1>1, <1>2

\* Some of the messages of ms, in their order.
Part(ns, ms) ==
    /\ ns \in Seq(MessageSet)
    /\ \E f : /\ \A i \in 1..Len(ns) : f[i] \in 1..Len(ms) /\ ns[i] = ms[f[i]]
              /\ \A i, j \in 1..Len(ns) : i < j => f[i] < f[j]

\* No message is pending; none but the last is.
Settled(ms) == \A i \in 1..Len(ms) : ~Pending(ms[i])
Tidy(ms) == \A i \in 1..Len(ms) : i # Len(ms) => ~Pending(ms[i])

LEMMA PartKeeps ==
    ASSUME NEW ms, NEW ns, NEW k, Part(ns, ms), Len(ms) \in Nat
    PROVE  /\ Conv(ms, k) => Conv(ns, k)
           /\ Settled(ms) => Settled(ns)
           /\ Tidy(ms) => Tidy(ns)
  <1>1. PICK f : /\ \A i \in 1..Len(ns) : f[i] \in 1..Len(ms) /\ ns[i] = ms[f[i]]
                 /\ \A i, j \in 1..Len(ns) : i < j => f[i] < f[j]
    BY DEF Part
  <1>2. ns \in Seq(MessageSet) /\ Len(ns) \in Nat
    BY DEF Part
  <1>3. ASSUME NEW i \in 1..Len(ns), NEW j \in 1..Len(ns), f[i] = f[j] PROVE i = j
    <2>1. f[i] \in Nat /\ f[j] \in Nat
      BY <1>1
    <2>2. ~(i < j) /\ ~(j < i)
      BY <1>1, <1>3, <2>1
    <2> QED BY <2>2, <1>2
  <1>4. Conv(ms, k) => Conv(ns, k)
    <2> SUFFICES ASSUME Conv(ms, k) PROVE Conv(ns, k)
      OBVIOUS
    <2>1. \A i \in 1..Len(ns) : /\ ns[i].key <= k
                                /\ Pending(ns[i]) => ns[i].from = "assistant"
      BY <1>1 DEF Conv
    <2>2. \A i, j \in 1..Len(ns) : ns[i].key = ns[j].key => f[i] = f[j]
      BY <1>1 DEF Conv
    <2> QED BY <1>2, <1>3, <2>1, <2>2 DEF Conv
  <1>5. Settled(ms) => Settled(ns)
    BY <1>1 DEF Settled
  <1>6. ASSUME Tidy(ms), NEW i \in 1..Len(ns), i # Len(ns) PROVE ~Pending(ns[i])
    <2>1. Len(ns) \in 1..Len(ns) /\ i < Len(ns)
      BY <1>2, <1>6
    <2>2. f[i] < f[Len(ns)] /\ f[Len(ns)] \in 1..Len(ms) /\ f[i] \in 1..Len(ms)
      BY <1>1, <2>1
    <2>3. f[i] # Len(ms)
      BY <2>2
    <2> QED BY <1>1, <1>6, <2>2, <2>3 DEF Tidy
  <1> QED BY <1>4, <1>5, <1>6 DEF Tidy

LEMMA PartSelf ==
    ASSUME NEW ms \in Seq(MessageSet)
    PROVE  Part(ms, ms) /\ Part(<<>>, ms)
  <1>1. Part(ms, ms)
    <2> DEFINE f == [i \in 1..Len(ms) |-> i]
    <2>1. /\ \A i \in 1..Len(ms) : f[i] \in 1..Len(ms) /\ ms[i] = ms[f[i]]
          /\ \A i, j \in 1..Len(ms) : i < j => f[i] < f[j]
      OBVIOUS
    <2> QED BY <2>1 DEF Part
  <1>2. <<>> \in Seq(MessageSet) /\ Len(<<>>) = 0
    OBVIOUS
  <1>3. 1..0 = {}
    OBVIOUS
  <1> QED BY <1>1, <1>2, <1>3 DEF Part

LEMMA PartSub ==
    ASSUME NEW ms \in Seq(MessageSet), NEW a \in 1..(Len(ms) + 1), NEW b \in 0..Len(ms),
           a <= b + 1
    PROVE  /\ Part(SubSeq(ms, a, b), ms) /\ Len(SubSeq(ms, a, b)) = b - a + 1
           /\ \A i \in 1..(b - a + 1) : SubSeq(ms, a, b)[i] = ms[a + i - 1]
  <1> DEFINE ns == SubSeq(ms, a, b)
             f == [i \in 1..(b - a + 1) |-> a + i - 1]
  <1>0. Len(ms) \in Nat /\ a \in Nat /\ b \in Nat
    OBVIOUS
  <1>1. \A i \in a..b : ms[i] \in MessageSet
    BY <1>0
  <1>2. ns = [i \in 1..(b - a + 1) |-> ms[a + i - 1]] /\ ns \in Seq(MessageSet)
        /\ Len(ns) = b - a + 1
    <2>1. ns \in Seq(MessageSet)
      BY <1>0
    <2>2. Len(ns) = b - a + 1 /\ \A i \in 1..(b - a + 1) : ns[i] = ms[a + i - 1]
      BY <1>0
    <2> QED BY <2>1, <2>2
  <1> HIDE DEF ns
  <1>3. \A i \in 1..Len(ns) : f[i] \in 1..Len(ms) /\ ns[i] = ms[f[i]]
    BY <1>0, <1>2
  <1>4. \A i, j \in 1..Len(ns) : i < j => f[i] < f[j]
    BY <1>0, <1>2
  <1>5. Part(ns, ms)
    BY <1>2, <1>3, <1>4 DEF Part
  <1>6. \A i \in 1..(b - a + 1) : ns[i] = ms[a + i - 1]
    BY <1>2
  <1> QED BY <1>2, <1>5, <1>6 DEF ns

LEMMA PartRemoved ==
    ASSUME NEW ms \in Seq(MessageSet), NEW k \in 1..Len(ms)
    PROVE  Part(RemoveAt(ms, k), ms)
  <1> DEFINE a == SubSeq(ms, 1, k - 1)
             b == SubSeq(ms, k + 1, Len(ms))
             n == Len(ms)
             ns == RemoveAt(ms, k)
             f == [i \in 1..(n - 1) |-> IF i < k THEN i ELSE i + 1]
  <1>0. n \in Nat /\ k \in Nat /\ k >= 1 /\ k <= n
    OBVIOUS
  <1>1. /\ Part(a, ms) /\ Len(a) = k - 1 /\ \A i \in 1..(k - 1) : a[i] = ms[i]
    <2>1. 1 \in 1..(Len(ms) + 1) /\ k - 1 \in 0..Len(ms) /\ 1 <= k - 1 + 1
      BY <1>0
    <2>2. /\ Part(a, ms) /\ Len(a) = k - 1 - 1 + 1
          /\ \A i \in 1..(k - 1 - 1 + 1) : a[i] = ms[1 + i - 1]
      BY <2>1, PartSub
    <2>3. k - 1 - 1 + 1 = k - 1 /\ \A i \in 1..(k - 1) : 1 + i - 1 = i
      BY <1>0
    <2> HIDE DEF a
    <2> QED BY <2>2, <2>3
  <1>2. /\ Part(b, ms) /\ Len(b) = n - k
        /\ \A i \in 1..(n - k) : b[i] = ms[k + i]
    <2>1. k + 1 \in 1..(Len(ms) + 1) /\ Len(ms) \in 0..Len(ms) /\ k + 1 <= Len(ms) + 1
      BY <1>0
    <2>2. /\ Part(b, ms) /\ Len(b) = Len(ms) - (k + 1) + 1
          /\ \A i \in 1..(Len(ms) - (k + 1) + 1) : b[i] = ms[k + 1 + i - 1]
      BY <2>1, PartSub
    <2>3. Len(ms) - (k + 1) + 1 = n - k /\ \A i \in 1..(n - k) : k + 1 + i - 1 = k + i
      BY <1>0
    <2> HIDE DEF b
    <2> QED BY <2>2, <2>3
  <1>3. ns = a \o b
    BY DEF RemoveAt
  <1>4. a \in Seq(MessageSet) /\ b \in Seq(MessageSet)
    BY <1>1, <1>2 DEF Part
  <1> HIDE DEF ns, a, b
  <1>5. /\ ns \in Seq(MessageSet) /\ Len(ns) = Len(a) + Len(b)
        /\ \A i \in 1..Len(a) : ns[i] = a[i]
        /\ \A i \in 1..(Len(a) + Len(b)) : i > Len(a) => ns[i] = b[i - Len(a)]
    BY <1>3, <1>4
  <1>6. Len(ns) = n - 1
    BY <1>0, <1>1, <1>2, <1>5
  <1> HIDE DEF n
  <1>7. ASSUME NEW i \in 1..Len(ns) PROVE f[i] \in 1..n /\ ns[i] = ms[f[i]]
    <2>0. i \in 1..(n - 1)
      BY <1>6
    <2>1. CASE i < k
      <3>1. i \in 1..(k - 1) /\ f[i] = i /\ i \in 1..n
        BY <1>0, <2>0, <2>1
      <3> QED BY <1>1, <1>5, <3>1
    <2>2. CASE ~(i < k)
      <3>1. /\ i > Len(a) /\ i \in 1..(Len(a) + Len(b)) /\ i - Len(a) \in 1..(n - k)
            /\ f[i] = i + 1 /\ i + 1 \in 1..n /\ k + (i - Len(a)) = i + 1
        BY <1>0, <1>1, <1>2, <2>0, <2>2
      <3> QED BY <1>2, <1>5, <3>1
    <2> QED BY <2>1, <2>2
  <1>8. \A i, j \in 1..Len(ns) : i < j => f[i] < f[j]
    BY <1>0, <1>6
  <1> QED BY <1>5, <1>7, <1>8 DEF Part, ns, n

\* A message more at the end.
LEMMA ConvAppend ==
    ASSUME NEW k \in Nat, NEW ms, Conv(ms, k), NEW m \in MessageSet, m.key = k + 1,
           Pending(m) => m.from = "assistant"
    PROVE  /\ Conv(Append(ms, m), k + 1)
           /\ Settled(ms) => Tidy(Append(ms, m))
           /\ Settled(ms) /\ ~Pending(m) => Settled(Append(ms, m))
           /\ Len(Append(ms, m)) = Len(ms) + 1 /\ Append(ms, m) # <<>>
           /\ Last(Append(ms, m)) = m
           /\ \A i \in 1..Len(ms) : Append(ms, m)[i] = ms[i]
  <1> DEFINE n == Len(ms)
             ns == Append(ms, m)
  <1>0. n \in Nat /\ ms \in Seq(MessageSet)
    BY DEF Conv
  <1>1. /\ ns \in Seq(MessageSet) /\ Len(ns) = n + 1 /\ ns[n + 1] = m
        /\ \A i \in 1..n : ns[i] = ms[i]
    BY <1>0
  <1>2. Last(ns) = m /\ ns # <<>>
    BY <1>0, <1>1 DEF Last
  <1> HIDE DEF ns
  <1>3. \A i \in 1..(n + 1) : i \in 1..n \/ i = n + 1
    BY <1>0
  <1>k. \A i \in 1..n : ms[i].key \in Nat /\ ms[i].key <= k
    BY <1>0, MessageFields DEF Conv
  <1>4. \A i \in 1..Len(ns) : /\ ns[i].key <= k + 1
                              /\ Pending(ns[i]) => ns[i].from = "assistant"
    BY <1>0, <1>1, <1>3, <1>k DEF Conv
  <1>5. ASSUME NEW i \in 1..Len(ns), NEW j \in 1..Len(ns), ns[i].key = ns[j].key
        PROVE  i = j
    <2>1. \A h \in 1..n : ns[h].key # k + 1
      BY <1>1, <1>k
    <2>2. CASE i \in 1..n /\ j \in 1..n
      BY <1>1, <1>5, <2>2 DEF Conv
    <2> QED BY <1>1, <1>3, <1>5, <2>1, <2>2
  <1>6. Conv(ns, k + 1)
    BY <1>1, <1>4, <1>5 DEF Conv
  <1>7. Settled(ms) => Tidy(ns)
    BY <1>1, <1>3 DEF Settled, Tidy
  <1>8. Settled(ms) /\ ~Pending(m) => Settled(ns)
    BY <1>1, <1>3 DEF Settled
  <1> QED BY <1>1, <1>2, <1>6, <1>7, <1>8 DEF ns

\* The same messages with other texts and statuses.
LEMMA ConvAlike ==
    ASSUME NEW k, NEW ms, Conv(ms, k), NEW ns \in Seq(MessageSet), Len(ns) = Len(ms),
           \A i \in 1..Len(ms) : /\ Like(ns[i], ms[i])
                                 /\ Pending(ns[i]) => Pending(ms[i]) \/ ms[i].from = "assistant"
    PROVE  Conv(ns, k)
  BY DEF Conv, Like

LEMMA ConvMore ==
    ASSUME NEW k \in Nat, NEW l \in Nat, k <= l, NEW ms, Conv(ms, k)
    PROVE  Conv(ms, l)
  <1>1. \A i \in 1..Len(ms) : ms[i].key \in Nat
    BY MessageFields DEF Conv
  <1> QED BY <1>1 DEF Conv

\* What an updater, and a queue of them, makes of a conversation.
LEMMA UpdateLastConv ==
    ASSUME NEW k, NEW ms, Conv(ms, k), NEW u \in UpdateSet
    PROVE  /\ Conv(UpdateLast(ms, u), k) /\ Len(UpdateLast(ms, u)) = Len(ms)
           /\ Tidy(ms) => Tidy(UpdateLast(ms, u))
           /\ \A i \in 1..Len(ms) : UpdateLast(ms, u)[i].key = ms[i].key
  <1> DEFINE ns == UpdateLast(ms, u)
  <1>0. ms \in Seq(MessageSet) /\ Len(ms) \in Nat
    BY DEF Conv
  <1>1. /\ ns \in Seq(MessageSet) /\ Len(ns) = Len(ms)
        /\ \A i \in 1..Len(ms) : i # Len(ms) => ns[i] = ms[i]
        /\ ms # <<>> => Like(Last(ns), Last(ms))
        /\ ms = <<>> \/ Last(ms).from # "assistant" => ns = ms
    BY <1>0, UpdateLastLike
  <1> HIDE DEF ns
  <1>2. \A i \in 1..Len(ms) : ms[i] \in MessageSet
    BY <1>0
  <1>3. \A i \in 1..Len(ms) : Like(ms[i], ms[i])
    BY <1>2 DEF Like
  <1>4. ms # <<>> => Last(ns) = ns[Len(ms)] /\ Last(ms) = ms[Len(ms)]
    BY <1>1 DEF Last
  <1>5. ASSUME NEW i \in 1..Len(ms)
        PROVE  /\ Like(ns[i], ms[i])
               /\ Pending(ns[i]) => Pending(ms[i]) \/ ms[i].from = "assistant"
    <2>1. ms # <<>>
      BY <1>0
    <2>2. CASE i # Len(ms)
      BY <1>1, <1>3, <2>2
    <2>3. CASE i = Len(ms)
      BY <1>1, <1>4, <2>1, <2>3
    <2> QED BY <2>2, <2>3
  <1>6. Conv(ns, k)
    BY <1>1, <1>5, ConvAlike
  <1>7. Tidy(ms) => Tidy(ns)
    BY <1>1 DEF Tidy
  <1>8. \A i \in 1..Len(ms) : ns[i].key = ms[i].key
    BY <1>5 DEF Like
  <1> QED BY <1>1, <1>6, <1>7, <1>8 DEF ns

LEMMA RenderedConv ==
    ASSUME NEW k, NEW ms, Conv(ms, k), NEW q \in Seq(UpdateSet)
    PROVE  /\ Conv(Rendered(ms, q), k) /\ Len(Rendered(ms, q)) = Len(ms)
           /\ Tidy(ms) => Tidy(Rendered(ms, q))
           /\ \A i \in 1..Len(ms) : i # Len(ms) => Rendered(ms, q)[i] = ms[i]
           /\ \A i \in 1..Len(ms) : Rendered(ms, q)[i].key = ms[i].key
  <1> DEFINE G == {x \in Seq(MessageSet) :
                     /\ Conv(x, k) /\ Len(x) = Len(ms) /\ (Tidy(ms) => Tidy(x))
                     /\ \A i \in 1..Len(ms) : i # Len(ms) => x[i] = ms[i]
                     /\ \A i \in 1..Len(ms) : x[i].key = ms[i].key}
  <1>1. ms \in G
    BY DEF Conv
  <1>2. ASSUME NEW x \in G, NEW n \in 1..Len(q) PROVE UpdateLast(x, q[n]) \in G
    <2>1. q[n] \in UpdateSet
      OBVIOUS
    <2>2. /\ x \in Seq(MessageSet) /\ Conv(x, k) /\ Len(x) = Len(ms)
          /\ (Tidy(ms) => Tidy(x))
          /\ \A i \in 1..Len(ms) : i # Len(ms) => x[i] = ms[i]
          /\ \A i \in 1..Len(ms) : x[i].key = ms[i].key
      OBVIOUS
    <2> DEFINE y == UpdateLast(x, q[n])
    <2>3. /\ y \in Seq(MessageSet) /\ \A i \in 1..Len(x) : i # Len(x) => y[i] = x[i]
      BY <2>1, <2>2, UpdateLastLike
    <2>4. /\ Conv(y, k) /\ Len(y) = Len(x) /\ (Tidy(x) => Tidy(y))
          /\ \A i \in 1..Len(x) : y[i].key = x[i].key
      BY <2>1, <2>2, UpdateLastConv
    <2> HIDE DEF y
    <2>5. y \in G
      BY <2>2, <2>3, <2>4
    <2> QED BY <2>5 DEF y
  <1>3. Rendered(ms, q) \in G
    <2> HIDE DEF G
    <2> QED BY <1>1, <1>2, RenderedKeeps
  <1> QED BY <1>3

\* What is saved is an end of the conversation.
LEMMA TrimmedPart ==
    ASSUME NEW ms \in Seq(MessageSet)
    PROVE  /\ Part(Trimmed(ms), ms) /\ Len(Trimmed(ms)) <= MaxStored
           /\ Len(ms) <= MaxStored => Trimmed(ms) = ms
  <1>0. Len(ms) \in Nat /\ MaxStored \in Nat /\ MaxStored > 0
    BY PlaygroundAssumption
  <1>1. CASE Len(ms) > MaxStored
    <2> DEFINE a == Len(ms) - MaxStored + 1
    <2>1. a \in 1..(Len(ms) + 1) /\ Len(ms) \in 0..Len(ms) /\ a <= Len(ms) + 1
          /\ Len(ms) - a + 1 = MaxStored
      BY <1>0, <1>1
    <2>2. Trimmed(ms) = SubSeq(ms, a, Len(ms))
      BY <1>1 DEF Trimmed
    <2> HIDE DEF a
    <2>3. Part(Trimmed(ms), ms) /\ Len(Trimmed(ms)) = Len(ms) - a + 1
      BY <2>1, <2>2, PartSub
    <2> QED BY <1>0, <1>1, <2>1, <2>3
  <1>2. CASE ~(Len(ms) > MaxStored)
    <2>1. Trimmed(ms) = SubSeq(ms, 1, Len(ms))
      BY <1>2 DEF Trimmed
    <2>2. SubSeq(ms, 1, Len(ms)) = ms
      <3>1. /\ 1 \in 1..(Len(ms) + 1) /\ Len(ms) \in 0..Len(ms) /\ 1 <= Len(ms) + 1
            /\ Len(ms) - 1 + 1 = Len(ms) /\ \A i \in 1..Len(ms) : 1 + i - 1 = i
        BY <1>0
      <3> DEFINE ns == SubSeq(ms, 1, Len(ms))
      <3>2. /\ Part(ns, ms) /\ Len(ns) = Len(ms) - 1 + 1
            /\ \A i \in 1..(Len(ms) - 1 + 1) : ns[i] = ms[1 + i - 1]
        BY <3>1, PartSub
      <3>3. ns \in Seq(MessageSet)
        BY <3>2 DEF Part
      <3> HIDE DEF ns
      <3>4. Len(ns) = Len(ms) /\ \A i \in 1..Len(ms) : ns[i] = ms[i]
        BY <3>1, <3>2
      <3>5. ns = ms
        BY <3>3, <3>4
      <3> QED BY <3>5 DEF ns
    <2>3. Trimmed(ms) = ms
      BY <2>1, <2>2
    <2>4. Part(ms, ms)
      BY PartSelf
    <2>5. Len(ms) <= MaxStored
      BY <1>0, <1>2
    <2> QED BY <2>3, <2>4, <2>5
  <1> QED BY <1>1, <1>2

LEMMA SizeTrimmedPart ==
    ASSUME NEW ms \in Seq(MessageSet)
    PROVE  Part(SizeTrimmed(ms), ms) /\ Len(SizeTrimmed(ms)) <= Len(ms)
  <1>1. CASE ms = <<>>
    <2>1. SizeTrimmed(ms) = ms
      BY <1>1 DEF SizeTrimmed
    <2>2. Part(ms, ms)
      BY PartSelf
    <2>3. Len(ms) <= Len(ms)
      OBVIOUS
    <2> QED BY <2>1, <2>2, <2>3
  <1>2. CASE ms # <<>>
    <2> DEFINE n == Len(ms)
               Tails == {SubSeq(ms, i, n) : i \in 1..n}
               Kept == {t \in Tails : Size(t) <= MaxChars \/ Len(t) = 1}
               Lens == {Len(t) : t \in Kept}
    <2>0. n \in Nat /\ n \in 1..n
      BY <1>2
    <2>1. ASSUME NEW i \in 1..n
          PROVE  /\ Part(SubSeq(ms, i, n), ms) /\ Len(SubSeq(ms, i, n)) = n - i + 1
                 /\ n - i + 1 \in 1..n
      <3>1. i \in 1..(n + 1) /\ n \in 0..n /\ i <= n + 1 /\ n - i + 1 \in 1..n
        BY <2>0
      <3> HIDE DEF n
      <3>2. Part(SubSeq(ms, i, n), ms) /\ Len(SubSeq(ms, i, n)) = n - i + 1
        BY <3>1, PartSub DEF n
      <3> QED BY <3>1, <3>2
    <2>2. \A t \in Tails : Part(t, ms) /\ Len(t) \in 1..n
      BY <2>1
    <2>3. SubSeq(ms, n, n) \in Kept
      <3>1. SubSeq(ms, n, n) \in Tails
        BY <2>0
      <3>2. Len(SubSeq(ms, n, n)) = 1
        BY <2>0, <2>1
      <3> QED BY <3>1, <3>2
    <2>s. SizeTrimmed(ms) = CHOOSE t \in Kept : \A u \in Kept : Len(u) <= Len(t)
      BY <1>2, Zenon DEF SizeTrimmed
    <2>4. \A t \in Kept : t \in Tails
      OBVIOUS
    <2> HIDE DEF Tails, Kept, n
    <2>5. Lens \subseteq 1..n /\ Lens # {}
      BY <2>2, <2>3, <2>4
    <2>6. Max(Lens) \in Lens /\ \A y \in Lens : Max(Lens) >= y
      BY <2>0, <2>5, Greatest
    <2>7. PICK t \in Kept : Len(t) = Max(Lens)
      BY <2>6
    <2>8. \A u \in Kept : Len(u) <= Len(t)
      <3> SUFFICES ASSUME NEW u \in Kept PROVE Len(u) <= Len(t)
        OBVIOUS
      <3>1. Len(u) \in Lens /\ Max(Lens) >= Len(u)
        BY <2>6
      <3>2. Len(u) \in 1..n /\ Len(t) \in 1..n
        BY <2>2, <2>4
      <3> HIDE DEF Lens
      <3> QED BY <2>0, <2>7, <3>1, <3>2
    <2>9. SizeTrimmed(ms) \in Kept
      BY <2>s, <2>8
    <2>10. Part(SizeTrimmed(ms), ms) /\ Len(SizeTrimmed(ms)) \in 1..n
      BY <2>2, <2>4, <2>9
    <2> QED BY <2>0, <2>10 DEF n
  <1> QED BY <1>1, <1>2

\* What a load makes of the messages one by one.
LEMMA NormalizedAll ==
    ASSUME NEW k, NEW ms, Conv(ms, k)
    PROVE  LET ns == [i \in 1..Len(ms) |-> Normalized(ms[i])] IN
           /\ Conv(ns, k) /\ Len(ns) = Len(ms)
           /\ \A i \in 1..Len(ms) : ns[i] = Normalized(ms[i])
           /\ Tidy(ms) => Tidy(ns)
  <1> DEFINE ns == [i \in 1..Len(ms) |-> Normalized(ms[i])]
  <1>0. ms \in Seq(MessageSet) /\ Len(ms) \in Nat
    BY DEF Conv
  <1>1. ASSUME NEW m \in MessageSet
        PROVE  Like(Normalized(m), m) /\ (Pending(Normalized(m)) => Pending(m))
    <2>1. /\ m.key \in Nat /\ m.from \in {"user", "assistant"}
          /\ m.owner \in Requests \cup {None}
          /\ m.text \in Texts /\ m.reasoning \in Texts /\ m.status \in Statuses
      BY MessageFields
    <2> QED BY <2>1 DEF Normalized, Complete, Pending, Like, MessageSet, Statuses
  <1>2. \A i \in 1..Len(ms) : ms[i] \in MessageSet
    BY <1>0
  <1>3. /\ \A i \in 1..Len(ms) : ns[i] = Normalized(ms[i]) /\ ns[i] \in MessageSet
        /\ ns \in Seq(MessageSet) /\ Len(ns) = Len(ms)
    <2>1. \A i \in 1..Len(ms) : Normalized(ms[i]) \in MessageSet
      BY <1>1, <1>2 DEF Like
    <2> QED BY <1>0, <2>1
  <1> HIDE DEF ns
  <1>4. Conv(ns, k)
    BY <1>1, <1>2, <1>3, ConvAlike
  <1>5. Tidy(ms) => Tidy(ns)
    BY <1>1, <1>2, <1>3 DEF Tidy
  <1> QED BY <1>3, <1>4, <1>5 DEF ns

LEMMA SanitizedConv ==
    ASSUME NEW k, NEW ms, Conv(ms, k)
    PROVE  /\ Conv(Sanitized(ms), k) /\ Len(Sanitized(ms)) = Len(ms)
           /\ Tidy(ms) => Settled(Sanitized(ms))
           /\ \A i \in 1..Len(ms) : Sanitized(ms)[i] \in {ms[i], Failed(ms[i])}
  <1> DEFINE open == {i \in 1..Len(ms) : Pending(ms[i])}
             last == CHOOSE i \in open : \A j \in open : j <= i
             ns == Sanitized(ms)
  <1>0. ms \in Seq(MessageSet) /\ Len(ms) \in Nat
    BY DEF Conv
  <1>1. CASE open = {}
    <2>1. ns = ms
      BY <1>1 DEF Sanitized
    <2> QED BY <1>1, <2>1 DEF Settled
  <1>2. CASE open # {}
    <2>1. last \in open /\ \A j \in open : j <= last
      <3>1. open \subseteq 1..Len(ms)
        OBVIOUS
      <3> HIDE DEF open
      <3>2. Max(open) \in open /\ \A y \in open : Max(open) >= y
        BY <1>0, <1>2, <3>1, Greatest
      <3>3. \A y \in open : y <= Max(open)
        <4> SUFFICES ASSUME NEW y \in open PROVE y <= Max(open)
          OBVIOUS
        <4>1. y \in 1..Len(ms) /\ Max(open) \in 1..Len(ms) /\ Max(open) >= y
          BY <3>1, <3>2
        <4> QED BY <1>0, <4>1
      <3>4. \E i \in open : \A j \in open : j <= i
        BY <3>2, <3>3
      <3> QED BY <3>4
    <2>2. ns = [ms EXCEPT ![last] = Failed(@)]
      BY <1>2 DEF Sanitized
    <2>l. last \in 1..Len(ms) /\ Pending(ms[last])
      BY <2>1
    <2>o. \A i \in 1..Len(ms) : Pending(ms[i]) => i \in open
      OBVIOUS
    <2> HIDE DEF last, open, ns
    <2>3. ms[last] \in MessageSet
      BY <1>0, <2>l
    <2>4. Like(Failed(ms[last]), ms[last]) /\ Failed(ms[last]) \in MessageSet
          /\ ~Pending(Failed(ms[last]))
      <3> DEFINE m == ms[last]
      <3> HIDE DEF m
      <3>1. /\ m.key \in Nat /\ m.from \in {"user", "assistant"}
            /\ m.owner \in Requests \cup {None}
            /\ m.text \in Texts /\ m.reasoning \in Texts /\ m.status \in Statuses
            /\ m \in MessageSet
        BY <2>3, MessageFields DEF m
      <3>2. Like(Failed(m), m) /\ Failed(m) \in MessageSet /\ ~Pending(Failed(m))
        BY <3>1, FixedTexts DEF Failed, Pending, Like, MessageSet, Statuses
      <3> QED BY <3>2 DEF m
    <2>5. /\ ns \in Seq(MessageSet) /\ Len(ns) = Len(ms) /\ ns[last] = Failed(ms[last])
          /\ \A i \in 1..Len(ms) : i # last => ns[i] = ms[i]
      BY <1>0, <2>l, <2>2, <2>4
    <2>6. \A i \in 1..Len(ms) : Like(ms[i], ms[i])
      <3>1. \A i \in 1..Len(ms) : ms[i] \in MessageSet
        BY <1>0
      <3> QED BY <3>1 DEF Like
    <2>7. \A i \in 1..Len(ms) : Like(ns[i], ms[i]) /\ (Pending(ns[i]) => Pending(ms[i]))
      BY <2>4, <2>5, <2>6
    <2>8. Conv(ns, k)
      BY <2>5, <2>7, ConvAlike
    <2>9. ASSUME Tidy(ms), NEW i \in 1..Len(ms) PROVE ~Pending(ns[i])
      <3>1. last = Len(ms)
        BY <2>l, <2>9 DEF Tidy
      <3> QED BY <2>4, <2>5, <2>9, <3>1 DEF Tidy
    <2>10. Tidy(ms) => Settled(ns)
      BY <2>5, <2>9 DEF Settled
    <2>11. \A i \in 1..Len(ms) : ns[i] \in {ms[i], Failed(ms[i])}
      BY <2>5
    <2> QED BY <2>5, <2>8, <2>10, <2>11 DEF ns
  <1> QED BY <1>1, <1>2

\* What a load shows fits into localStorage and has no pending message.
LEMMA LoadedConv ==
    ASSUME NEW k, NEW ms, Conv(ms, k)
    PROVE  /\ Conv(LoadedMessages(ms), k) /\ Len(LoadedMessages(ms)) <= MaxStored
           /\ Tidy(ms) => Settled(LoadedMessages(ms))
  <1>1. CASE Size(ms) > MaxBytes
    <2>1. LoadedMessages(ms) = <<>> /\ ms \in Seq(MessageSet)
      BY <1>1 DEF LoadedMessages, Conv
    <2>2. Conv(<<>>, k)
      BY <2>1, PartSelf, PartKeeps
    <2> QED BY <2>1, <2>2, PlaygroundAssumption DEF Settled
  <1>2. CASE ~(Size(ms) > MaxBytes)
    <2> DEFINE a == [i \in 1..Len(ms) |-> Normalized(ms[i])]
               b == Trimmed(a)
               c == SizeTrimmed(b)
    <2>1. LoadedMessages(ms) = Sanitized(c)
      BY <1>2 DEF LoadedMessages
    <2>2. Conv(a, k) /\ (Tidy(ms) => Tidy(a))
      BY NormalizedAll
    <2> HIDE DEF a
    <2>3. Part(b, a) /\ Len(b) <= MaxStored
      BY <2>2, TrimmedPart DEF Conv
    <2>4. Conv(b, k) /\ (Tidy(a) => Tidy(b))
      <3>1. Len(a) \in Nat
        BY <2>2 DEF Conv
      <3> QED BY <2>2, <2>3, <3>1, PartKeeps
    <2> HIDE DEF b
    <2>5. Part(c, b) /\ Len(c) <= Len(b)
      BY <2>4, SizeTrimmedPart DEF Conv
    <2>6. Conv(c, k) /\ (Tidy(b) => Tidy(c))
      <3>1. Len(b) \in Nat
        BY <2>4 DEF Conv
      <3> QED BY <2>4, <2>5, <3>1, PartKeeps
    <2> HIDE DEF c
    <2>7. Conv(Sanitized(c), k) /\ Len(Sanitized(c)) = Len(c) /\ (Tidy(c) => Settled(Sanitized(c)))
      BY <2>6, SanitizedConv
    <2>8. Len(c) <= MaxStored
      <3>1. Len(c) \in Nat /\ Len(b) \in Nat /\ MaxStored \in Nat
        BY <2>4, <2>6, PlaygroundAssumption DEF Conv
      <3> QED BY <2>3, <2>5, <3>1
    <2> QED BY <2>1, <2>2, <2>4, <2>6, <2>7, <2>8
  <1> QED BY <1>1, <1>2

-----------------------------------------------------------------------------
(* The queue of updaters. *)

\* The same updater, called already or not.
Same(u, v) == u.kind = v.kind /\ u.chunks = v.chunks /\ u.req = v.req

LEMMA UpdateSame ==
    ASSUME NEW u, NEW v, Same(u, v)
    PROVE  \A x : UpdateLast(x, u) = UpdateLast(x, v)
  <1>1. \A m : UpdatedMessage(m, u) = UpdatedMessage(m, v)
    BY DEF Same, UpdatedMessage
  <1> QED BY <1>1 DEF UpdateLast

\* us was put at the end of the queue.
Enqueued(us) ==
    /\ queue' \in Seq(UpdateSet) /\ Len(queue') = Len(queue) + Len(us)
    /\ \A n \in 1..Len(queue) : queue'[n] = queue[n]
    /\ \A n \in 1..Len(us) : Same(queue'[Len(queue) + n], us[n])
    /\ \A n \in 2..Len(queue') : ~queue'[n].sure

LEMMA Enqueues ==
    ASSUME queue \in Seq(UpdateSet), NEW us \in Seq(UpdateSet), Enqueue(us),
           \A n \in 2..Len(queue) : ~queue[n].sure, \A n \in 1..Len(us) : ~us[n].sure
    PROVE  Enqueued(us)
  <1>0. Len(queue) \in Nat /\ Len(us) \in Nat
    OBVIOUS
  <1>1. CASE queue' = queue \o us
    <2>1. /\ queue' \in Seq(UpdateSet) /\ Len(queue') = Len(queue) + Len(us)
          /\ \A n \in 1..Len(queue) : queue'[n] = queue[n]
          /\ \A n \in 1..(Len(queue) + Len(us)) :
               n > Len(queue) => queue'[n] = us[n - Len(queue)]
      BY <1>0, <1>1
    <2>2. \A n \in 1..Len(us) : queue'[Len(queue) + n] = us[n]
      <3> SUFFICES ASSUME NEW n \in 1..Len(us) PROVE queue'[Len(queue) + n] = us[n]
        OBVIOUS
      <3>1. /\ Len(queue) + n \in 1..(Len(queue) + Len(us)) /\ Len(queue) + n > Len(queue)
            /\ Len(queue) + n - Len(queue) = n
        BY <1>0
      <3> QED BY <2>1, <3>1
    <2>3. ASSUME NEW n \in 2..Len(queue') PROVE ~queue'[n].sure
      <3>1. CASE n \in 1..Len(queue)
        BY <1>0, <2>1, <3>1
      <3>2. CASE n \notin 1..Len(queue)
        <4>1. n - Len(queue) \in 1..Len(us) /\ n > Len(queue) /\ n \in 1..(Len(queue) + Len(us))
          BY <1>0, <2>1, <3>2
        <4> QED BY <2>1, <4>1
      <3> QED BY <3>1, <3>2
    <2> QED BY <2>1, <2>2, <2>3 DEF Enqueued, Same
  <1>2. CASE queue = <<>> /\ us # <<>> /\ queue' = [us EXCEPT ![1].sure = TRUE]
    <2>1. 1 \in 1..Len(us) /\ us[1] \in UpdateSet
      BY <1>0, <1>2
    <2> DEFINE v == [us[1] EXCEPT !.sure = TRUE]
    <2>2. v \in UpdateSet /\ Same(v, us[1])
      BY <2>1 DEF UpdateSet, Same
    <2>3. queue' = [us EXCEPT ![1] = v]
      BY <1>2
    <2> HIDE DEF v
    <2>4. /\ queue' \in Seq(UpdateSet) /\ Len(queue') = Len(us) /\ queue'[1] = v
          /\ \A n \in 1..Len(us) : n # 1 => queue'[n] = us[n]
      BY <2>1, <2>2, <2>3
    <2>5. \A n \in 1..Len(us) : Same(queue'[n], us[n])
      BY <2>2, <2>4 DEF Same
    <2>6. Len(queue) = 0 /\ \A n \in 1..Len(us) : Len(queue) + n = n
      BY <1>2
    <2>7. \A n \in 2..Len(queue') : ~queue'[n].sure
      BY <1>0, <2>4
    <2>8. Len(queue') = Len(queue) + Len(us) /\ 1..Len(queue) = {}
      BY <1>0, <2>4, <2>6
    <2>9. \A n \in 1..Len(us) : Same(queue'[Len(queue) + n], us[n])
      BY <2>5, <2>6
    <2> QED BY <2>4, <2>7, <2>8, <2>9 DEF Enqueued
  <1> QED BY <1>1, <1>2 DEF Enqueue

\* What is handed to React.
LEMMA UpdateIs ==
    ASSUME NEW kind \in {"flush", "finish", "error", "response", "stop"},
           NEW chunks \in ChunkSet, NEW r \in Requests \cup {None}
    PROVE  /\ Update(kind, chunks, r) \in UpdateSet /\ ~Update(kind, chunks, r).sure
           /\ Update(kind, chunks, r).kind = kind /\ Update(kind, chunks, r).req = r
           /\ Update(kind, chunks, r).chunks = chunks
  BY DEF Update, UpdateSet

LEMMA NoUpdates == <<>> \in Seq(UpdateSet)
  OBVIOUS

LEMMA NoChunksIs == NoChunks \in ChunkSet
  BY FixedTexts DEF NoChunks, ChunkSet

LEMMA FlushUpdatesAre ==
    ASSUME pending \in ChunkSet
    PROVE  /\ FlushUpdates \in Seq(UpdateSet)
           /\ Len(FlushUpdates) = IF pending = NoChunks THEN 0 ELSE 1
           /\ \A n \in 1..Len(FlushUpdates) :
                 FlushUpdates[n] = Update("flush", pending, None)
           /\ \A n \in 1..Len(FlushUpdates) :
                 /\ FlushUpdates[n].kind = "flush" /\ ~FlushUpdates[n].sure
                 /\ FlushUpdates[n].chunks = pending
  <1> DEFINE u == Update("flush", pending, None)
  <1>1. u \in UpdateSet /\ ~u.sure /\ u.kind = "flush" /\ u.chunks = pending
    BY UpdateIs
  <1>2. FlushUpdates = IF pending = NoChunks THEN <<>> ELSE <<u>>
    BY DEF FlushUpdates
  <1> HIDE DEF u
  <1>3. /\ FlushUpdates \in Seq(UpdateSet)
        /\ Len(FlushUpdates) = IF pending = NoChunks THEN 0 ELSE 1
        /\ \A n \in 1..Len(FlushUpdates) : FlushUpdates[n] = u
    BY <1>1, <1>2
  <1> QED BY <1>1, <1>3 DEF u

LEMMA LastUpdates ==
    ASSUME pending \in ChunkSet, NEW kind \in {"finish", "error"}
    PROVE  LET us == Append(FlushUpdates, Update(kind, NoChunks, None))
               n == Len(FlushUpdates)
           IN /\ us \in Seq(UpdateSet) /\ Len(us) = n + 1
              /\ us[n + 1] = Update(kind, NoChunks, None) /\ us[n + 1].kind = kind
              /\ \A i \in 1..n : us[i] = FlushUpdates[i] /\ us[i].kind = "flush"
              /\ \A i \in 1..Len(us) : ~us[i].sure
  <1> DEFINE u == Update(kind, NoChunks, None)
             us == Append(FlushUpdates, u)
             n == Len(FlushUpdates)
  <1>1. u \in UpdateSet /\ ~u.sure /\ u.kind = kind
    BY UpdateIs, NoChunksIs
  <1>2. /\ FlushUpdates \in Seq(UpdateSet) /\ n \in Nat
        /\ \A i \in 1..n : FlushUpdates[i].kind = "flush" /\ ~FlushUpdates[i].sure
    BY FlushUpdatesAre
  <1> HIDE DEF u
  <1>3. /\ us \in Seq(UpdateSet) /\ Len(us) = n + 1 /\ us[n + 1] = u
        /\ \A i \in 1..n : us[i] = FlushUpdates[i]
    BY <1>1, <1>2
  <1> HIDE DEF us
  <1>4. \A i \in 1..(n + 1) : i \in 1..n \/ i = n + 1
    BY <1>2
  <1>5. \A i \in 1..Len(us) : ~us[i].sure
    BY <1>1, <1>2, <1>3, <1>4
  <1> QED BY <1>1, <1>2, <1>3, <1>5 DEF us, u

\* The last updater is applied to what the others have made.
LEMMA RenderedLast ==
    ASSUME NEW ms, NEW q \in Seq(UpdateSet), q # <<>>
    PROVE  LET p == SubSeq(q, 1, Len(q) - 1) IN
           /\ p \in Seq(UpdateSet) /\ Len(p) = Len(q) - 1
           /\ \A n \in 1..Len(p) : p[n] = q[n]
           /\ Rendered(ms, q) = UpdateLast(Rendered(ms, p), q[Len(q)])
  <1> DEFINE p == SubSeq(q, 1, Len(q) - 1)
  <1>0. Len(q) \in Nat /\ Len(q) >= 1
    OBVIOUS
  <1>1. p \in Seq(UpdateSet) /\ Len(p) = Len(q) - 1 /\ \A n \in 1..Len(p) : p[n] = q[n]
    BY <1>0
  <1> HIDE DEF p
  <1>2. Len(p) <= Len(q) /\ Len(q) = Len(p) + 1
    BY <1>0, <1>1
  <1>3. \A n \in 1..Len(p) : \A x : UpdateLast(x, q[n]) = UpdateLast(x, p[n])
    BY <1>1
  <1>4. Rendered(ms, q) = UpdateLast(Rendered(ms, p), q[Len(q)])
    BY <1>1, <1>2, <1>3, RenderedAgree
  <1> QED BY <1>1, <1>4 DEF p

Terminal == {"finish", "error", "response"}

\* An end or a stop leaves no message pending.
LEMMA RenderedEnds ==
    ASSUME NEW k, NEW ms, Conv(ms, k), Tidy(ms), NEW q \in Seq(UpdateSet), q # <<>>,
           q[Len(q)].kind \in Terminal \cup {"stop"}
    PROVE  Settled(Rendered(ms, q))
  <1> DEFINE p == SubSeq(q, 1, Len(q) - 1)
             x == Rendered(ms, p)
             u == q[Len(q)]
             y == UpdateLast(x, u)
  <1>1. p \in Seq(UpdateSet) /\ Rendered(ms, q) = y
    BY RenderedLast
  <1>u. u \in UpdateSet
    <2>1. Len(q) \in 1..Len(q)
      OBVIOUS
    <2> QED BY <2>1
  <1> HIDE DEF p, u
  <1>2. Conv(x, k) /\ Tidy(x)
    BY <1>1, RenderedConv
  <1> HIDE DEF x
  <1>3. x \in Seq(MessageSet) /\ Len(x) \in Nat
    BY <1>2 DEF Conv
  <1>4. Tidy(y) /\ Len(y) = Len(x)
    BY <1>2, <1>u, UpdateLastConv
  <1>5. /\ x # <<>> /\ Last(x).from = "assistant" => Last(y) = UpdatedMessage(Last(x), u)
        /\ x = <<>> \/ Last(x).from # "assistant" => y = x
        /\ y \in Seq(MessageSet)
    BY <1>3, <1>u, UpdateLastLike
  <1> HIDE DEF y
  <1>6. ASSUME y # <<>> PROVE ~Pending(Last(y))
    <2>1. x # <<>> /\ Len(x) \in 1..Len(x)
      BY <1>3, <1>4, <1>5, <1>6
    <2>2. Last(x) = x[Len(x)] /\ Last(x) \in MessageSet
      BY <1>3, <2>1 DEF Last
    <2>3. Pending(Last(x)) => Last(x).from = "assistant"
      BY <1>2, <2>1, <2>2 DEF Conv
    <2>4. CASE Last(x).from = "assistant"
      <3>1. u.kind \in Terminal \cup {"stop"}
        BY DEF u
      <3>2. ~Pending(UpdatedMessage(Last(x), u))
        BY <1>u, <2>2, <3>1, UpdatedLike DEF Terminal, Final, Pending
      <3> QED BY <1>5, <2>1, <2>4, <3>2
    <2> QED BY <1>5, <2>3, <2>4
  <1>7. ASSUME NEW i \in 1..Len(y) PROVE ~Pending(y[i])
    <2>1. CASE i # Len(y)
      BY <1>4, <2>1 DEF Tidy
    <2>2. CASE i = Len(y)
      <3>1. y # <<>> /\ Last(y) = y[i]
        BY <1>5, <2>2 DEF Last
      <3> QED BY <1>6, <3>1
    <2> QED BY <2>1, <2>2
  <1> QED BY <1>1, <1>7 DEF Settled

\* Flushes leave the last message pending.
LEMMA RenderedGoesOn ==
    ASSUME NEW k, NEW ms, Conv(ms, k), ms # <<>>, Pending(Last(ms)),
           NEW q \in Seq(UpdateSet), \A n \in 1..Len(q) : q[n].kind = "flush"
    PROVE  /\ Rendered(ms, q) # <<>> /\ Pending(Last(Rendered(ms, q)))
           /\ Last(Rendered(ms, q)).key = Last(ms).key
  <1> DEFINE G == {x \in Seq(MessageSet) :
                     /\ Conv(x, k) /\ x # <<>> /\ Pending(Last(x))
                     /\ Last(x).key = Last(ms).key}
  <1>1. ms \in G
    BY DEF Conv
  <1>2. ASSUME NEW x \in G, NEW n \in 1..Len(q) PROVE UpdateLast(x, q[n]) \in G
    <2>1. q[n] \in UpdateSet /\ q[n].kind = "flush"
      OBVIOUS
    <2>2. /\ x \in Seq(MessageSet) /\ Conv(x, k) /\ x # <<>> /\ Pending(Last(x))
          /\ Last(x).key = Last(ms).key
      OBVIOUS
    <2>3. Len(x) \in 1..Len(x) /\ Last(x) = x[Len(x)] /\ Last(x) \in MessageSet
      <3>1. Len(x) \in 1..Len(x)
        BY <2>2
      <3> QED BY <2>2, <3>1 DEF Last
    <2>4. Last(x).from = "assistant"
      BY <2>2, <2>3 DEF Conv
    <2> DEFINE y == UpdateLast(x, q[n])
    <2>5. /\ y \in Seq(MessageSet) /\ Len(y) = Len(x)
          /\ Like(Last(y), Last(x)) /\ Last(y) = UpdatedMessage(Last(x), q[n])
      BY <2>1, <2>2, <2>4, UpdateLastLike
    <2>6. Conv(y, k)
      BY <2>1, <2>2, UpdateLastConv
    <2>7. UpdatedMessage(Last(x), q[n]) = ApplyChunks(Last(x), q[n].chunks)
      BY <2>1 DEF UpdatedMessage
    <2>8. Pending(ApplyChunks(Last(x), q[n].chunks))
      <3> DEFINE m == Last(x)
      <3> HIDE DEF m
      <3>1. m \in MessageSet /\ Pending(m)
        BY <2>2, <2>3 DEF m
      <3>2. ApplyChunks(m, q[n].chunks).status = "streaming"
        BY <3>1 DEF Pending, ApplyChunks, MessageSet
      <3> QED BY <3>2 DEF Pending, m
    <2> HIDE DEF y
    <2>9. y # <<>> /\ Last(y).key = Last(ms).key /\ Pending(Last(y))
      BY <2>2, <2>3, <2>5, <2>7, <2>8 DEF Like
    <2>10. y \in G
      BY <2>5, <2>6, <2>9
    <2> QED BY <2>10 DEF y
  <1>3. Rendered(ms, q) \in G
    <2> HIDE DEF G
    <2> QED BY <1>1, <1>2, RenderedKeeps
  <1> QED BY <1>3

-----------------------------------------------------------------------------
(* The page and localStorage. *)

PageTypes ==
    /\ queue \in Seq(UpdateSet) /\ pending \in ChunkSet
    /\ keys \in Nat /\ editing \in Nat
    /\ flushTimer \in BOOLEAN /\ generating \in BOOLEAN
    /\ saveTimer \in BOOLEAN /\ unsaved \in BOOLEAN /\ mounted \in {"loading", "yes"}
    /\ events \in 0..MaxEvents /\ overwrote \in BOOLEAN

ConvInv ==
    /\ Conv(messages, keys) /\ Conv(stored, keys)
    /\ Len(stored) <= MaxStored /\ editing <= keys

\* Before the end of an answer there are only flushes in the queue, and the
\* end is its last updater.
QueueInv ==
    /\ \A i \in 1..Len(queue) :
         /\ i # Len(queue) \/ requesting => queue[i].kind = "flush"
         /\ i = Len(queue) /\ ~requesting => queue[i].kind \in Terminal
    /\ \A i \in 2..Len(queue) : ~queue[i].sure

\* While an answer is generated the last message waits for it and is not the
\* one that is edited; chunks are kept only for an open stream.
ScreenInv ==
    /\ generating <=> (requesting \/ queue # <<>>)
    /\ flushTimer \/ pending # NoChunks => Streaming
    /\ generating => /\ messages # <<>> /\ Pending(Last(messages))
                     /\ Last(messages).key \notin {editing, None}
    /\ mounted = "loading" => messages = <<>> /\ ~generating /\ ~saveTimer

\* Unless an edit has overwritten an update, only the last message is pending,
\* and only while an answer is generated.
PendInv ==
    ~overwrote =>
        /\ Tidy(messages) /\ Tidy(stored)
        /\ ~generating => Settled(messages)

PageGood == PageTypes /\ ConvInv /\ QueueInv /\ ScreenInv /\ NothingUnsaved /\ PendInv

Good == NetGood /\ PageGood

LEMMA SettledTidy ==
    ASSUME NEW ms, Settled(ms)
    PROVE  Tidy(ms)
  BY DEF Settled, Tidy

LEMMA EmptyConv ==
    ASSUME NEW k
    PROVE  Conv(<<>>, k) /\ Settled(<<>>) /\ Tidy(<<>>)
  <1>1. <<>> \in Seq(MessageSet) /\ Len(<<>>) = 0 /\ 1..0 = {}
    OBVIOUS
  <1> QED BY <1>1 DEF Conv, Settled, Tidy

\* A message of a conversation, and its last.
LEMMA ConvItems ==
    ASSUME NEW k, NEW ms, Conv(ms, k)
    PROVE  /\ ms \in Seq(MessageSet) /\ Len(ms) \in Nat
           /\ \A i \in 1..Len(ms) : ms[i] \in MessageSet
           /\ ms # <<>> => Len(ms) \in 1..Len(ms) /\ Last(ms) = ms[Len(ms)]
  BY DEF Conv, Last

\* No open stream without a request.
LEMMA StreamingRequests ==
    ASSUME NetGood
    PROVE  /\ Streaming => requesting
           /\ requesting \in BOOLEAN
  BY DEF NetGood, NetTypes, NetInv, Streaming

LEMMA PageInit ==
    ASSUME Init
    PROVE  PageGood
  <1>1. PageTypes
    <2>1. queue \in Seq(UpdateSet) /\ pending \in ChunkSet
      BY NoUpdates, NoChunksIs DEF Init
    <2>2. keys \in Nat /\ editing \in Nat /\ events \in 0..MaxEvents
      BY PlaygroundAssumption DEF Init, None
    <2>3. /\ flushTimer \in BOOLEAN /\ generating \in BOOLEAN
          /\ saveTimer \in BOOLEAN /\ unsaved \in BOOLEAN
          /\ mounted \in {"loading", "yes"} /\ overwrote \in BOOLEAN
      BY DEF Init
    <2> QED BY <2>1, <2>2, <2>3 DEF PageTypes
  <1>2. ConvInv
    BY PlaygroundAssumption, EmptyConv DEF Init, ConvInv, None
  <1>3. QueueInv /\ ScreenInv /\ NothingUnsaved
    BY DEF Init, QueueInv, ScreenInv, NothingUnsaved
  <1>4. PendInv
    BY EmptyConv DEF Init, PendInv
  <1> QED BY <1>1, <1>2, <1>3, <1>4 DEF PageGood

\* A step that sends a conversation with a new loading message.
LEMMA PageSent ==
    ASSUME Good, NEW base, NEW k \in Nat, NEW r \in Requests, keys <= k,
           Conv(base, k), ~overwrote => Settled(base),
           messages' = Append(base, LoadingMessage(k + 1, r)), keys' = k + 1,
           queue' = <<>>, pending' = NoChunks, flushTimer' = FALSE,
           requesting' = TRUE, generating' = TRUE, saveTimer' = TRUE,
           editing' \in {editing, None}, mounted = "yes",
           UNCHANGED <<stored, unsaved, mounted, overwrote>>, events' \in 0..MaxEvents
    PROVE  PageGood'
  <1> DEFINE m == LoadingMessage(k + 1, r)
  <1>g. PageTypes /\ ConvInv /\ QueueInv /\ ScreenInv /\ PendInv
    BY DEF Good, PageGood
  <1>k. keys \in Nat /\ editing \in Nat /\ editing <= keys
    BY <1>g DEF PageTypes, ConvInv
  <1>0. m \in MessageSet /\ m.key = k + 1 /\ Pending(m) /\ m.from = "assistant"
    BY FixedTexts DEF LoadingMessage, MessageSet, Statuses, Pending
  <1> HIDE DEF m
  <1>1. /\ Conv(messages', k + 1) /\ (Settled(base) => Tidy(messages'))
        /\ messages' # <<>> /\ Last(messages') = m
    BY <1>0, ConvAppend DEF m
  <1>2. PageTypes'
    <2>1. queue' \in Seq(UpdateSet) /\ pending' \in ChunkSet
      BY NoUpdates, NoChunksIs
    <2>2. keys' \in Nat /\ editing' \in Nat
      BY <1>k DEF None
    <2> QED BY <1>g, <2>1, <2>2 DEF PageTypes
  <1>3. Conv(stored, k + 1)
    BY <1>g, <1>k, ConvMore DEF ConvInv
  <1>4. ConvInv'
    BY <1>g, <1>k, <1>1, <1>3 DEF ConvInv, None
  <1>5. QueueInv' /\ NothingUnsaved'
    BY DEF QueueInv, NothingUnsaved
  <1>6. m.key \notin {editing', None}
    BY <1>0, <1>k DEF None
  <1>7. ScreenInv'
    BY <1>0, <1>1, <1>6 DEF ScreenInv
  <1>8. PendInv'
    BY <1>g, <1>1 DEF PendInv
  <1> QED BY <1>2, <1>4, <1>5, <1>7, <1>8 DEF PageGood

\* A click that changes the conversation and sends nothing.
LEMMA PageClicked ==
    ASSUME Good, NEW ms, Click(ms), Conv(ms, keys),
           requesting => /\ ms # <<>> /\ Pending(Last(ms))
                         /\ Last(ms).key \notin {editing', None},
           overwrote' \in BOOLEAN, overwrote => overwrote',
           ~overwrote' => Tidy(ms), ~overwrote' /\ ~requesting => Settled(ms),
           editing' \in {editing, None}, mounted = "yes",
           UNCHANGED <<stored, unsaved, mounted, keys>>, events' \in 0..MaxEvents
    PROVE  PageGood'
  <1>g. PageTypes /\ ConvInv /\ QueueInv /\ ScreenInv /\ PendInv /\ NetGood
    BY DEF Good, PageGood
  <1>k. keys \in Nat /\ editing \in Nat /\ editing <= keys
    BY <1>g DEF PageTypes, ConvInv
  <1>c. /\ messages' = ms /\ queue' = <<>> /\ saveTimer' = TRUE
        /\ UNCHANGED <<pending, flushTimer, requesting, source>>
        /\ generating' = requesting
    BY <1>g, StreamingRequests DEF Click, RenderClick, net
  <1>2. PageTypes'
    BY <1>g, <1>k, <1>c, StreamingRequests DEF PageTypes, None
  <1>4. ConvInv'
    BY <1>g, <1>k, <1>c DEF ConvInv, None
  <1>5. QueueInv' /\ NothingUnsaved'
    BY <1>c DEF QueueInv, NothingUnsaved
  <1>7. ScreenInv'
    BY <1>g, <1>c DEF ScreenInv, Streaming
  <1>8. PendInv'
    BY <1>g, <1>c DEF PendInv
  <1> QED BY <1>2, <1>4, <1>5, <1>7, <1>8 DEF PageGood

\* Updaters are rendered: by a stop, or on their own.
LEMMA PageRendered ==
    ASSUME Good, NEW q \in Seq(UpdateSet), messages' = Rendered(messages, q),
           queue' = <<>>, pending' \in ChunkSet, flushTimer' \in BOOLEAN,
           flushTimer' \/ pending' # NoChunks => Streaming',
           requesting' \in BOOLEAN, generating' = requesting',
           requesting' => requesting /\ \A n \in 1..Len(q) : q[n].kind = "flush",
           ~requesting' /\ generating => q # <<>> /\ q[Len(q)].kind \in Terminal \cup {"stop"},
           ~requesting' /\ ~generating => q = <<>>,
           saveTimer' \in BOOLEAN, q # <<>> \/ saveTimer => saveTimer',
           mounted = "yes", UNCHANGED <<editing, keys, stored, unsaved, mounted, history>>
    PROVE  PageGood'
  <1>g. PageTypes /\ ConvInv /\ QueueInv /\ ScreenInv /\ PendInv /\ NetGood /\ NothingUnsaved
    BY DEF Good, PageGood
  <1>u. UNCHANGED <<editing, keys, stored, unsaved, mounted, events, overwrote>>
    BY DEF history
  <1>k. Conv(messages, keys)
    BY <1>g DEF ConvInv
  <1>1. Conv(messages', keys) /\ (Tidy(messages) => Tidy(messages'))
    BY <1>k, RenderedConv
  <1>2. PageTypes'
    BY <1>g, <1>u DEF PageTypes
  <1>3. ConvInv'
    BY <1>g, <1>u, <1>1 DEF ConvInv
  <1>4. QueueInv'
    BY DEF QueueInv
  <1>5. q = <<>> => messages' = messages
    BY RenderedEmpty
  <1>6. NothingUnsaved'
    BY <1>g, <1>u, <1>5 DEF NothingUnsaved, PageTypes
  <1>7. ScreenInv'
    <2>1. CASE requesting'
      <3>1. messages # <<>> /\ Pending(Last(messages)) /\ Last(messages).key \notin {editing, None}
        BY <1>g, <2>1 DEF ScreenInv
      <3>2. /\ messages' # <<>> /\ Pending(Last(messages'))
            /\ Last(messages').key = Last(messages).key
        BY <1>k, <2>1, <3>1, RenderedGoesOn
      <3> QED BY <1>u, <2>1, <3>1, <3>2 DEF ScreenInv
    <2>2. CASE ~requesting'
      BY <1>u, <2>2 DEF ScreenInv
    <2> QED BY <2>1, <2>2
  <1>8. PendInv'
    <2>1. CASE overwrote
      BY <1>u, <2>1 DEF PendInv
    <2>2. CASE ~overwrote /\ generating
      <3>1. Tidy(messages) /\ Tidy(stored)
        BY <1>g, <2>2 DEF PendInv
      <3>2. ~requesting' => Settled(messages')
        BY <1>k, <2>2, <3>1, RenderedEnds
      <3> QED BY <1>u, <1>1, <3>1, <3>2 DEF PendInv
    <2>3. CASE ~overwrote /\ ~generating
      <3>1. ~requesting'
        BY <1>g, <2>3 DEF ScreenInv
      <3>2. messages' = messages
        BY <1>5, <2>3, <3>1
      <3> QED BY <1>g, <1>u, <2>3, <3>2 DEF PendInv
    <2> QED BY <2>1, <2>2, <2>3
  <1> QED BY <1>2, <1>3, <1>4, <1>6, <1>7, <1>8 DEF PageGood

\* The end of an answer is put into the queue.
LEMMA PageAnswered ==
    ASSUME Good, requesting, NEW us, NEW n \in Nat, Len(us) = n + 1, Enqueued(us),
           us[n + 1].kind \in Terminal, \A i \in 1..n : us[i].kind = "flush",
           pending' = NoChunks, flushTimer' = FALSE, requesting' = FALSE,
           UNCHANGED <<Unrendered, disk, history>>
    PROVE  PageGood'
  <1>g. PageTypes /\ ConvInv /\ QueueInv /\ ScreenInv /\ PendInv /\ NothingUnsaved
    BY DEF Good, PageGood
  <1>u. UNCHANGED <<messages, generating, editing, keys, stored, unsaved, saveTimer, mounted,
                    events, overwrote>>
    BY DEF Unrendered, disk, history
  <1>n. Len(queue) \in Nat
    BY <1>g DEF PageTypes
  <1>q. /\ queue' \in Seq(UpdateSet) /\ Len(queue') = Len(queue) + n + 1
        /\ \A i \in 1..Len(queue) : queue'[i] = queue[i]
        /\ \A i \in 1..(n + 1) : queue'[Len(queue) + i].kind = us[i].kind
        /\ \A i \in 2..Len(queue') : ~queue'[i].sure
    BY <1>n DEF Enqueued, Same
  <1>1. PageTypes'
    BY <1>g, <1>u, <1>q, NoChunksIs DEF PageTypes
  <1>2. ConvInv' /\ NothingUnsaved' /\ PendInv'
    BY <1>g, <1>u DEF ConvInv, NothingUnsaved, PendInv
  <1>3. ASSUME NEW i \in 1..Len(queue')
        PROVE  /\ i # Len(queue') => queue'[i].kind = "flush"
               /\ i = Len(queue') => queue'[i].kind \in Terminal
    <2>1. CASE i \in 1..Len(queue)
      BY <1>g, <1>n, <1>q, <2>1 DEF QueueInv
    <2>2. CASE i \notin 1..Len(queue)
      <3> DEFINE j == i - Len(queue)
      <3>1. j \in 1..(n + 1) /\ i = Len(queue) + j /\ (j = n + 1 <=> i = Len(queue'))
            /\ (j # n + 1 => j \in 1..n)
        <4> DEFINE a == Len(queue)
                   b == Len(queue')
        <4>1. a \in Nat /\ b = a + n + 1 /\ i \in 1..b /\ i \notin 1..a
          BY <1>n, <1>q, <2>2
        <4> HIDE DEF a, b
        <4>2. i - a \in 1..(n + 1) /\ i = a + (i - a) /\ (i - a = n + 1 <=> i = b)
              /\ (i - a # n + 1 => i - a \in 1..n)
          BY <4>1
        <4> QED BY <4>2 DEF a, b
      <3> HIDE DEF j
      <3> QED BY <1>q, <3>1
    <2> QED BY <2>1, <2>2
  <1>4. QueueInv'
    BY <1>3, <1>q DEF QueueInv
  <1>5. queue' # <<>>
    BY <1>n, <1>q
  <1>6. ScreenInv'
    BY <1>g, <1>u, <1>5 DEF ScreenInv
  <1> QED BY <1>1, <1>2, <1>4, <1>6 DEF PageGood

\* The chunks that are left are handed to React by the timer.
LEMMA PageFlushed ==
    ASSUME Good, Flush
    PROVE  PageGood'
  <1> DEFINE us == FlushUpdates
  <1>g. PageTypes /\ ConvInv /\ QueueInv /\ ScreenInv /\ PendInv /\ NothingUnsaved /\ NetGood
    BY DEF Good, PageGood
  <1>u. /\ UNCHANGED <<messages, generating, editing, keys, stored, unsaved, saveTimer, mounted,
                       events, overwrote, requesting, source>>
        /\ pending' = NoChunks /\ flushTimer' = FALSE /\ flushTimer
    BY DEF Flush, Unrendered, disk, history, net
  <1>r. requesting /\ generating
    BY <1>g, <1>u, StreamingRequests DEF ScreenInv
  <1>n. Len(queue) \in Nat
    BY <1>g DEF PageTypes
  <1>s. /\ us \in Seq(UpdateSet) /\ Len(us) \in Nat
        /\ \A i \in 1..Len(us) : us[i].kind = "flush" /\ ~us[i].sure
    BY <1>g, FlushUpdatesAre DEF PageTypes
  <1> HIDE DEF us
  <1>e. Enqueued(us)
    BY <1>g, <1>s, Enqueues DEF PageTypes, QueueInv, Flush, us
  <1>q. /\ queue' \in Seq(UpdateSet) /\ Len(queue') = Len(queue) + Len(us)
        /\ \A i \in 1..Len(queue) : queue'[i] = queue[i]
        /\ \A i \in 1..Len(us) : queue'[Len(queue) + i].kind = us[i].kind
        /\ \A i \in 2..Len(queue') : ~queue'[i].sure
    BY <1>e DEF Enqueued, Same
  <1>1. PageTypes'
    BY <1>g, <1>u, <1>q, NoChunksIs DEF PageTypes
  <1>2. ConvInv' /\ NothingUnsaved' /\ PendInv'
    BY <1>g, <1>u DEF ConvInv, NothingUnsaved, PendInv
  <1>3. ASSUME NEW i \in 1..Len(queue') PROVE queue'[i].kind = "flush"
    <2>1. CASE i \in 1..Len(queue)
      BY <1>g, <1>q, <1>r, <2>1 DEF QueueInv
    <2>2. CASE i \notin 1..Len(queue)
      <3>1. i - Len(queue) \in 1..Len(us) /\ i = Len(queue) + (i - Len(queue))
        BY <1>n, <1>s, <1>q, <2>2
      <3> QED BY <1>q, <1>s, <3>1
    <2> QED BY <2>1, <2>2
  <1>4. QueueInv'
    BY <1>3, <1>q, <1>r, <1>u DEF QueueInv
  <1>6. ScreenInv'
    BY <1>g, <1>u, <1>r DEF ScreenInv
  <1> QED BY <1>1, <1>2, <1>4, <1>6 DEF PageGood

\* A chunk is kept until the next flush.
LEMMA PageChunk ==
    ASSUME Good, NEW r \in Requests, NEW type \in Types, NEW k \in 1..MaxChunks,
           ChunkBack(r, type, k)
    PROVE  PageGood'
  <1> DEFINE d == Chunk(r, type, req[r][type], req[r][type] + k)
  <1>g. PageTypes /\ ConvInv /\ QueueInv /\ ScreenInv /\ PendInv /\ NothingUnsaved /\ NetGood
    BY DEF Good, PageGood
  <1>u. /\ UNCHANGED <<messages, generating, editing, keys, stored, unsaved, saveTimer, mounted,
                       events, overwrote, requesting, queue, source>>
        /\ flushTimer' = TRUE /\ source = r
        /\ pending' = [pending EXCEPT ![type] = MergeChunk(pending[type], d)]
    BY DEF ChunkBack, Unrendered, disk, history, IsCurrent
  <1>1. req[r][type] \in Nat /\ req[r][type] + k \in Nat /\ req[r][type] <= req[r][type] + k
    <2>1. req[r] \in RequestSet
      BY <1>g DEF NetGood, NetTypes
    <2> QED BY <2>1, ChunkLength, PlaygroundAssumption
  <1>2. d \in Texts
    BY <1>1, AnswerText, TokensText DEF Chunk
  <1> HIDE DEF d
  <1>3. pending \in ChunkSet
    BY <1>g DEF PageTypes
  <1>4. pending[type] \in Texts
    BY <1>3 DEF ChunkSet, Types
  <1>5. MergeChunk(pending[type], d) \in Texts
    BY <1>2, <1>4, ChunkTexts
  <1>6. pending' \in ChunkSet
    BY <1>u, <1>3, <1>5 DEF ChunkSet, Types
  <1>7. PageTypes' /\ ConvInv' /\ NothingUnsaved' /\ PendInv' /\ QueueInv'
    BY <1>g, <1>u, <1>6 DEF PageTypes, ConvInv, NothingUnsaved, PendInv, QueueInv
  <1>8. Streaming'
    BY <1>u, PlaygroundAssumption DEF Streaming, None, Requests
  <1>9. ScreenInv'
    BY <1>g, <1>u, <1>8 DEF ScreenInv
  <1> QED BY <1>7, <1>9 DEF PageGood

\* The page is left.
LEMMA PageLeft ==
    ASSUME Good, Unmount \/ Reload
    PROVE  PageGood'
  <1>g. PageTypes /\ ConvInv /\ PendInv
    BY DEF Good, PageGood
  <1>u. /\ Fresh /\ keys' = keys /\ overwrote' = overwrote /\ events' \in 0..MaxEvents
        /\ unsaved' \in BOOLEAN
    <2>1. Fresh /\ Event
      BY DEF Unmount, Reload
    <2>2. unsaved' \in BOOLEAN
      BY <1>g DEF Unmount, Reload, Saved, Swallowed, PageTypes
    <2>3. events' \in 0..MaxEvents
      BY <1>g, <2>1, PlaygroundAssumption DEF Event, PageTypes
    <2> QED BY <2>1, <2>2, <2>3 DEF Fresh
  <1>f. /\ messages' = <<>> /\ queue' = <<>> /\ pending' = NoChunks
        /\ flushTimer' = FALSE /\ requesting' = FALSE /\ generating' = FALSE
        /\ editing' = None /\ saveTimer' = FALSE /\ mounted' = "loading"
    BY <1>u DEF Fresh
  <1>s. stored' \in {stored, Trimmed(messages)}
    BY DEF Unmount, Reload, Saved, Swallowed
  <1>1. /\ Conv(Trimmed(messages), keys) /\ Len(Trimmed(messages)) <= MaxStored
        /\ Tidy(messages) => Tidy(Trimmed(messages))
    BY <1>g, ConvItems, TrimmedPart, PartKeeps DEF ConvInv
  <1>2. /\ Conv(stored', keys) /\ Len(stored') <= MaxStored
        /\ Tidy(messages) /\ Tidy(stored) => Tidy(stored')
    BY <1>g, <1>s, <1>1 DEF ConvInv
  <1>3. PageTypes'
    BY <1>g, <1>u, <1>f, NoChunksIs, NoUpdates DEF PageTypes, None
  <1>4. ConvInv'
    BY <1>g, <1>u, <1>f, <1>2, EmptyConv DEF ConvInv, None, PageTypes
  <1>5. QueueInv' /\ ScreenInv' /\ NothingUnsaved'
    BY <1>f DEF QueueInv, ScreenInv, NothingUnsaved
  <1>6. PendInv'
    BY <1>g, <1>u, <1>f, <1>2, EmptyConv DEF PendInv
  <1> QED BY <1>3, <1>4, <1>5, <1>6 DEF PageGood

LEMMA PageLoaded ==
    ASSUME Good, Load
    PROVE  PageGood'
  <1> DEFINE ms == LoadedMessages(stored)
  <1>g. PageTypes /\ ConvInv /\ QueueInv /\ ScreenInv /\ PendInv
    BY DEF Good, PageGood
  <1>1. /\ Conv(ms, keys) /\ Len(ms) <= MaxStored
        /\ Tidy(stored) => Settled(ms)
    BY <1>g, LoadedConv DEF ConvInv
  <1> HIDE DEF ms
  <1>2. Trimmed(ms) = ms
    BY <1>1, ConvItems, TrimmedPart
  <1>u. /\ messages' \in {ms, <<>>} /\ stored' \in {ms, stored}
        /\ mounted' = "yes" /\ mounted = "loading"
        /\ \/ unsaved' = FALSE /\ messages' = ms /\ stored' = ms
           \/ unsaved' = TRUE
        /\ UNCHANGED <<queue, pending, flushTimer, requesting, generating,
                       editing, keys, source, saveTimer, overwrote>>
    BY <1>2 DEF Load, WriteLoaded, Saved, Swallowed, net, ms
  <1>e. events' \in 0..MaxEvents
    <2>1. \/ events' = events
          \/ events < MaxEvents /\ events' = events + 1
      BY DEF Load, WriteLoaded, Swallowed
    <2> QED BY <1>g, <2>1, PlaygroundAssumption DEF PageTypes
  <1>3. PageTypes'
    BY <1>e, <1>g, <1>u DEF PageTypes
  <1>4. ConvInv'
    BY <1>g, <1>u, <1>1, EmptyConv DEF ConvInv
  <1>5. QueueInv'
    BY <1>g, <1>u DEF QueueInv
  <1>6. NothingUnsaved'
    BY <1>u, <1>2 DEF NothingUnsaved
  <1>7. ScreenInv'
    BY <1>g, <1>u DEF ScreenInv, Streaming
  <1>8. PendInv'
    BY <1>g, <1>u, <1>1, EmptyConv, SettledTidy DEF PendInv
  <1> QED BY <1>3, <1>4, <1>5, <1>6, <1>7, <1>8 DEF PageGood

LEMMA PageSaved ==
    ASSUME Good, Save
    PROVE  PageGood'
  <1>g. PageTypes /\ ConvInv /\ QueueInv /\ ScreenInv /\ PendInv
    BY DEF Good, PageGood
  <1>u. /\ saveTimer' = FALSE
        /\ \/ stored' = Trimmed(messages) /\ unsaved' = FALSE
           \/ stored' = stored /\ unsaved' = TRUE
        /\ UNCHANGED <<messages, queue, pending, flushTimer, requesting, generating,
                       editing, keys, source, mounted, overwrote>>
    BY DEF Save, Saved, Swallowed, net, page
  <1>e. events' \in 0..MaxEvents
    <2>1. \/ events' = events
          \/ events < MaxEvents /\ events' = events + 1
      BY DEF Save, Swallowed
    <2> QED BY <1>g, <2>1, PlaygroundAssumption DEF PageTypes
  <1>1. /\ Conv(Trimmed(messages), keys) /\ Len(Trimmed(messages)) <= MaxStored
        /\ Tidy(messages) => Tidy(Trimmed(messages))
    BY <1>g, ConvItems, TrimmedPart, PartKeeps DEF ConvInv
  <1>2. PageTypes' /\ QueueInv' /\ NothingUnsaved'
    BY <1>e, <1>g, <1>u DEF PageTypes, QueueInv, NothingUnsaved
  <1>3. ConvInv' /\ PendInv'
    BY <1>g, <1>u, <1>1 DEF ConvInv, PendInv
  <1>4. ScreenInv'
    BY <1>g, <1>u DEF ScreenInv, Streaming
  <1> QED BY <1>2, <1>3, <1>4 DEF PageGood

\* A step that leaves the conversation, the queue and localStorage alone.
LEMMA PageSame ==
    ASSUME Good, UNCHANGED <<messages, queue, pending, flushTimer, requesting,
                             generating, keys, disk, overwrote>>,
           Streaming => Streaming', events' \in 0..MaxEvents,
           editing' \in Nat, editing' <= keys,
           generating => editing' \in {editing, None}
    PROVE  PageGood'
  <1>g. PageTypes /\ ConvInv /\ QueueInv /\ ScreenInv /\ PendInv /\ NothingUnsaved
    BY DEF Good, PageGood
  <1>u. UNCHANGED <<messages, queue, pending, flushTimer, requesting, generating, keys,
                    stored, unsaved, saveTimer, mounted, overwrote>>
    BY DEF disk
  <1>1. PageTypes' /\ QueueInv' /\ NothingUnsaved' /\ PendInv'
    BY <1>g, <1>u DEF PageTypes, QueueInv, NothingUnsaved, PendInv
  <1>2. ConvInv'
    BY <1>g, <1>u DEF ConvInv
  <1>3. ScreenInv'
    BY <1>g, <1>u DEF ScreenInv
  <1> QED BY <1>1, <1>2, <1>3 DEF PageGood

\* The edit of a message.
LEMMA EditedConv ==
    ASSUME NEW k, Conv(messages, k), NEW i \in 1..Len(messages)
    PROVE  /\ Conv(WithEdit(i), k) /\ Len(WithEdit(i)) = Len(messages)
           /\ \A j \in 1..Len(messages) :
                 /\ j # i => WithEdit(i)[j] = messages[j]
                 /\ WithEdit(i)[j].status = messages[j].status
                 /\ WithEdit(i)[j].key = messages[j].key
                 /\ WithEdit(i)[j].from = messages[j].from
           /\ WithEdit(i)[i] = [messages[i] EXCEPT !.text = Edited]
           /\ Tidy(messages) => Tidy(WithEdit(i))
           /\ Settled(messages) => Settled(WithEdit(i))
  <1> DEFINE m == [messages[i] EXCEPT !.text = Edited]
             ns == WithEdit(i)
  <1>0. /\ messages \in Seq(MessageSet) /\ Len(messages) \in Nat
        /\ \A j \in 1..Len(messages) : messages[j] \in MessageSet
    BY ConvItems
  <1>1. ns = [messages EXCEPT ![i] = m]
    BY DEF WithEdit
  <1>2. m \in MessageSet /\ Like(m, messages[i]) /\ m.status = messages[i].status
    <2> DEFINE o == messages[i]
    <2>1. o \in MessageSet
      BY <1>0
    <2> HIDE DEF o
    <2>2. /\ [o EXCEPT !.text = Edited] \in MessageSet
          /\ [o EXCEPT !.text = Edited].key = o.key
          /\ [o EXCEPT !.text = Edited].from = o.from
          /\ [o EXCEPT !.text = Edited].owner = o.owner
          /\ [o EXCEPT !.text = Edited].status = o.status
      BY <2>1, FixedTexts DEF MessageSet
    <2> QED BY <2>2 DEF o, Like
  <1> HIDE DEF m
  <1>3. /\ ns \in Seq(MessageSet) /\ Len(ns) = Len(messages) /\ ns[i] = m
        /\ \A j \in 1..Len(messages) : j # i => ns[j] = messages[j]
    BY <1>0, <1>1, <1>2
  <1> HIDE DEF ns
  <1>4. \A j \in 1..Len(messages) : Like(ns[j], messages[j]) /\ ns[j].status = messages[j].status
    BY <1>0, <1>2, <1>3 DEF Like
  <1>5. \A j \in 1..Len(messages) : Pending(ns[j]) <=> Pending(messages[j])
    BY <1>4 DEF Pending
  <1>6. Conv(ns, k)
    BY <1>3, <1>4, <1>5, ConvAlike
  <1>7. (Tidy(messages) => Tidy(ns)) /\ (Settled(messages) => Settled(ns))
    BY <1>3, <1>5 DEF Tidy, Settled
  <1> QED BY <1>3, <1>4, <1>6, <1>7 DEF ns, m, Like

LEMMA PageSends ==
    ASSUME Good,
           \/ SendMessage
           \/ \E i \in 1..Len(messages) : RegenerateMessage(i) \/ SubmitEdit(i)
    PROVE  PageGood'
  <1>g. PageTypes /\ ConvInv /\ QueueInv /\ ScreenInv /\ PendInv
    BY DEF Good, PageGood
  <1>k. keys \in Nat /\ editing \in Nat /\ Conv(messages, keys) /\ keys + 1 \in Nat
    BY <1>g DEF PageTypes, ConvInv
  <1>c. messages \in Seq(MessageSet) /\ Len(messages) \in Nat
    BY <1>k, ConvItems
  <1>1. CASE SendMessage
    <2> DEFINE m == UserMessage(keys + 1)
               base == Append(messages, m)
    <2>1. m \in MessageSet /\ m.key = keys + 1 /\ ~Pending(m)
      BY <1>k, FixedTexts DEF UserMessage, MessageSet, Statuses, Pending
    <2>2. Conv(base, keys + 1) /\ (Settled(messages) => Settled(base))
      <3> HIDE DEF m
      <3> QED BY <1>k, <2>1, ConvAppend
    <2>3. ~overwrote => Settled(base)
      BY <1>1, <1>g, <2>2 DEF SendMessage, PendInv
    <2>4. /\ messages' = Append(base, LoadingMessage(keys + 2, NextRequest))
          /\ queue' = <<>> /\ pending' = NoChunks /\ flushTimer' = FALSE
          /\ requesting' = TRUE /\ generating' = TRUE /\ saveTimer' = TRUE
          /\ keys' = keys + 2 /\ mounted = "yes" /\ Free # {}
          /\ UNCHANGED <<editing, stored, unsaved, mounted, events, overwrote>>
      BY <1>1 DEF SendMessage, SendChat, RenderClick, history
    <2> HIDE DEF base
    <2>5. NextRequest \in Requests
      BY <2>4, NextFree DEF Free
    <2>6. keys + 2 = keys + 1 + 1 /\ keys <= keys + 1 /\ events' \in 0..MaxEvents
      BY <1>g, <1>k, <2>4 DEF PageTypes
    <2> QED BY <1>k, <2>2, <2>3, <2>4, <2>5, <2>6, PageSent
  <1>2. ASSUME NEW i \in 1..Len(messages), RegenerateMessage(i)
        PROVE  PageGood'
    <2> DEFINE b == IF messages[i].from = "user" THEN i ELSE i - 1
               base == SubSeq(messages, 1, b)
    <2>1. 1 \in 1..(Len(messages) + 1) /\ b \in 0..Len(messages) /\ 1 <= b + 1
      BY <1>c
    <2>2. /\ messages' = Append(base, LoadingMessage(keys + 1, NextRequest))
          /\ queue' = <<>> /\ pending' = NoChunks /\ flushTimer' = FALSE
          /\ requesting' = TRUE /\ generating' = TRUE /\ saveTimer' = TRUE
          /\ keys' = keys + 1 /\ mounted = "yes" /\ Free # {} /\ ~generating
          /\ UNCHANGED <<editing, stored, unsaved, mounted, overwrote>>
          /\ events < MaxEvents /\ events' = events + 1
      BY <1>2 DEF RegenerateMessage, Regenerated, SendChat, RenderClick, Event
    <2> HIDE DEF b
    <2>3. Part(base, messages)
      BY <1>c, <2>1, PartSub
    <2>4. Conv(base, keys) /\ (Settled(messages) => Settled(base))
      BY <1>c, <1>k, <2>3, PartKeeps
    <2> HIDE DEF base
    <2>5. ~overwrote => Settled(base)
      BY <1>g, <2>2, <2>4 DEF PendInv
    <2>6. NextRequest \in Requests
      BY <2>2, NextFree DEF Free
    <2>7. keys <= keys /\ events' \in 0..MaxEvents
      BY <1>g, <1>k, <2>2, PlaygroundAssumption DEF PageTypes
    <2> QED BY <1>k, <2>2, <2>4, <2>5, <2>6, <2>7, PageSent
  <1>3. ASSUME NEW i \in 1..Len(messages), SubmitEdit(i)
        PROVE  PageGood'
    <2> DEFINE w == WithEdit(i)
               base == SubSeq(w, 1, i)
    <2>1. /\ messages' = Append(base, LoadingMessage(keys + 1, NextRequest))
          /\ queue' = <<>> /\ pending' = NoChunks /\ flushTimer' = FALSE
          /\ requesting' = TRUE /\ generating' = TRUE /\ saveTimer' = TRUE
          /\ keys' = keys + 1 /\ mounted = "yes" /\ Free # {}
          /\ editing' = None /\ UNCHANGED <<stored, unsaved, mounted, overwrote>>
          /\ events < MaxEvents /\ events' = events + 1 /\ messages[i].from = "user"
      BY <1>3 DEF SubmitEdit, SendChat, RenderClick, Event
    <2>2. /\ Conv(w, keys) /\ Len(w) = Len(messages) /\ (Tidy(messages) => Tidy(w))
          /\ w[i].from = "user"
      BY <1>k, <2>1, EditedConv
    <2> HIDE DEF w
    <2>3. w \in Seq(MessageSet)
      BY <2>2, ConvItems
    <2>4. 1 \in 1..(Len(w) + 1) /\ i \in 0..Len(w) /\ 1 <= i + 1 /\ i - 1 + 1 = i
          /\ (\A j \in 1..i : 1 + j - 1 = j /\ j \in 1..Len(w))
      BY <1>c, <2>2
    <2>5. /\ Part(base, w) /\ Len(base) = i /\ \A j \in 1..i : base[j] = w[j]
      <3>1. /\ Part(base, w) /\ Len(base) = i - 1 + 1
            /\ \A j \in 1..(i - 1 + 1) : base[j] = w[1 + j - 1]
        BY <2>3, <2>4, PartSub
      <3> HIDE DEF base
      <3> QED BY <2>4, <3>1
    <2> HIDE DEF base
    <2>6. Conv(base, keys)
      BY <1>c, <2>2, <2>5, PartKeeps
    <2>7. ~Pending(w[i])
      BY <1>c, <2>2 DEF Conv
    <2>8. ASSUME Tidy(w), NEW j \in 1..i PROVE ~Pending(base[j])
      <3>1. CASE j = i
        BY <2>5, <2>7, <3>1
      <3>2. CASE j # i
        <4>1. j # Len(w) /\ j \in 1..Len(w)
          BY <1>c, <2>2, <3>2
        <4> QED BY <2>5, <2>8, <4>1 DEF Tidy
      <3> QED BY <3>1, <3>2
    <2>9. ~overwrote => Settled(base)
      BY <1>g, <2>2, <2>5, <2>8 DEF PendInv, Settled
    <2>10. NextRequest \in Requests
      BY <2>1, NextFree DEF Free
    <2>11. keys <= keys /\ events' \in 0..MaxEvents
      BY <1>g, <1>k, <2>1, PlaygroundAssumption DEF PageTypes
    <2> QED BY <1>k, <2>1, <2>6, <2>9, <2>10, <2>11, PageSent
  <1> QED BY <1>1, <1>2, <1>3

LEMMA PageClicks ==
    ASSUME Good,
           \/ ClearMessages
           \/ \E i \in 1..Len(messages) : SaveEdit(i) \/ DeleteMessage(i)
    PROVE  PageGood'
  <1>g. PageTypes /\ ConvInv /\ QueueInv /\ ScreenInv /\ PendInv /\ NetGood
    BY DEF Good, PageGood
  <1>k. Conv(messages, keys) /\ overwrote \in BOOLEAN
    BY <1>g DEF ConvInv, PageTypes
  <1>c. messages \in Seq(MessageSet) /\ Len(messages) \in Nat
    BY <1>k, ConvItems
  <1>e. events \in 0..MaxEvents /\ events < MaxEvents => events + 1 \in 0..MaxEvents
    BY PlaygroundAssumption
  <1>1. CASE ClearMessages
    <2>1. /\ Click(<<>>) /\ ~generating /\ editing' = None /\ mounted = "yes"
          /\ UNCHANGED <<keys, stored, unsaved, mounted, overwrote>>
          /\ events < MaxEvents /\ events' = events + 1
      BY <1>1 DEF ClearMessages, Event
    <2>2. ~requesting /\ events' \in 0..MaxEvents
      BY <1>e, <1>g, <2>1 DEF ScreenInv, PageTypes
    <2>3. Conv(<<>>, keys) /\ Tidy(<<>>) /\ Settled(<<>>)
      BY EmptyConv
    <2> QED BY <1>k, <2>1, <2>2, <2>3, PageClicked
  <1>2. ASSUME NEW i \in 1..Len(messages), DeleteMessage(i) PROVE PageGood'
    <2>1. /\ Click(RemoveAt(Rendered(messages, queue), i)) /\ ~generating
          /\ mounted = "yes" /\ UNCHANGED <<editing, keys, stored, unsaved, mounted, overwrote>>
          /\ events < MaxEvents /\ events' = events + 1
      BY <1>2 DEF DeleteMessage, Event
    <2>2. ~requesting /\ queue = <<>> /\ events' \in 0..MaxEvents
      BY <1>e, <1>g, <2>1 DEF ScreenInv, PageTypes
    <2> DEFINE ms == RemoveAt(messages, i)
    <2>3. Click(ms)
      <3>1. Rendered(messages, queue) = messages
        BY <2>2, RenderedEmpty
      <3> QED BY <2>1, <3>1
    <2>4. Part(ms, messages)
      BY <1>c, PartRemoved
    <2>5. Conv(ms, keys) /\ (Tidy(messages) => Tidy(ms)) /\ (Settled(messages) => Settled(ms))
      BY <1>c, <1>k, <2>4, PartKeeps
    <2> HIDE DEF ms
    <2>6. ~overwrote => Tidy(ms) /\ Settled(ms)
      BY <1>g, <2>1, <2>5 DEF PendInv
    <2> QED BY <1>k, <2>1, <2>2, <2>3, <2>5, <2>6, PageClicked
  <1>3. ASSUME NEW i \in 1..Len(messages), SaveEdit(i) PROVE PageGood'
    <2> DEFINE ms == WithEdit(i)
    <2>1. /\ Click(ms) /\ editing' = None /\ messages[i].key = editing
          /\ overwrote' = (overwrote \/ queue # <<>>)
          /\ mounted = "yes" /\ UNCHANGED <<keys, stored, unsaved, mounted>>
          /\ events < MaxEvents /\ events' = events + 1
      BY <1>3 DEF SaveEdit, Event
    <2>2. events' \in 0..MaxEvents
      BY <1>e, <1>g, <2>1 DEF PageTypes
    <2>3. /\ Conv(ms, keys) /\ Len(ms) = Len(messages)
          /\ (Tidy(messages) => Tidy(ms)) /\ (Settled(messages) => Settled(ms))
          /\ \A j \in 1..Len(messages) : j # i => ms[j] = messages[j]
      BY <1>k, EditedConv
    <2> HIDE DEF ms
    <2>4. ASSUME requesting
          PROVE  /\ ms # <<>> /\ Pending(Last(ms))
                 /\ Last(ms).key \notin {editing', None}
      <3>1. /\ messages # <<>> /\ Pending(Last(messages))
            /\ Last(messages).key \notin {editing, None}
        BY <1>g, <2>4 DEF ScreenInv
      <3>2. Last(messages) = messages[Len(messages)] /\ Len(messages) \in 1..Len(messages)
        BY <1>k, <3>1, ConvItems
      <3>3. Len(messages) # i
        BY <2>1, <3>1, <3>2
      <3>4. ms # <<>> /\ Last(ms) = ms[Len(ms)]
        BY <2>3, <3>2, ConvItems
      <3>5. Last(ms) = Last(messages)
        BY <2>3, <3>2, <3>3, <3>4
      <3> QED BY <2>1, <3>1, <3>4, <3>5
    <2>5. ~overwrote' => Tidy(ms) /\ (~requesting => Settled(ms))
      <3>1. ~overwrote' => ~overwrote /\ queue = <<>>
        BY <2>1
      <3> QED BY <1>g, <2>3, <3>1 DEF PendInv, ScreenInv
    <2>6. overwrote' \in BOOLEAN /\ (overwrote => overwrote')
      BY <1>k, <2>1
    <2> QED BY <2>1, <2>2, <2>3, <2>4, <2>5, <2>6, PageClicked
  <1> QED BY <1>1, <1>2, <1>3

\* What is left of a queue that a stop leaves.
LEMMA SurvivorsAre ==
    ASSUME NEW q \in Seq(UpdateSet)
    PROVE  /\ Survivors(q) \in Seq(UpdateSet)
           /\ Survivors(q) = <<>> \/ Survivors(q) = <<q[1]>>
           /\ Survivors(q) # <<>> => q # <<>> /\ q[1].sure
  <1>1. q # <<>> => q[1] \in UpdateSet
    OBVIOUS
  <1>2. q # <<>> => <<q[1]>> \in Seq(UpdateSet) /\ <<q[1]>> # <<>>
    BY <1>1
  <1> QED BY <1>2, NoUpdates DEF Survivors

StopCalls ==
    LET us == FlushUpdates IN
    IF queue = <<>> /\ us # <<>> THEN {us, [us EXCEPT ![1].sure = TRUE]}
    ELSE {queue \o us}

LEMMA StopCallsAre ==
    ASSUME queue \in Seq(UpdateSet), pending \in ChunkSet, NEW q \in StopCalls
    PROVE  /\ q \in Seq(UpdateSet)
           /\ queue # <<>> => q # <<>> /\ q[1] = queue[1]
           /\ queue = <<>> /\ q # <<>> => Same(q[1], Update("flush", pending, None))
  <1> DEFINE us == FlushUpdates
  <1>1. /\ us \in Seq(UpdateSet) /\ Len(us) \in Nat
        /\ \A n \in 1..Len(us) : us[n] = Update("flush", pending, None)
    BY FlushUpdatesAre
  <1>d. q \in IF queue = <<>> /\ us # <<>> THEN {us, [us EXCEPT ![1].sure = TRUE]}
              ELSE {queue \o us}
    BY DEF StopCalls
  <1> HIDE DEF us
  <1>2. us # <<>> => /\ 1 \in 1..Len(us) /\ us[1] = Update("flush", pending, None)
                     /\ us[1] \in UpdateSet
    BY <1>1
  <1>3. CASE queue = <<>> /\ us # <<>>
    <2> DEFINE v == [us[1] EXCEPT !.sure = TRUE]
    <2>1. v \in UpdateSet /\ Same(v, us[1]) /\ Same(us[1], us[1])
      BY <1>2, <1>3 DEF UpdateSet, Same
    <2>2. q \in {us, [us EXCEPT ![1] = v]}
      BY <1>d, <1>3
    <2> HIDE DEF v
    <2>3. /\ [us EXCEPT ![1] = v] \in Seq(UpdateSet) /\ [us EXCEPT ![1] = v][1] = v
      BY <1>1, <1>2, <1>3, <2>1
    <2> QED BY <1>1, <1>2, <1>3, <2>1, <2>2, <2>3
  <1>4. CASE ~(queue = <<>> /\ us # <<>>)
    <2>1. q = queue \o us
      BY <1>d, <1>4
    <2>2. CASE queue # <<>>
      <3>1. q \in Seq(UpdateSet) /\ q[1] = queue[1] /\ q # <<>>
        BY <1>1, <2>1, <2>2
      <3> QED BY <2>2, <3>1
    <2>3. CASE queue = <<>> /\ us = <<>>
      <3>1. q = <<>>
        BY <2>1, <2>3
      <3> QED BY <2>3, <3>1, NoUpdates
    <2> QED BY <1>4, <2>2, <2>3
  <1> QED BY <1>3, <1>4

\* What a stop renders: at most the first updater, and the stop.
LEMMA StopRenders ==
    ASSUME queue \in Seq(UpdateSet), pending \in ChunkSet, NEW q \in StopCalls
    PROVE  LET s == Survivors(q)
               p == Append(s, Update("stop", NoChunks, None))
           IN /\ p \in Seq(UpdateSet) /\ p # <<>> /\ p[Len(p)].kind = "stop"
              /\ \A ms : Rendered(ms, p) =
                    UpdateLast(IF s = <<>> THEN ms ELSE UpdateLast(ms, q[1]),
                               Update("stop", NoChunks, None))
  <1> DEFINE s == Survivors(q)
             u == Update("stop", NoChunks, None)
             p == Append(s, u)
  <1>1. q \in Seq(UpdateSet)
    BY StopCallsAre
  <1>2. s \in Seq(UpdateSet) /\ (s = <<>> \/ s = <<q[1]>>)
    BY <1>1, SurvivorsAre
  <1>3. u \in UpdateSet /\ u.kind = "stop"
    BY UpdateIs, NoChunksIs
  <1> HIDE DEF s, u
  <1>4. /\ p \in Seq(UpdateSet) /\ Len(p) = Len(s) + 1 /\ p[Len(p)] = u /\ p # <<>>
        /\ \A n \in 1..Len(s) : p[n] = s[n]
    <2>0. s \in Seq(UpdateSet) /\ Len(s) \in Nat /\ u \in UpdateSet
      BY <1>2, <1>3
    <2>1. p \in Seq(UpdateSet) /\ Len(p) = Len(s) + 1 /\ p[Len(s) + 1] = u
          /\ \A n \in 1..Len(s) : p[n] = s[n]
      BY <2>0
    <2> HIDE DEF p
    <2>2. p # <<>>
      BY <2>0, <2>1
    <2> QED BY <2>1, <2>2
  <1> HIDE DEF p
  <1>5. ASSUME NEW ms PROVE Rendered(ms, p) = UpdateLast(Rendered(ms, s), u)
    <2>1. Len(s) <= Len(p)
      BY <1>2, <1>4
    <2> QED BY <1>2, <1>4, <2>1, RenderedAgree
  <1>6. ASSUME NEW ms, s = <<q[1]>> PROVE Rendered(ms, s) = UpdateLast(ms, q[1])
    <2>1. Len(s) = 1 /\ s[1] = q[1]
      BY <1>6
    <2>e. Len(<<>>) = 0 /\ 1..0 = {}
      OBVIOUS
    <2>2. Rendered(ms, s) = UpdateLast(Rendered(ms, <<>>), s[Len(s)])
      <3>1. Len(<<>>) <= Len(s) /\ Len(s) = Len(<<>>) + 1
        BY <2>1, <2>e
      <3>2. \A n \in 1..Len(<<>>) : \A x : UpdateLast(x, s[n]) = UpdateLast(x, <<>>[n])
        BY <2>e
      <3> QED BY <1>2, <3>1, <3>2, NoUpdates, RenderedAgree
    <2> QED BY <2>1, <2>2, RenderedEmpty
  <1>7. \A ms : Rendered(ms, p) =
            UpdateLast(IF s = <<>> THEN ms ELSE UpdateLast(ms, q[1]), u)
    BY <1>2, <1>5, <1>6, RenderedEmpty
  <1> QED BY <1>3, <1>4, <1>7 DEF p, u, s

LEMMA PageStopped ==
    ASSUME Good, StopGeneration
    PROVE  PageGood'
  <1>g. PageTypes /\ ScreenInv
    BY DEF Good, PageGood
  <1>1. PICK q \in StopCalls :
            RenderClick(Rendered(messages,
                                 Append(Survivors(q), Update("stop", NoChunks, None))))
    BY DEF StopGeneration, StopCalls
  <1> DEFINE p == Append(Survivors(q), Update("stop", NoChunks, None))
  <1>2. p \in Seq(UpdateSet) /\ p # <<>> /\ p[Len(p)].kind = "stop"
    BY <1>g, StopRenders DEF PageTypes
  <1>3. messages' = Rendered(messages, p) /\ queue' = <<>> /\ saveTimer' = TRUE
    BY <1>1 DEF RenderClick
  <1> HIDE DEF p
  <1>4. /\ pending' = NoChunks /\ flushTimer' = FALSE /\ requesting' = FALSE
        /\ generating' = FALSE /\ mounted = "yes" /\ generating
        /\ UNCHANGED <<editing, keys, stored, unsaved, mounted, history>>
    BY DEF StopGeneration
  <1> QED BY <1>2, <1>3, <1>4, NoChunksIs, PageRendered

LEMMA PageRenders ==
    ASSUME Good, Render
    PROVE  PageGood'
  <1>g. PageTypes /\ ScreenInv /\ QueueInv /\ NetGood
    BY DEF Good, PageGood
  <1>1. /\ mounted = "yes" /\ messages' = Rendered(messages, queue) /\ queue' = <<>>
        /\ generating' = (requesting \/ Streaming)
        /\ saveTimer' = (saveTimer \/ queue # <<>>)
        /\ UNCHANGED <<pending, flushTimer, requesting, source, editing, keys,
                       stored, unsaved, mounted, history>>
    BY DEF Render, net
  <1>2. generating' = requesting' /\ requesting' \in BOOLEAN
    BY <1>g, <1>1, StreamingRequests
  <1>t. /\ queue \in Seq(UpdateSet) /\ pending \in ChunkSet /\ flushTimer \in BOOLEAN
        /\ saveTimer \in BOOLEAN /\ Len(queue) \in Nat
    BY <1>g DEF PageTypes
  <1>3. requesting => \A n \in 1..Len(queue) : queue[n].kind = "flush"
    BY <1>g DEF QueueInv
  <1>4. ~requesting /\ generating => queue # <<>> /\ queue[Len(queue)].kind \in Terminal \cup {"stop"}
    <2>1. queue # <<>> => Len(queue) \in 1..Len(queue)
      BY <1>t
    <2> QED BY <1>g, <2>1 DEF QueueInv, ScreenInv
  <1>5. ~generating => queue = <<>>
    BY <1>g DEF ScreenInv
  <1>6. flushTimer' \/ pending' # NoChunks => Streaming'
    BY <1>g, <1>1 DEF ScreenInv, Streaming
  <1>7. saveTimer' \in BOOLEAN /\ (queue # <<>> \/ saveTimer => saveTimer')
    BY <1>1, <1>t
  <1>8. pending' \in ChunkSet /\ flushTimer' \in BOOLEAN /\ (requesting' => requesting)
    BY <1>1, <1>t
  <1> QED BY <1>1, <1>2, <1>t, <1>3, <1>4, <1>5, <1>6, <1>7, <1>8, PageRendered

\* What the network does to the page: an end, a chunk, or nothing.
LEMMA PageNet ==
    ASSUME Good, NEW r \in Requests, NetChanges(r)
    PROVE  PageGood'
  <1>g. PageTypes /\ ConvInv /\ QueueInv /\ ScreenInv /\ NetGood
    BY DEF Good, PageGood
  <1>t. /\ queue \in Seq(UpdateSet) /\ pending \in ChunkSet /\ events \in 0..MaxEvents
        /\ editing \in Nat /\ editing <= keys
    BY <1>g DEF PageTypes, ConvInv
  <1>s. \A n \in 2..Len(queue) : ~queue[n].sure
    BY <1>g DEF QueueInv
  <1>n. None \notin Requests /\ r # None
    BY PlaygroundAssumption DEF None, Requests
  <1>f. req[r].fresh => requesting
    BY <1>g DEF NetGood, NetInv
  \* The end of a stream that is heard, or of a request.
  <1>e. ASSUME NEW kind \in {"finish", "error"}, req[r].fresh, Finish(r, kind),
               UNCHANGED <<Unrendered, disk, history>>
        PROVE  PageGood'
    <2> DEFINE us == Append(FlushUpdates, Update(kind, NoChunks, None))
               n == Len(FlushUpdates)
    <2>1. /\ us \in Seq(UpdateSet) /\ Len(us) = n + 1 /\ us[n + 1].kind = kind
          /\ \A i \in 1..n : us[i].kind = "flush"
          /\ \A i \in 1..Len(us) : ~us[i].sure
      BY <1>t, LastUpdates
    <2>2. n \in Nat
      BY <1>t, FlushUpdatesAre
    <2>3. Enqueue(us) /\ pending' = NoChunks /\ flushTimer' = FALSE /\ requesting' = FALSE
      BY <1>e DEF Finish
    <2> HIDE DEF us, n
    <2>4. Enqueued(us)
      BY <1>t, <1>s, <2>1, <2>3, Enqueues
    <2>5. us[n + 1].kind \in Terminal
      BY <2>1 DEF Terminal
    <2> QED BY <1>e, <1>f, <2>1, <2>2, <2>3, <2>4, <2>5, PageAnswered
  <1>u. ASSUME Unheard, UNCHANGED <<Unrendered, disk, history>>, Streaming => Streaming'
        PROVE  PageGood'
    <2>1. /\ UNCHANGED <<messages, queue, pending, flushTimer, requesting,
                         generating, keys, disk, overwrote>>
          /\ editing' = editing /\ events' = events
      BY <1>u DEF Unheard, Unrendered, history
    <2> QED BY <1>t, <1>u, <2>1, PageSame
  <1>1. CASE HeadersBack(r)
    <2>1. /\ UNCHANGED <<messages, queue, pending, flushTimer, requesting,
                         generating, keys, disk, overwrote>>
          /\ editing' = editing /\ events' = events /\ (source' = source \/ source' = r)
      BY <1>1 DEF HeadersBack, page, history
    <2>2. Streaming => Streaming'
      BY <1>n, <2>1 DEF Streaming
    <2> QED BY <1>t, <2>1, <2>2, PageSame
  <1>2. CASE HeadersFail(r)
    <2>1. UNCHANGED <<Unrendered, disk, history, source>>
      BY <1>2 DEF HeadersFail
    <2>2. CASE req[r].fresh
      <3>1. Finish(r, "error")
        BY <1>2, <2>2 DEF HeadersFail, AwaitsHeaders
      <3> QED BY <1>e, <2>1, <2>2, <3>1
    <2>3. CASE ~req[r].fresh
      <3>1. Unheard
        BY <1>2, <2>3 DEF HeadersFail, AwaitsHeaders
      <3>2. Streaming => Streaming'
        BY <2>1 DEF Streaming
      <3> QED BY <1>u, <2>1, <3>1, <3>2
    <2> QED BY <2>2, <2>3
  <1>3. CASE ResponseBack(r)
    <2>1. UNCHANGED <<Unrendered, disk, history, source>>
      BY <1>3 DEF ResponseBack
    <2>2. CASE IsAwaited(r) /\ Finish(r, "error")
      BY <1>e, <2>1, <2>2 DEF IsAwaited
    <2>3. CASE /\ IsAwaited(r) /\ Enqueue(<<Update("response", NoChunks, r)>>)
               /\ requesting' = FALSE /\ UNCHANGED <<pending, flushTimer>>
      <3> DEFINE u == Update("response", NoChunks, r)
                 us == <<u>>
      <3>1. u \in UpdateSet /\ ~u.sure /\ u.kind = "response"
        BY UpdateIs, NoChunksIs
      <3>2. source = None
        BY <1>3, <1>g, <2>3 DEF ResponseBack, IsAwaited, NetGood, NetTypes, NetInv
      <3>3. pending' = NoChunks /\ flushTimer' = FALSE
        BY <1>g, <2>3, <3>2 DEF ScreenInv, Streaming, PageTypes
      <3> HIDE DEF u
      <3>4. /\ us \in Seq(UpdateSet) /\ Len(us) = 0 + 1 /\ us[0 + 1] = u
            /\ \A i \in 1..Len(us) : us[i] = u
        BY <3>1
      <3>5. Enqueue(us)
        BY <2>3 DEF u
      <3> HIDE DEF us
      <3>6. Enqueued(us)
        BY <1>t, <1>s, <3>1, <3>4, <3>5, Enqueues
      <3>7. us[0 + 1].kind \in Terminal /\ 1..0 = {} /\ requesting
        BY <1>f, <2>3, <3>1, <3>4 DEF Terminal, IsAwaited
      <3> QED BY <2>1, <2>3, <3>3, <3>4, <3>6, <3>7, PageAnswered
    <2>4. CASE ~IsAwaited(r)
      <3>1. Unheard
        BY <1>3, <2>4 DEF ResponseBack
      <3>2. Streaming => Streaming'
        BY <2>1 DEF Streaming
      <3> QED BY <1>u, <2>1, <3>1, <3>2
    <2> QED BY <1>3, <2>2, <2>3, <2>4 DEF ResponseBack
  <1>4. CASE StreamGoesSilent(r)
    <2>1. /\ UNCHANGED <<messages, queue, pending, flushTimer, requesting,
                         generating, keys, disk, overwrote>>
          /\ editing' = editing /\ events' = events + 1 /\ events < MaxEvents
          /\ source' = source
      BY <1>4 DEF StreamGoesSilent, page
    <2>2. events' \in 0..MaxEvents
      BY <1>t, <2>1, PlaygroundAssumption
    <2>3. Streaming => Streaming'
      BY <2>1 DEF Streaming
    <2> QED BY <1>t, <2>1, <2>2, <2>3, PageSame
  <1>5. ASSUME NEW type \in Types, NEW k \in 1..MaxChunks, ChunkBack(r, type, k)
        PROVE  PageGood'
    BY <1>5, PageChunk
  <1>6. ASSUME NEW kind \in {"finish", "error"}, StreamEnds(r, kind) PROVE PageGood'
    <2>1. UNCHANGED <<Unrendered, disk, history>>
      BY <1>6 DEF StreamEnds
    <2>2. CASE IsCurrent(r)
      BY <1>6, <1>e, <2>1, <2>2 DEF StreamEnds, IsCurrent
    <2>3. CASE ~IsCurrent(r)
      <3>1. Unheard /\ source' = source
        BY <1>6, <2>3 DEF StreamEnds
      <3>2. Streaming => Streaming'
        BY <3>1 DEF Streaming
      <3> QED BY <1>u, <2>1, <3>1, <3>2
    <2> QED BY <2>2, <2>3
  <1> QED BY <1>1, <1>2, <1>3, <1>4, <1>5, <1>6 DEF NetChanges

\* The editor is opened or closed.
LEMMA PageEdits ==
    ASSUME Good,
           CancelEdit \/ \E i \in 1..Len(messages) : EditMessage(i)
    PROVE  PageGood'
  <1>g. PageTypes /\ ConvInv
    BY DEF Good, PageGood
  <1>t. /\ events \in 0..MaxEvents /\ keys \in Nat /\ Conv(messages, keys)
    BY <1>g DEF PageTypes, ConvInv
  <1>1. CASE CancelEdit
    <2>1. /\ UNCHANGED <<messages, queue, pending, flushTimer, requesting,
                         generating, keys, disk, overwrote>>
          /\ editing' = None /\ events' = events /\ source' = source
      BY <1>1 DEF CancelEdit, history, net
    <2>2. editing' \in Nat /\ editing' <= keys /\ (Streaming => Streaming')
      BY <1>t, <2>1 DEF None, Streaming
    <2> QED BY <1>t, <2>1, <2>2, PageSame
  <1>2. ASSUME NEW i \in 1..Len(messages), EditMessage(i) PROVE PageGood'
    <2>1. /\ UNCHANGED <<messages, queue, pending, flushTimer, requesting,
                         generating, keys, disk, overwrote>>
          /\ editing' = messages[i].key /\ ~generating /\ source' = source
          /\ events < MaxEvents /\ events' = events + 1
      BY <1>2 DEF EditMessage, Event, net
    <2>2. messages[i].key \in Nat /\ messages[i].key <= keys
      BY <1>t, ConvItems, MessageFields DEF Conv
    <2>3. events' \in 0..MaxEvents /\ (Streaming => Streaming')
      BY <1>t, <2>1, PlaygroundAssumption DEF Streaming
    <2> QED BY <2>1, <2>2, <2>3, PageSame
  <1> QED BY <1>1, <1>2

LEMMA GoodInit ==
    ASSUME Init
    PROVE  Good
  BY NetInit, PageInit DEF Good

LEMMA GoodStep ==
    ASSUME Good, [Next]_vars
    PROVE  Good'
  <1>1. NetGood'
    BY NetStepGood DEF Good
  <1>2. CASE UNCHANGED vars
    <2>1. UNCHANGED <<messages, queue, pending, flushTimer, requesting, generating,
                      keys, disk, overwrote, editing, events, source>>
      BY <1>2 DEF vars, page, net, history
    <2>2. events \in 0..MaxEvents /\ editing \in Nat /\ editing <= keys
      BY DEF Good, PageGood, PageTypes, ConvInv
    <2>3. Streaming => Streaming'
      BY <2>1 DEF Streaming
    <2>4. PageGood'
      BY <2>1, <2>2, <2>3, PageSame
    <2> QED BY <1>1, <2>4 DEF Good
  <1>3. CASE UserStep
    <2>1. PageGood'
      BY <1>3, PageSends, PageClicks, PageStopped, PageLeft, PageEdits DEF UserStep
    <2> QED BY <1>1, <2>1 DEF Good
  <1>4. CASE SystemStep \/ \E r \in Requests : StreamGoesSilent(r)
    <2>1. ASSUME NEW r \in Requests, NetStep(r) \/ StreamGoesSilent(r) PROVE NetChanges(r)
      BY <2>1 DEF NetStep, NetChanges
    <2>2. PageGood'
      BY <1>4, <2>1, PageRenders, PageFlushed, PageLoaded, PageSaved, PageNet DEF SystemStep
    <2> QED BY <1>1, <2>2 DEF Good
  <1> QED BY <1>2, <1>3, <1>4 DEF Next

LEMMA GoodHolds == Spec => []Good
  BY GoodInit, GoodStep, PTL DEF Spec

\* Every variable keeps its type, keys are unique, and what is stored fits.
THEOREM PlaygroundTypes == Spec => []TypeOK
  <1>1. Good => TypeOK
    <2> SUFFICES ASSUME Good PROVE TypeOK
      OBVIOUS
    <2>1. PageTypes /\ ConvInv /\ NetTypes
      BY DEF Good, PageGood, NetGood
    <2>2. /\ messages \in Messages /\ stored \in Messages /\ Len(stored) <= MaxStored
          /\ \A i, j \in 1..Len(messages) : messages[i].key = messages[j].key => i = j
      BY <2>1, MessagesAre DEF ConvInv, Conv
    <2>3. queue \in Seq([kind: {"flush", "finish", "error", "response", "stop"},
                         chunks: [reasoning: Texts, content: Texts],
                         req: Requests \cup {None}, sure: BOOLEAN])
          /\ pending \in [reasoning: Texts, content: Texts]
      BY <2>1 DEF PageTypes, UpdateSet, ChunkSet
    <2>4. req \in [Requests -> [at: {"none", "headers", "open", "silent", "plain", "over"},
                                fresh: BOOLEAN, live: BOOLEAN,
                                reasoning: 0..MaxChunks, content: 0..MaxChunks]]
      BY <2>1 DEF NetTypes, RequestSet, Stages
    <2> QED BY <2>1, <2>2, <2>3, <2>4 DEF TypeOK, PageTypes, NetTypes
  <1> QED BY <1>1, GoodHolds, PTL

\* Whatever is unmounted, loaded or cut, no path loses track of a save; only an
\* error that was swallowed leaves localStorage behind, until the next save.
THEOREM NothingIsLost == Spec => []NothingUnsaved
  <1>1. Good => NothingUnsaved
    BY DEF Good, PageGood
  <1> QED BY <1>1, GoodHolds, PTL

\* Once nothing is requested, streamed or to be rendered, every message is
\* final, unless an edit was saved over an update.
THEOREM IdleMeansFinal == Spec => []NoPendingWhenIdle
  <1>1. Good => NoPendingWhenIdle
    BY DEF Good, PageGood, NoPendingWhenIdle, PendInv, ScreenInv, Settled, PageTypes
  <1> QED BY <1>1, GoodHolds, PTL

-----------------------------------------------------------------------------
(* Messages that are final. *)

\* From ms to ns, a message that was final keeps its status, and its text
\* unless it is edited.
Stays(ns, ms) ==
    \A i \in 1..Len(ms) :
       /\ Final(ms[i]) /\ i <= Len(ns)
       /\ ns[i].key = ms[i].key
       => /\ ns[i].status = ms[i].status
          /\ ns[i].text \in {ms[i].text, Edited}

LEMMA PartStays ==
    ASSUME NEW k, NEW ms, Conv(ms, k), NEW ns, Part(ns, ms)
    PROVE  Stays(ns, ms)
  <1>1. PICK f : /\ \A i \in 1..Len(ns) : f[i] \in 1..Len(ms) /\ ns[i] = ms[f[i]]
                 /\ \A i, j \in 1..Len(ns) : i < j => f[i] < f[j]
    BY DEF Part
  <1>2. Len(ns) \in Nat /\ Len(ms) \in Nat
    BY DEF Part, Conv
  <1>3. ASSUME NEW i \in 1..Len(ms), i <= Len(ns), ns[i].key = ms[i].key
        PROVE  ns[i] = ms[i]
    <2>1. i \in 1..Len(ns)
      BY <1>2, <1>3
    <2>2. f[i] \in 1..Len(ms) /\ ms[f[i]].key = ms[i].key
      BY <1>1, <1>3, <2>1
    <2>3. f[i] = i
      BY <2>2 DEF Conv
    <2> QED BY <1>1, <2>1, <2>3
  <1> QED BY <1>3 DEF Stays

\* What is appended has a new key.
LEMMA AppendStays ==
    ASSUME NEW k \in Nat, NEW ms, Conv(ms, k), NEW base \in Seq(MessageSet),
           Stays(base, ms), NEW m, m.key \in Nat, m.key > k
    PROVE  Stays(Append(base, m), ms)
  <1>1. /\ Len(Append(base, m)) = Len(base) + 1 /\ Append(base, m)[Len(base) + 1] = m
        /\ \A i \in 1..Len(base) : Append(base, m)[i] = base[i]
        /\ Len(base) \in Nat
    OBVIOUS
  <1> DEFINE ns == Append(base, m)
  <1> HIDE DEF ns
  <1>2. ASSUME NEW i \in 1..Len(ms), Final(ms[i]), i <= Len(ns), ns[i].key = ms[i].key
        PROVE  ns[i].status = ms[i].status /\ ns[i].text \in {ms[i].text, Edited}
    <2>0. ms[i].key \in Nat /\ ms[i].key <= k /\ i \in Nat /\ i >= 1
      BY ConvItems, MessageFields DEF Conv
    <2>1. CASE i <= Len(base)
      <3>1. ns[i] = base[i]
        BY <1>1, <2>0, <2>1 DEF ns
      <3> QED BY <1>2, <2>1, <3>1 DEF Stays
    <2>2. CASE ~(i <= Len(base))
      <3>1. i = Len(base) + 1
        BY <1>1, <1>2, <2>0, <2>2 DEF ns
      <3>2. ns[i].key = m.key
        BY <1>1, <3>1 DEF ns
      <3> QED BY <1>2, <2>0, <3>2
    <2> QED BY <2>1, <2>2
  <1>3. Stays(ns, ms)
    BY <1>2 DEF Stays
  <1> QED BY <1>3 DEF ns

LEMMA EditStays ==
    ASSUME NEW k, Conv(messages, k), NEW i \in 1..Len(messages)
    PROVE  Stays(WithEdit(i), messages)
  <1>1. ASSUME NEW j \in 1..Len(messages)
        PROVE  /\ WithEdit(i)[j].status = messages[j].status
               /\ WithEdit(i)[j].text \in {messages[j].text, Edited}
    <2>1. /\ j # i => WithEdit(i)[j] = messages[j]
          /\ WithEdit(i)[j].status = messages[j].status
          /\ WithEdit(i)[i] = [messages[i] EXCEPT !.text = Edited]
      BY EditedConv
    <2>2. messages[i] \in MessageSet
      BY ConvItems
    <2>3. [messages[i] EXCEPT !.text = Edited].text = Edited
      BY <2>2 DEF MessageSet
    <2> QED BY <2>1, <2>3
  <1> QED BY <1>1 DEF Stays

\* Updaters reach the last message only, which is pending if there are any.
LEMMA RenderedStays ==
    ASSUME NEW k, NEW ms, Conv(ms, k), NEW q \in Seq(UpdateSet),
           ms = <<>> \/ Pending(Last(ms)) \/ q = <<>>
    PROVE  Stays(Rendered(ms, q), ms)
  <1>1. \A i \in 1..Len(ms) : i # Len(ms) => Rendered(ms, q)[i] = ms[i]
    BY RenderedConv
  <1>2. CASE q = <<>>
    BY <1>2, RenderedEmpty DEF Stays
  <1>3. CASE q # <<>>
    <2>1. ASSUME NEW i \in 1..Len(ms), Final(ms[i]) PROVE i # Len(ms)
      <3>1. Len(ms) \in Nat /\ (ms # <<>> => Last(ms) = ms[Len(ms)])
        BY ConvItems
      <3>2. ms # <<>>
        BY <3>1
      <3>3. Pending(ms[Len(ms)])
        BY <1>3, <3>1, <3>2
      <3> QED BY <2>1, <3>3 DEF Pending, Final
    <2> QED BY <1>1, <2>1 DEF Stays
  <1> QED BY <1>2, <1>3

LEMMA StaysSends ==
    ASSUME Good,
           \/ SendMessage
           \/ \E i \in 1..Len(messages) : RegenerateMessage(i) \/ SubmitEdit(i)
    PROVE  Stays(messages', messages)
  <1>k. keys \in Nat /\ Conv(messages, keys) /\ messages \in Seq(MessageSet)
        /\ Len(messages) \in Nat
    BY ConvItems DEF Good, PageGood, PageTypes, ConvInv
  <1>0. Stays(messages, messages)
    BY <1>k, PartSelf, PartStays
  <1>l. \A n, r : LoadingMessage(n, r).key = n /\ UserMessage(n).key = n
    BY DEF LoadingMessage, UserMessage
  <1>1. CASE SendMessage
    <2> DEFINE m == UserMessage(keys + 1)
               base == Append(messages, m)
               l == LoadingMessage(keys + 2, NextRequest)
    <2>1. messages' = Append(base, l)
      BY <1>1 DEF SendMessage, SendChat, RenderClick
    <2>2. m \in MessageSet /\ m.key = keys + 1
      BY <1>k, FixedTexts DEF UserMessage, MessageSet, Statuses
    <2>3. l.key = keys + 2
      BY <1>l
    <2> HIDE DEF m, l
    <2>4. keys + 1 \in Nat /\ keys + 1 > keys /\ keys + 2 \in Nat /\ keys + 2 > keys
      BY <1>k
    <2>5. base \in Seq(MessageSet)
      BY <1>k, <2>2
    <2>6. Stays(base, messages)
      BY <1>k, <1>0, <2>2, <2>4, AppendStays
    <2> HIDE DEF base
    <2> QED BY <1>k, <2>1, <2>3, <2>4, <2>5, <2>6, AppendStays
  <1>2. ASSUME NEW i \in 1..Len(messages), RegenerateMessage(i)
        PROVE  Stays(messages', messages)
    <2> DEFINE b == IF messages[i].from = "user" THEN i ELSE i - 1
               base == SubSeq(messages, 1, b)
               l == LoadingMessage(keys + 1, NextRequest)
    <2>1. 1 \in 1..(Len(messages) + 1) /\ b \in 0..Len(messages) /\ 1 <= b + 1
      BY <1>k
    <2>2. messages' = Append(base, l)
      BY <1>2 DEF RegenerateMessage, Regenerated, SendChat, RenderClick
    <2> HIDE DEF b
    <2>3. Part(base, messages)
      BY <1>k, <2>1, PartSub
    <2>4. l.key \in Nat /\ l.key > keys
      BY <1>k, <1>l
    <2> HIDE DEF base, l
    <2>5. Stays(base, messages)
      BY <1>k, <2>3, PartStays
    <2>6. base \in Seq(MessageSet)
      BY <2>3 DEF Part
    <2> QED BY <1>k, <2>2, <2>4, <2>5, <2>6, AppendStays
  <1>3. ASSUME NEW i \in 1..Len(messages), SubmitEdit(i)
        PROVE  Stays(messages', messages)
    <2> DEFINE w == WithEdit(i)
               base == SubSeq(w, 1, i)
               l == LoadingMessage(keys + 1, NextRequest)
    <2>1. messages' = Append(base, l)
      BY <1>3 DEF SubmitEdit, SendChat, RenderClick
    <2>2. Conv(w, keys) /\ Len(w) = Len(messages) /\ Stays(w, messages)
          /\ \A j \in 1..Len(messages) : w[j].key = messages[j].key
      BY <1>k, EditedConv, EditStays
    <2> HIDE DEF w
    <2>3. w \in Seq(MessageSet)
      BY <2>2, ConvItems
    <2>4. 1 \in 1..(Len(w) + 1) /\ i \in 0..Len(w) /\ 1 <= i + 1 /\ i - 1 + 1 = i
          /\ \A j \in 1..i : 1 + j - 1 = j
      BY <1>k, <2>2
    <2>5. base \in Seq(MessageSet) /\ Len(base) = i /\ \A j \in 1..i : base[j] = w[j]
      <3>1. /\ Part(base, w) /\ Len(base) = i - 1 + 1
            /\ \A j \in 1..(i - 1 + 1) : base[j] = w[1 + j - 1]
        BY <2>3, <2>4, PartSub
      <3>2. base \in Seq(MessageSet)
        BY <3>1 DEF Part
      <3> HIDE DEF base
      <3> QED BY <2>4, <3>1, <3>2
    <2>6. l.key \in Nat /\ l.key > keys
      BY <1>k, <1>l
    <2> HIDE DEF base, l
    <2>7. \A j \in 1..Len(messages) : j <= Len(base) => base[j] = w[j] /\ j <= Len(w)
      BY <1>k, <2>2, <2>5
    <2>8. Stays(base, messages)
      BY <2>2, <2>7 DEF Stays
    <2> QED BY <1>k, <2>1, <2>5, <2>6, <2>8, AppendStays
  <1> QED BY <1>1, <1>2, <1>3

LEMMA StaysStep ==
    ASSUME Good, [Next]_vars
    PROVE  Stays(messages', messages)
  <1>g. PageTypes /\ ConvInv /\ ScreenInv
    BY DEF Good, PageGood
  <1>k. /\ Conv(messages, keys) /\ messages \in Seq(MessageSet) /\ Len(messages) \in Nat
        /\ queue \in Seq(UpdateSet) /\ pending \in ChunkSet
    BY <1>g, ConvItems DEF PageTypes, ConvInv
  <1>0. messages' = messages => Stays(messages', messages)
    BY DEF Stays
  <1>e. messages' = <<>> \/ messages = <<>> => Stays(messages', messages)
    BY <1>k DEF Stays
  <1>1. CASE \/ SendMessage
             \/ \E i \in 1..Len(messages) : RegenerateMessage(i) \/ SubmitEdit(i)
    BY <1>1, StaysSends
  <1>2. CASE ClearMessages \/ Unmount \/ Reload \/ Load
    BY <1>2, <1>e, <1>g DEF ClearMessages, Click, RenderClick, Unmount, Reload, Fresh,
                           Load, ScreenInv
  <1>3. CASE CancelEdit \/ Flush \/ Save \/ UNCHANGED vars
    BY <1>3, <1>0 DEF CancelEdit, Flush, Save, Unrendered, page, vars
  <1>4. ASSUME NEW r \in Requests, NetStep(r) \/ StreamGoesSilent(r)
        PROVE  messages' = messages
    BY <1>4 DEF NetStep, HeadersBack, HeadersFail, ResponseBack, ChunkBack, StreamEnds,
                StreamGoesSilent, Unrendered, page
  <1>5. CASE Render
    <2>1. messages' = Rendered(messages, queue)
      BY <1>5 DEF Render
    <2>2. messages = <<>> \/ Pending(Last(messages)) \/ queue = <<>>
      BY <1>g DEF ScreenInv
    <2> QED BY <1>k, <2>1, <2>2, RenderedStays
  <1>6. CASE StopGeneration
    <2>1. PICK q \in StopCalls :
              messages' = Rendered(messages,
                              Append(Survivors(q), Update("stop", NoChunks, None)))
      BY <1>6 DEF StopGeneration, StopCalls, RenderClick
    <2>2. Append(Survivors(q), Update("stop", NoChunks, None)) \in Seq(UpdateSet)
      BY <1>k, StopRenders
    <2>3. Pending(Last(messages))
      BY <1>6, <1>g DEF StopGeneration, ScreenInv
    <2> QED BY <1>k, <2>1, <2>2, <2>3, RenderedStays
  <1>7. ASSUME NEW i \in 1..Len(messages), EditMessage(i) \/ SaveEdit(i)
        PROVE  Stays(messages', messages)
    <2>1. messages' = messages \/ messages' = WithEdit(i)
      BY <1>7 DEF EditMessage, SaveEdit, Click, RenderClick
    <2> QED BY <1>0, <1>k, <2>1, EditStays
  <1>8. ASSUME NEW i \in 1..Len(messages), DeleteMessage(i)
        PROVE  Stays(messages', messages)
    <2>1. messages' = RemoveAt(Rendered(messages, queue), i) /\ ~generating
      BY <1>8 DEF DeleteMessage, Click, RenderClick
    <2>2. queue = <<>>
      BY <1>g, <2>1 DEF ScreenInv
    <2>3. messages' = RemoveAt(messages, i)
      BY <2>1, <2>2, RenderedEmpty
    <2> QED BY <1>k, <2>3, PartRemoved, PartStays
  <1> QED BY <1>0, <1>1, <1>2, <1>3, <1>4, <1>5, <1>6, <1>7, <1>8
          DEF Next, UserStep, SystemStep

\* No late chunk, end or error reopens or changes a message that was final:
\* only the user's edit does.
THEOREM FinalAnswersAreKept == Spec => FinalAnswersStay
  <1>1. ASSUME Good, [Next]_vars
        PROVE  [\A i \in 1..Len(messages) :
                  /\ Final(messages[i]) /\ i <= Len(messages')
                  /\ messages'[i].key = messages[i].key
                  => /\ messages'[i].status = messages[i].status
                     /\ messages'[i].text \in {messages[i].text, Edited}]_vars
    BY <1>1, StaysStep DEF Stays
  <1> QED BY <1>1, GoodHolds, PTL DEF Spec, FinalAnswersStay

-----------------------------------------------------------------------------
(* Texts. *)

\* The positions of tokens are numbers.
LEMMA Positions ==
    ASSUME NEW s \in Texts
    PROVE  Len(s) \in Nat /\ \A i \in 1..Len(s) : s[i].n \in Nat
  <1>1. s \in Seq(TokenSet)
    BY TextsAre
  <1>2. \A t \in TokenSet : t.n \in Nat
    BY DEF TokenSet
  <1> QED BY <1>1, <1>2

LEMMA OrderedEmpty ==
    ASSUME NEW r, NEW type, NEW a, NEW b
    PROVE  Ordered(r, type, <<>>, a, b)
  <1>1. Len(<<>>) = 0 /\ 1..0 = {}
    OBVIOUS
  <1> QED BY <1>1 DEF Ordered

LEMMA OrderedWider ==
    ASSUME NEW r, NEW type, NEW s \in Texts, NEW a \in Nat, NEW b \in Nat,
           NEW c \in Nat, NEW d \in Nat, c <= a, b <= d, Ordered(r, type, s, a, b)
    PROVE  Ordered(r, type, s, c, d)
  BY Positions DEF Ordered

LEMMA OrderedRest ==
    ASSUME NEW r, NEW type, NEW s \in Texts, NEW a \in Nat, NEW b \in Nat, NEW k \in Nat,
           k <= Len(s), Ordered(r, type, s, a, b)
    PROVE  SubSeq(s, k + 1, Len(s)) \in Texts
           /\ Ordered(r, type, SubSeq(s, k + 1, Len(s)), a, b)
  <1> DEFINE e == SubSeq(s, k + 1, Len(s))
  <1>0. s \in Seq(TokenSet) /\ Len(s) \in Nat /\ \A i \in 1..Len(s) : s[i].n \in Nat
    BY TextsAre, Positions
  <1>1. /\ e \in Seq(TokenSet) /\ Len(e) = Len(s) - k
        /\ \A i \in 1..(Len(s) - k) : e[i] = s[k + i]
    BY <1>0
  <1> HIDE DEF e
  <1>2. \A i \in 1..(Len(s) - k) : k + i \in 1..Len(s)
    BY <1>0
  <1>3. Ordered(r, type, e, a, b)
    <2>1. ASSUME NEW i \in 1..Len(e)
          PROVE  e[i] = Token(r, type, e[i].n) /\ e[i].n \in (a + 1)..b
      BY <1>1, <1>2, <2>1 DEF Ordered
    <2>2. ASSUME NEW i \in 1..Len(e), NEW j \in 1..Len(e), i < j
          PROVE  e[i].n < e[j].n
      <3>1. e[i] = s[k + i] /\ e[j] = s[k + j]
        BY <1>1
      <3>2. k + i \in 1..Len(s) /\ k + j \in 1..Len(s) /\ k + i < k + j
        BY <1>1, <1>2, <2>2
      <3> QED BY <3>1, <3>2 DEF Ordered
    <2> QED BY <2>1, <2>2 DEF Ordered
  <1> QED BY <1>1, <1>3, TextsAre DEF e

\* Two texts, one after the other.
LEMMA Joined ==
    ASSUME NEW s \in Seq(TokenSet), NEW t \in Seq(TokenSet)
    PROVE  /\ s \o t \in Seq(TokenSet) /\ Len(s \o t) = Len(s) + Len(t)
           /\ \A i \in 1..(Len(s) + Len(t)) :
                 (s \o t)[i] = IF i <= Len(s) THEN s[i] ELSE t[i - Len(s)]
  <1>1. s \o t \in Seq(TokenSet) /\ Len(s \o t) = Len(s) + Len(t)
    OBVIOUS
  <1>2. \A i \in 1..(Len(s) + Len(t)) :
            (s \o t)[i] = IF i <= Len(s) THEN s[i] ELSE t[i - Len(s)]
    BY ConcatProperties
  <1> QED BY <1>1, <1>2

LEMMA OrderedJoined ==
    ASSUME NEW r, NEW type, NEW s \in Texts, NEW t \in Texts,
           NEW a \in Nat, NEW b \in Nat, NEW c \in Nat, a <= b, b <= c,
           Ordered(r, type, s, a, b), Ordered(r, type, t, b, c)
    PROVE  Ordered(r, type, s \o t, a, c)
  <1> DEFINE e == s \o t
             k == Len(s)
  <1>0. /\ s \in Seq(TokenSet) /\ t \in Seq(TokenSet) /\ Len(s) \in Nat /\ Len(t) \in Nat
        /\ \A i \in 1..Len(s) : s[i].n \in Nat
        /\ \A i \in 1..Len(t) : t[i].n \in Nat
    BY TextsAre, Positions
  <1>1. /\ Len(e) = k + Len(t)
        /\ \A i \in 1..(k + Len(t)) : e[i] = IF i <= k THEN s[i] ELSE t[i - k]
    BY <1>0, Joined
  <1> HIDE DEF e
  <1>2. \A i \in 1..(k + Len(t)) : i > k => i - k \in 1..Len(t)
    BY <1>0
  <1>3. ASSUME NEW i \in 1..(k + Len(t))
        PROVE  /\ e[i] = Token(r, type, e[i].n) /\ e[i].n \in (a + 1)..c
               /\ i <= k => e[i] = s[i] /\ i \in 1..Len(s) /\ e[i].n <= b
               /\ i > k => e[i] = t[i - k] /\ i - k \in 1..Len(t) /\ e[i].n > b
    <2>1. CASE i <= k
      <3>1. e[i] = s[i] /\ i \in 1..Len(s)
        BY <1>0, <1>1, <2>1
      <3>2. s[i] = Token(r, type, s[i].n) /\ s[i].n \in (a + 1)..b
        BY <3>1 DEF Ordered
      <3> QED BY <1>0, <2>1, <3>1, <3>2
    <2>2. CASE i > k
      <3>1. e[i] = t[i - k] /\ i - k \in 1..Len(t)
        BY <1>0, <1>1, <1>2, <2>2
      <3> DEFINE j == i - k
      <3>2. t[j] = Token(r, type, t[j].n) /\ t[j].n \in (b + 1)..c
        BY <3>1 DEF Ordered
      <3> QED BY <1>0, <2>2, <3>1, <3>2
    <2> QED BY <1>0, <2>1, <2>2
  <1>4. ASSUME NEW i \in 1..(k + Len(t)), NEW j \in 1..(k + Len(t)), i < j
        PROVE  e[i].n < e[j].n
    <2>1. CASE j <= k
      <3>1. e[i] = s[i] /\ e[j] = s[j] /\ i \in 1..Len(s) /\ j \in 1..Len(s)
        BY <1>0, <1>3, <1>4, <2>1
      <3> QED BY <1>4, <3>1 DEF Ordered
    <2>2. CASE i > k
      <3>1. e[i] = t[i - k] /\ e[j] = t[j - k] /\ i - k \in 1..Len(t) /\ j - k \in 1..Len(t)
        BY <1>0, <1>3, <1>4, <2>2
      <3>2. i - k < j - k
        BY <1>0, <1>4
      <3>3. \A x, y \in 1..Len(t) : x < y => t[x].n < t[y].n
        BY DEF Ordered
      <3> QED BY <3>1, <3>2, <3>3
    <2>3. CASE i <= k /\ j > k
      BY <1>3, <2>3
    <2> QED BY <1>0, <2>1, <2>2, <2>3
  <1>5. Ordered(r, type, e, a, c)
    BY <1>1, <1>3, <1>4 DEF Ordered
  <1> QED BY <1>5 DEF e

\* Texts are equal when their tokens are.
LEMMA TextsEqual ==
    ASSUME NEW s \in Texts, NEW t \in Texts, Len(s) = Len(t),
           \A i \in 1..Len(s) : s[i] = t[i]
    PROVE  s = t
  BY TextsAre

LEMMA TokensJoined ==
    ASSUME NEW r \in Requests, NEW type \in Types, NEW a \in Nat, NEW b \in Nat, NEW c \in Nat,
           a <= b, b <= c
    PROVE  Tokens(r, type, a, b) \o Tokens(r, type, b, c) = Tokens(r, type, a, c)
  <1> DEFINE s == Tokens(r, type, a, b)
             t == Tokens(r, type, b, c)
             w == Tokens(r, type, a, c)
             e == s \o t
  <1>1. /\ s \in Texts /\ Len(s) = b - a /\ \A i \in 1..(b - a) : s[i] = Token(r, type, a + i)
        /\ t \in Texts /\ Len(t) = c - b /\ \A i \in 1..(c - b) : t[i] = Token(r, type, b + i)
        /\ w \in Texts /\ Len(w) = c - a /\ \A i \in 1..(c - a) : w[i] = Token(r, type, a + i)
    <2>1. a <= c
      OBVIOUS
    <2> QED BY <2>1, TokensText
  <1> HIDE DEF s, t, w
  <1>2. s \in Seq(TokenSet) /\ t \in Seq(TokenSet)
    BY <1>1, TextsAre
  <1>3. /\ e \in Seq(TokenSet) /\ Len(e) = Len(s) + Len(t)
        /\ \A i \in 1..(Len(s) + Len(t)) : e[i] = IF i <= Len(s) THEN s[i] ELSE t[i - Len(s)]
    BY <1>2, Joined
  <1> HIDE DEF e
  <1>4. Len(s) + Len(t) = c - a
    BY <1>1
  <1>5. ASSUME NEW i \in 1..(c - a) PROVE e[i] = w[i]
    <2>1. CASE i <= b - a
      BY <1>1, <1>3, <1>4, <2>1
    <2>2. CASE ~(i <= b - a)
      <3> DEFINE j == i - (b - a)
      <3>1. j \in 1..(c - b) /\ b + j = a + i
        BY <2>2
      <3>2. e[i] = t[j]
        BY <1>1, <1>3, <1>4, <2>2
      <3> HIDE DEF j
      <3>3. t[j] = Token(r, type, b + j)
        BY <1>1, <3>1
      <3> QED BY <1>1, <3>1, <3>2, <3>3
    <2> QED BY <2>1, <2>2
  <1>6. e = w
    BY <1>1, <1>3, <1>4, <1>5, TextsAre, TextsEqual
  <1> QED BY <1>6 DEF e, s, t, w

\* The chunks c that are kept for a text t: together they are what was sent of
\* b tokens, in order, and all of it unless deltas repeat one another.
Leads(r, type, t, b, c) ==
    \E a \in 0..b :
        /\ Ordered(r, type, t, 0, a)
        /\ IF r \in Snapshots
             THEN /\ t = Answer(r, type, a)
                  /\ c = IF a = b THEN <<>> ELSE Answer(r, type, b)
             ELSE /\ Ordered(r, type, c, a, b)
                  /\ Unrepeated(r, type) =>
                        t = Answer(r, type, a) /\ c = Tokens(r, type, a, b)

LEMMA LeadsBelongs ==
    ASSUME NEW r \in Requests, NEW type \in Types, NEW b \in 0..MaxChunks, NEW t \in Texts,
           NEW c, Leads(r, type, t, b, c)
    PROVE  Belongs(r, type, t)
  <1>1. PICK a \in 0..b :
            /\ Ordered(r, type, t, 0, a)
            /\ r \in Snapshots \/ Unrepeated(r, type) => t = Answer(r, type, a)
    BY DEF Leads
  <1>2. a \in Nat /\ a <= MaxChunks /\ MaxChunks \in Nat
    BY PlaygroundAssumption
  <1>3. Ordered(r, type, t, 0, MaxChunks)
    BY <1>1, <1>2, OrderedWider
  <1>4. Len(Answer(r, type, a)) = a
    BY <1>2, AnswerText
  <1> QED BY <1>1, <1>3, <1>4 DEF Belongs

LEMMA AnswerBelongs ==
    ASSUME NEW r \in Requests
    PROVE  /\ Belongs(r, "content", Answer(r, "content", MaxChunks))
           /\ \A type \in Types : Belongs(r, type, <<>>) /\ Leads(r, type, <<>>, 0, <<>>)
  <1>0. MaxChunks \in Nat /\ 0 <= MaxChunks /\ "content" \in Types /\ 0 \in 0..MaxChunks
        /\ 0 \in 0..0
    BY PlaygroundAssumption DEF Types
  <1>1. ASSUME NEW type \in Types PROVE Belongs(r, type, <<>>) /\ Leads(r, type, <<>>, 0, <<>>)
    <2>1. Answer(r, type, 0) \in Texts /\ Len(Answer(r, type, 0)) = 0
      BY AnswerText
    <2>2. Answer(r, type, 0) = <<>> /\ Tokens(r, type, 0, 0) = <<>>
      BY <2>1, TextsAre DEF Answer
    <2>3. Leads(r, type, <<>>, 0, <<>>)
      BY <1>0, <2>2, OrderedEmpty DEF Leads
    <2> QED BY <1>0, <2>3, FixedTexts, LeadsBelongs
  <1>2. Belongs(r, "content", Answer(r, "content", MaxChunks))
    <2>1. Len(Answer(r, "content", MaxChunks)) = MaxChunks
      BY <1>0, AnswerText
    <2>2. Ordered(r, "content", Answer(r, "content", MaxChunks), 0, MaxChunks)
      BY <1>0, TokensText DEF Answer
    <2> QED BY <2>1, <2>2 DEF Belongs
  <1> QED BY <1>1, <1>2

\* Deltas without repetition never begin with what they follow.
LEMMA NoRepetition ==
    ASSUME NEW r \in Requests, NEW type \in Types, Unrepeated(r, type),
           NEW a \in Nat, NEW b \in Nat, NEW c \in Nat, a <= b, b <= c, c <= MaxChunks
    PROVE  ~StartsWith(Tokens(r, type, b, c), Tokens(r, type, a, b))
  <1> DEFINE s == Tokens(r, type, a, b)
             t == Tokens(r, type, b, c)
             l == b - a
  <1>1. /\ s \in Texts /\ Len(s) = l /\ \A i \in 1..l : s[i] = Token(r, type, a + i)
        /\ t \in Texts /\ Len(t) = c - b /\ \A i \in 1..(c - b) : t[i] = Token(r, type, b + i)
    BY TokensText
  <1> HIDE DEF s, t
  <1>2. SUFFICES ASSUME StartsWith(t, s) PROVE FALSE
    BY DEF s, t
  <1>3. s # <<>> /\ Len(s) <= Len(t) /\ \A i \in 1..Len(s) : Letter(t[i]) = Letter(s[i])
    BY <1>2 DEF StartsWith
  <1>4. l # 0
    BY <1>1, <1>3, TextsAre
  <1>5. a \in 0..MaxChunks /\ l \in 1..MaxChunks /\ a + 2 * l <= MaxChunks
    BY <1>1, <1>3, <1>4, PlaygroundAssumption
  <1>6. PICK i \in 1..l : Letter(Token(r, type, a + i)) # Letter(Token(r, type, a + l + i))
    BY <1>5 DEF Unrepeated
  <1>7. a + l + i = b + i /\ i \in 1..(c - b)
    BY <1>1, <1>3, <1>6
  <1>8. t[i] = Token(r, type, b + i) /\ s[i] = Token(r, type, a + i)
    BY <1>1, <1>6, <1>7
  <1> QED BY <1>1, <1>3, <1>6, <1>7, <1>8

\* The text so far begins with what it was before.
LEMMA SnapshotStarts ==
    ASSUME NEW r \in Requests, NEW type \in Types, NEW a \in Nat, NEW b \in Nat, a <= b, a # 0
    PROVE  StartsWith(Answer(r, type, b), Answer(r, type, a))
  <1> DEFINE s == Answer(r, type, a)
             t == Answer(r, type, b)
  <1>1. /\ s \in Texts /\ Len(s) = a /\ \A i \in 1..a : s[i] = Token(r, type, i)
        /\ t \in Texts /\ Len(t) = b /\ \A i \in 1..b : t[i] = Token(r, type, i)
    BY AnswerText
  <1> HIDE DEF s, t
  <1>2. s # <<>>
    BY <1>1, TextsAre
  <1>3. \A i \in 1..a : t[i] = s[i]
    BY <1>1
  <1>4. StartsWith(t, s)
    BY <1>1, <1>2, <1>3 DEF StartsWith
  <1> QED BY <1>4 DEF s, t

\* A flush makes of the text what was sent.
LEMMA ChunksApplied ==
    ASSUME NEW r \in Requests, NEW type \in Types, NEW b \in 0..MaxChunks,
           NEW t \in Texts, NEW c \in Texts, Leads(r, type, t, b, c)
    PROVE  Leads(r, type, t \o AppendableChunk(t, c), b, <<>>)
  <1> DEFINE e == AppendableChunk(t, c)
             n == t \o e
  <1>1. PICK a \in 0..b :
            /\ Ordered(r, type, t, 0, a)
            /\ IF r \in Snapshots
                 THEN /\ t = Answer(r, type, a)
                      /\ c = IF a = b THEN <<>> ELSE Answer(r, type, b)
                 ELSE /\ Ordered(r, type, c, a, b)
                      /\ Unrepeated(r, type) =>
                            t = Answer(r, type, a) /\ c = Tokens(r, type, a, b)
    BY DEF Leads
  <1>2. /\ a \in Nat /\ b \in Nat /\ a <= b /\ 0 \in Nat /\ 0 <= a /\ 0 <= b /\ b \in 0..b
        /\ b <= MaxChunks
    BY PlaygroundAssumption
  <1>3. t \in Seq(TokenSet) /\ c \in Seq(TokenSet) /\ Len(t) \in Nat /\ Len(c) \in Nat
    BY TextsAre
  <1>4. Ordered(r, type, <<>>, b, b) /\ Tokens(r, type, b, b) = <<>>
    <2>1. Tokens(r, type, b, b) \in Texts /\ Len(Tokens(r, type, b, b)) = 0
      BY <1>2, TokensText
    <2> QED BY <2>1, OrderedEmpty, TextsAre
  <1>5. ASSUME Ordered(r, type, n, 0, b),
               r \in Snapshots \/ Unrepeated(r, type) => n = Answer(r, type, b)
        PROVE  Leads(r, type, n, b, <<>>)
    BY <1>2, <1>4, <1>5 DEF Leads
  <1>a. /\ Answer(r, type, a) \in Texts /\ Len(Answer(r, type, a)) = a
        /\ Answer(r, type, b) \in Texts /\ Len(Answer(r, type, b)) = b
        /\ Answer(r, type, a) = Tokens(r, type, 0, a)
        /\ Answer(r, type, b) = Tokens(r, type, 0, b)
        /\ Ordered(r, type, Answer(r, type, b), 0, b)
    BY <1>2, AnswerText, TokensText DEF Answer
  <1>6. CASE r \in Snapshots
    <2>1. n = Answer(r, type, b)
      <3>1. CASE a = b
        <4>1. c = <<>> /\ t = Answer(r, type, b)
          BY <1>1, <1>6, <3>1
        <4>2. ~StartsWith(c, t)
          <5>1. t # <<>> => Len(t) # 0
            BY <1>3
          <5> QED BY <1>3, <4>1, <5>1 DEF StartsWith
        <4>3. e = <<>>
          BY <4>1, <4>2 DEF AppendableChunk
        <4> QED BY <1>3, <4>1, <4>3
      <3>2. CASE a # b
        <4>1. c = Answer(r, type, b) /\ t = Answer(r, type, a)
          BY <1>1, <1>6, <3>2
        <4>2. CASE a = 0
          <5>1. t = <<>>
            BY <1>3, <1>a, <4>1, <4>2
          <5>2. e = c
            BY <5>1 DEF AppendableChunk, StartsWith
          <5> QED BY <1>3, <4>1, <5>1, <5>2
        <4>3. CASE a # 0
          <5>1. StartsWith(c, t)
            BY <1>2, <4>1, <4>3, SnapshotStarts
          <5>2. e = SubSeq(c, a + 1, b)
            BY <1>a, <4>1, <5>1 DEF AppendableChunk
          <5> DEFINE f == Tokens(r, type, a, b)
          <5>3. /\ f \in Texts /\ Len(f) = b - a /\ f \in Seq(TokenSet)
                /\ \A i \in 1..(b - a) : f[i] = Token(r, type, a + i)
            BY <1>2, TokensText, TextsAre
          <5>4. /\ e \in Seq(TokenSet) /\ Len(e) = b - a
                /\ \A i \in 1..(b - a) : e[i] = c[a + i]
            <6>1. Len(c) = b
              BY <1>a, <4>1
            <6> HIDE DEF e
            <6> QED BY <1>2, <1>3, <5>2, <6>1
          <5>5. \A i \in 1..b : c[i] = Token(r, type, i)
            BY <1>2, <4>1, AnswerText
          <5> HIDE DEF e, f
          <5>6. \A i \in 1..(b - a) : e[i] = f[i]
            BY <1>2, <5>3, <5>4, <5>5
          <5>7. e = f
            BY <5>3, <5>4, <5>6, TextsEqual, TextsAre
          <5>8. Tokens(r, type, 0, a) \o Tokens(r, type, a, b) = Tokens(r, type, 0, b)
            BY <1>2, TokensJoined
          <5> QED BY <1>a, <4>1, <5>7, <5>8 DEF f
        <4> QED BY <4>2, <4>3
      <3> QED BY <3>1, <3>2
    <2> HIDE DEF n
    <2> QED BY <1>5, <1>a, <2>1 DEF n
  <1>7. CASE r \notin Snapshots
    <2>1. /\ Ordered(r, type, c, a, b)
          /\ Unrepeated(r, type) => t = Answer(r, type, a) /\ c = Tokens(r, type, a, b)
      BY <1>1, <1>7
    <2>2. e \in Texts /\ Ordered(r, type, e, a, b)
      <3>1. CASE StartsWith(c, t)
        <4>1. e = SubSeq(c, Len(t) + 1, Len(c)) /\ Len(t) <= Len(c)
          BY <3>1 DEF AppendableChunk, StartsWith
        <4> HIDE DEF e
        <4> QED BY <1>2, <1>3, <2>1, <4>1, OrderedRest
      <3>2. CASE ~StartsWith(c, t)
        BY <2>1, <3>2 DEF AppendableChunk
      <3> QED BY <3>1, <3>2
    <2>3. Unrepeated(r, type) => e = c
      <3> SUFFICES ASSUME Unrepeated(r, type) PROVE ~StartsWith(c, t)
        BY DEF AppendableChunk
      <3>1. t = Tokens(r, type, 0, a) /\ c = Tokens(r, type, a, b)
        BY <1>a, <2>1
      <3> QED BY <1>2, <3>1, NoRepetition
    <2> HIDE DEF e
    <2>4. Ordered(r, type, n, 0, b)
      BY <1>1, <1>2, <2>2, OrderedJoined
    <2>5. Unrepeated(r, type) => n = Answer(r, type, b)
      <3>1. Tokens(r, type, 0, a) \o Tokens(r, type, a, b) = Tokens(r, type, 0, b)
        BY <1>2, TokensJoined
      <3> QED BY <1>a, <2>1, <2>3, <3>1
    <2> HIDE DEF n
    <2> QED BY <1>5, <1>7, <2>4, <2>5 DEF n, e
  <1> QED BY <1>6, <1>7

\* A chunk more is kept.
LEMMA ChunkKept ==
    ASSUME NEW r \in Requests, NEW type \in Types, NEW b \in 0..MaxChunks,
           NEW n \in 0..MaxChunks, b < n,
           NEW t \in Texts, NEW c \in Texts, Leads(r, type, t, b, c)
    PROVE  Leads(r, type, t, n, MergeChunk(c, Chunk(r, type, b, n)))
  <1> DEFINE d == Chunk(r, type, b, n)
             e == MergeChunk(c, d)
  <1>1. PICK a \in 0..b :
            /\ Ordered(r, type, t, 0, a)
            /\ IF r \in Snapshots
                 THEN /\ t = Answer(r, type, a)
                      /\ c = IF a = b THEN <<>> ELSE Answer(r, type, b)
                 ELSE /\ Ordered(r, type, c, a, b)
                      /\ Unrepeated(r, type) =>
                            t = Answer(r, type, a) /\ c = Tokens(r, type, a, b)
    BY DEF Leads
  <1>2. /\ a \in Nat /\ b \in Nat /\ n \in Nat /\ a <= b /\ b <= n /\ a <= n /\ n <= n
        /\ a \in 0..n /\ a # n /\ n <= MaxChunks
    BY PlaygroundAssumption
  <1>3. c \in Seq(TokenSet) /\ Len(c) \in Nat
    BY TextsAre
  <1>4. CASE r \in Snapshots
    <2>1. d = Answer(r, type, n) /\ t = Answer(r, type, a)
      BY <1>1, <1>4 DEF Chunk
    <2>2. d \in Texts
      BY <1>2, <2>1, AnswerText
    <2>3. d \in Seq(TokenSet)
      BY <2>2, TextsAre
    <2> HIDE DEF d
    <2>4. e = d
      <3>1. CASE a = b
        <4>1. c = <<>>
          BY <1>1, <1>4, <3>1
        <4> QED BY <2>3, <4>1 DEF MergeChunk, StartsWith
      <3>2. CASE a # b
        <4>1. c = Answer(r, type, b) /\ b # 0
          BY <1>1, <1>2, <1>4, <3>2
        <4>2. StartsWith(d, c)
          BY <1>2, <2>1, <4>1, SnapshotStarts
        <4> QED BY <4>2 DEF MergeChunk
      <3> QED BY <3>1, <3>2
    <2> HIDE DEF e
    <2>5. Leads(r, type, t, n, e)
      BY <1>1, <1>2, <1>4, <2>1, <2>4 DEF Leads
    <2> QED BY <2>5 DEF e, d
  <1>5. CASE r \notin Snapshots
    <2>1. /\ Ordered(r, type, c, a, b)
          /\ Unrepeated(r, type) => t = Answer(r, type, a) /\ c = Tokens(r, type, a, b)
      BY <1>1, <1>5
    <2>2. d = Tokens(r, type, b, n)
      BY <1>5 DEF Chunk
    <2>3. d \in Texts /\ Ordered(r, type, d, b, n)
      BY <1>2, <2>2, TokensText
    <2> HIDE DEF d
    <2>4. Ordered(r, type, e, a, n)
      <3>1. Ordered(r, type, d, a, n)
        BY <1>2, <2>3, OrderedWider
      <3>2. Ordered(r, type, c \o d, a, n)
        BY <1>2, <2>1, <2>3, OrderedJoined
      <3> QED BY <3>1, <3>2 DEF MergeChunk
    <2>5. Unrepeated(r, type) => e = Tokens(r, type, a, n)
      <3> SUFFICES ASSUME Unrepeated(r, type) PROVE e = Tokens(r, type, a, n)
        OBVIOUS
      <3>1. ~StartsWith(d, c)
        BY <1>2, <2>1, <2>2, NoRepetition
      <3>2. e = c \o d
        BY <3>1 DEF MergeChunk
      <3>3. Tokens(r, type, a, b) \o Tokens(r, type, b, n) = Tokens(r, type, a, n)
        BY <1>2, TokensJoined
      <3> QED BY <2>1, <2>2, <3>2, <3>3
    <2> HIDE DEF e
    <2>6. Leads(r, type, t, n, e)
      BY <1>1, <1>2, <1>5, <2>1, <2>4, <2>5 DEF Leads
    <2> QED BY <2>6 DEF e, d
  <1> QED BY <1>4, <1>5

\* The text of an assistant's message is of its own answer.
Own(m) ==
    m.from = "assistant" =>
        /\ m.text \in {Edited, ErrorText} \/ Belongs(m.owner, "content", m.text)
        /\ Belongs(m.owner, "reasoning", m.reasoning)

OwnAll(ms) == \A i \in 1..Len(ms) : Own(ms[i])

\* m waits for the rest of the answer to r: the record q of r says how much
\* was sent, the chunks p are what m does not have yet.
Waits(m, r, q, p) ==
    /\ m.from = "assistant" /\ m.owner = r /\ Pending(m)
    /\ Leads(r, "content", m.text, q.content, p.content)
    /\ Leads(r, "reasoning", m.reasoning, q.reasoning, p.reasoning)

LEMMA FlushWaits ==
    ASSUME NEW m \in MessageSet, NEW r \in Requests, NEW q, NEW p \in ChunkSet,
           Waits(m, r, q, p), q.content \in 0..MaxChunks, q.reasoning \in 0..MaxChunks
    PROVE  /\ Waits(ApplyChunks(m, p), r, q, NoChunks) /\ Own(ApplyChunks(m, p))
           /\ Own(m)
  <1> DEFINE n == ApplyChunks(m, p)
  <1>1. /\ m.text \in Texts /\ m.reasoning \in Texts
        /\ p.content \in Texts /\ p.reasoning \in Texts
    BY MessageFields DEF ChunkSet
  <1>w. /\ m.from = "assistant" /\ m.owner = r /\ Pending(m)
        /\ Leads(r, "content", m.text, q.content, p.content)
        /\ Leads(r, "reasoning", m.reasoning, q.reasoning, p.reasoning)
    BY DEF Waits
  <1>t. "content" \in Types /\ "reasoning" \in Types
    BY DEF Types
  <1> DEFINE t == m.text \o AppendableChunk(m.text, p.content)
             s == m.reasoning \o AppendableChunk(m.reasoning, p.reasoning)
  <1>2. /\ t \in Texts /\ s \in Texts
        /\ Leads(r, "content", t, q.content, <<>>) /\ Leads(r, "reasoning", s, q.reasoning, <<>>)
    BY <1>1, <1>w, <1>t, ChunksApplied, ChunkTexts
  <1>3. /\ n.text = t /\ n.reasoning = s
        /\ n.status = "streaming" /\ n.from = m.from /\ n.owner = m.owner
    BY <1>w DEF ApplyChunks, Pending, MessageSet
  <1> HIDE DEF n, t, s
  <1>4. NoChunks.content = <<>> /\ NoChunks.reasoning = <<>>
    BY DEF NoChunks
  <1>5. Waits(n, r, q, NoChunks)
    BY <1>2, <1>3, <1>4, <1>w DEF Waits, Pending
  <1>6. /\ Belongs(r, "content", t) /\ Belongs(r, "reasoning", s)
        /\ Belongs(r, "content", m.text) /\ Belongs(r, "reasoning", m.reasoning)
    BY <1>1, <1>2, <1>t, <1>w, LeadsBelongs
  <1>7. Own(n) /\ Own(m)
    BY <1>3, <1>6, <1>w DEF Own
  <1> QED BY <1>5, <1>7 DEF n

\* An end or a stop keeps a text or replaces it as a whole.
LEMMA EndOwn ==
    ASSUME NEW m \in MessageSet, Own(m), NEW u,
           \/ u.kind \in {"finish", "error", "stop"}
           \/ u.kind = "response" /\ u.req = m.owner /\ u.req \in Requests
    PROVE  Own(UpdatedMessage(m, u))
  <1>1. ASSUME u.kind = "finish" \/ u.kind = "stop"
        PROVE  UpdatedMessage(m, u) \in {m, Complete(m)}
    BY <1>1 DEF UpdatedMessage
  <1>2. Own(Complete(m))
    <2>1. /\ Complete(m).from = m.from /\ Complete(m).text = m.text
          /\ Complete(m).reasoning = m.reasoning /\ Complete(m).owner = m.owner
      BY DEF Complete, MessageSet
    <2> QED BY <2>1 DEF Own
  <1>3. ASSUME u.kind = "error" PROVE UpdatedMessage(m, u) = Failed(m)
    BY <1>3 DEF UpdatedMessage
  <1>4. Own(Failed(m))
    <2>1. /\ Failed(m).from = m.from /\ Failed(m).text = ErrorText
          /\ Failed(m).reasoning = m.reasoning /\ Failed(m).owner = m.owner
      BY DEF Failed, MessageSet
    <2> QED BY <2>1 DEF Own
  <1>5. ASSUME u.kind = "response", u.req = m.owner, m.owner \in Requests
        PROVE  Own(UpdatedMessage(m, u))
    <2>1. UpdatedMessage(m, u) = ApplyResponse(m, m.owner)
      BY <1>5 DEF UpdatedMessage
    <2> DEFINE n == ApplyResponse(m, m.owner)
    <2>2. /\ n.from = m.from /\ n.text = Answer(m.owner, "content", MaxChunks)
          /\ n.reasoning = m.reasoning /\ n.owner = m.owner
      BY DEF ApplyResponse, MessageSet
    <2>3. Belongs(m.owner, "content", Answer(m.owner, "content", MaxChunks))
      BY <1>5, AnswerBelongs
    <2> HIDE DEF n
    <2>4. Own(n)
      BY <2>2, <2>3 DEF Own
    <2> QED BY <2>1, <2>4 DEF n
  <1> QED BY <1>1, <1>2, <1>3, <1>4, <1>5

LEMMA UpdateLastOwn ==
    ASSUME NEW k, NEW ms, Conv(ms, k), OwnAll(ms), NEW u \in UpdateSet,
           ms # <<>> /\ Last(ms).from = "assistant" => Own(UpdatedMessage(Last(ms), u))
    PROVE  OwnAll(UpdateLast(ms, u))
  <1> DEFINE ns == UpdateLast(ms, u)
  <1>1. /\ ms \in Seq(MessageSet) /\ Len(ms) \in Nat
        /\ ms # <<>> => Len(ms) \in 1..Len(ms) /\ Last(ms) = ms[Len(ms)]
    BY ConvItems
  <1>2. /\ ns \in Seq(MessageSet) /\ Len(ns) = Len(ms)
        /\ \A i \in 1..Len(ms) : i # Len(ms) => ns[i] = ms[i]
        /\ ms # <<>> /\ Last(ms).from = "assistant" =>
              Last(ns) = UpdatedMessage(Last(ms), u)
        /\ ms = <<>> \/ Last(ms).from # "assistant" => ns = ms
    BY <1>1, UpdateLastLike
  <1> HIDE DEF ns
  <1>3. CASE ms = <<>> \/ Last(ms).from # "assistant"
    BY <1>2, <1>3 DEF ns
  <1>4. CASE ms # <<>> /\ Last(ms).from = "assistant"
    <2>1. Last(ns) = ns[Len(ms)]
      BY <1>2 DEF Last
    <2>2. Own(ns[Len(ms)])
      BY <1>2, <1>4, <2>1
    <2>3. \A i \in 1..Len(ns) : Own(ns[i])
      BY <1>2, <2>2 DEF OwnAll
    <2> QED BY <2>3 DEF OwnAll, ns
  <1> QED BY <1>3, <1>4

LEMMA PartOwn ==
    ASSUME NEW ms, NEW ns, Part(ns, ms), OwnAll(ms)
    PROVE  OwnAll(ns)
  BY DEF Part, OwnAll

LEMMA AppendOwn ==
    ASSUME NEW base \in Seq(MessageSet), OwnAll(base), NEW m, Own(m)
    PROVE  OwnAll(Append(base, m))
  <1> DEFINE ns == Append(base, m)
             n == Len(base)
  <1>1. /\ Len(ns) = n + 1 /\ ns[n + 1] = m /\ n \in Nat
        /\ \A i \in 1..n : ns[i] = base[i]
    OBVIOUS
  <1> HIDE DEF ns
  <1>2. \A i \in 1..(n + 1) : i \in 1..n \/ i = n + 1
    BY <1>1
  <1>3. \A i \in 1..(n + 1) : Own(ns[i])
    BY <1>1, <1>2 DEF OwnAll
  <1> QED BY <1>1, <1>3 DEF OwnAll, ns

LEMMA EditedOwn ==
    ASSUME NEW k, Conv(messages, k), OwnAll(messages), NEW i \in 1..Len(messages)
    PROVE  OwnAll(WithEdit(i))
  <1>1. /\ Len(WithEdit(i)) = Len(messages)
        /\ \A j \in 1..Len(messages) : j # i => WithEdit(i)[j] = messages[j]
        /\ WithEdit(i)[i] = [messages[i] EXCEPT !.text = Edited]
    BY EditedConv
  <1> DEFINE m == messages[i]
             n == [m EXCEPT !.text = Edited]
  <1>2. m \in MessageSet /\ Own(m)
    BY ConvItems DEF OwnAll
  <1> HIDE DEF m
  <1>3. n.from = m.from /\ n.text = Edited /\ n.reasoning = m.reasoning /\ n.owner = m.owner
    BY <1>2 DEF MessageSet
  <1> HIDE DEF n
  <1>4. Own(n)
    BY <1>2, <1>3 DEF Own
  <1>5. WithEdit(i)[i] = n
    BY <1>1 DEF n, m
  <1> QED BY <1>1, <1>4, <1>5 DEF OwnAll

LEMMA LoadedOwn ==
    ASSUME NEW k, NEW ms, Conv(ms, k), OwnAll(ms)
    PROVE  OwnAll(LoadedMessages(ms))
  <1>1. CASE Size(ms) > MaxBytes
    <2>1. LoadedMessages(ms) = <<>>
      BY <1>1 DEF LoadedMessages
    <2> QED BY <2>1 DEF OwnAll
  <1>2. CASE ~(Size(ms) > MaxBytes)
    <2> DEFINE a == [i \in 1..Len(ms) |-> Normalized(ms[i])]
               b == Trimmed(a)
               c == SizeTrimmed(b)
    <2>1. LoadedMessages(ms) = Sanitized(c)
      BY <1>2 DEF LoadedMessages
    <2>2. /\ Conv(a, k) /\ Len(a) = Len(ms)
          /\ \A i \in 1..Len(ms) : a[i] = Normalized(ms[i])
      BY NormalizedAll
    <2> HIDE DEF a
    <2>3. ASSUME NEW m \in MessageSet, Own(m)
          PROVE  Own(Normalized(m)) /\ Own(Failed(m))
      <3>1. /\ Complete(m).from = m.from /\ Complete(m).text = m.text
            /\ Complete(m).reasoning = m.reasoning /\ Complete(m).owner = m.owner
        BY DEF Complete, MessageSet
      <3>2. /\ Failed(m).from = m.from /\ Failed(m).text = ErrorText
            /\ Failed(m).reasoning = m.reasoning /\ Failed(m).owner = m.owner
        BY DEF Failed, MessageSet
      <3>3. Own(Complete(m))
        BY <2>3, <3>1 DEF Own
      <3>4. Own(Failed(m))
        BY <2>3, <3>2 DEF Own
      <3> QED BY <2>3, <3>3, <3>4 DEF Normalized
    <2>4. OwnAll(a)
      BY <2>2, <2>3, ConvItems DEF OwnAll
    <2>5. Part(b, a)
      BY <2>2, ConvItems, TrimmedPart
    <2>6. Conv(b, k) /\ OwnAll(b)
      <3>1. Len(a) \in Nat
        BY <2>2, ConvItems
      <3> QED BY <2>2, <2>4, <2>5, <3>1, PartKeeps, PartOwn
    <2> HIDE DEF b
    <2>7. Part(c, b)
      BY <2>6, ConvItems, SizeTrimmedPart
    <2>8. Conv(c, k) /\ OwnAll(c)
      <3>1. Len(b) \in Nat
        BY <2>6, ConvItems
      <3> QED BY <2>6, <2>7, <3>1, PartKeeps, PartOwn
    <2> HIDE DEF c
    <2>9. /\ Len(Sanitized(c)) = Len(c)
          /\ \A i \in 1..Len(c) : Sanitized(c)[i] \in {c[i], Failed(c[i])}
      BY <2>8, SanitizedConv
    <2>10. \A i \in 1..Len(c) : Own(c[i]) /\ Own(Failed(c[i]))
      BY <2>3, <2>8, ConvItems DEF OwnAll
    <2>11. OwnAll(Sanitized(c))
      BY <2>9, <2>10 DEF OwnAll
    <2> QED BY <2>1, <2>11
  <1> QED BY <1>1, <1>2

\* The conversation as the next Render will show it.
Shown == Rendered(messages, queue)

\* What is shown, what a stop may show and what is stored is of the messages'
\* own answers; the last message waits for the rest of the current one.
TextInv ==
    ~overwrote =>
        /\ OwnAll(messages) /\ OwnAll(stored) /\ OwnAll(Shown)
        /\ queue # <<>> => OwnAll(UpdateLast(messages, queue[1]))
        /\ \A r \in Requests :
              req[r].fresh => Shown # <<>> /\ Waits(Last(Shown), r, req[r], pending)

TextGood == Good /\ TextInv

LEMMA GoodFacts ==
    ASSUME Good
    PROVE  /\ Conv(messages, keys) /\ Conv(stored, keys) /\ Conv(Shown, keys)
           /\ messages \in Seq(MessageSet) /\ stored \in Seq(MessageSet)
           /\ Len(messages) \in Nat /\ Len(stored) \in Nat
           /\ queue \in Seq(UpdateSet) /\ pending \in ChunkSet /\ keys \in Nat
           /\ \A r \in Requests : /\ req[r] \in RequestSet /\ req[r].content \in 0..MaxChunks
                                  /\ req[r].reasoning \in 0..MaxChunks
           /\ \A r \in Requests : req[r].fresh => requesting /\ generating
           /\ queue # <<>> \/ requesting => generating
           /\ overwrote \in BOOLEAN
  <1>g. PageTypes /\ ConvInv /\ ScreenInv /\ NetGood
    BY DEF Good, PageGood
  <1>1. Conv(messages, keys) /\ Conv(stored, keys) /\ queue \in Seq(UpdateSet)
    BY <1>g DEF PageTypes, ConvInv
  <1>2. Conv(Shown, keys)
    BY <1>1, RenderedConv DEF Shown
  <1>3. \A r \in Requests : /\ req[r] \in RequestSet /\ req[r].content \in 0..MaxChunks
                            /\ req[r].reasoning \in 0..MaxChunks
    <2>1. \A r \in Requests : req[r] \in RequestSet
      BY <1>g DEF NetGood, NetTypes
    <2>2. \A q \in RequestSet : q.content \in 0..MaxChunks /\ q.reasoning \in 0..MaxChunks
      BY DEF RequestSet
    <2> QED BY <2>1, <2>2
  <1>4. /\ \A r \in Requests : req[r].fresh => requesting /\ generating
        /\ queue # <<>> \/ requesting => generating
    BY <1>g DEF NetGood, NetInv, ScreenInv
  <1> QED BY <1>g, <1>1, <1>2, <1>3, <1>4, ConvItems DEF PageTypes

LEMMA TextInit ==
    ASSUME Init
    PROVE  TextInv
  <1>1. messages = <<>> /\ stored = <<>> /\ queue = <<>> /\ Shown = <<>>
    BY RenderedEmpty DEF Init, Shown
  <1>2. OwnAll(<<>>)
    BY DEF OwnAll
  <1>3. \A r \in Requests : ~req[r].fresh
    BY NoRequestFields DEF Init
  <1> QED BY <1>1, <1>2, <1>3 DEF TextInv

\* A step that leaves texts alone.
LEMMA TextQuiet ==
    ASSUME TextInv, UNCHANGED <<messages, queue, pending>>, ~overwrote' => ~overwrote,
           ~overwrote /\ OwnAll(messages) /\ OwnAll(stored) => OwnAll(stored'),
           \A r \in Requests : req'[r].fresh =>
              /\ req[r].fresh /\ req'[r].content = req[r].content
              /\ req'[r].reasoning = req[r].reasoning
    PROVE  TextInv'
  <1>1. Shown' = Shown
    BY DEF Shown
  <1>2. \A r \in Requests : req'[r].fresh =>
            \A m : Waits(m, r, req[r], pending) => Waits(m, r, req'[r], pending')
    BY DEF Waits
  <1> QED BY <1>1, <1>2 DEF TextInv

\* A step after which nothing is waited for.
LEMMA TextReset ==
    ASSUME queue' = <<>>, \A r \in Requests : ~req'[r].fresh,
           ~overwrote' => OwnAll(messages') /\ OwnAll(stored')
    PROVE  TextInv'
  <1>1. Shown' = messages'
    BY RenderedEmpty DEF Shown
  <1> QED BY <1>1 DEF TextInv

\* A step that sends the request r.
LEMMA TextSent ==
    ASSUME NEW base \in Seq(MessageSet), NEW k, NEW r \in Requests, NEW ns,
           ns = Append(base, LoadingMessage(k, r)), messages' = ns,
           ~overwrote' => OwnAll(base) /\ OwnAll(stored'), queue' = <<>>,
           pending' = NoChunks, \A s \in Requests \ {r} : ~req'[s].fresh,
           req'[r].content = 0, req'[r].reasoning = 0
    PROVE  TextInv'
  <1> DEFINE m == LoadingMessage(k, r)
  <1>1. Shown' = messages'
    BY RenderedEmpty DEF Shown
  <1>2. m.from = "assistant" /\ m.owner = r /\ m.text = <<>> /\ m.reasoning = <<>> /\ Pending(m)
    BY DEF LoadingMessage, Pending
  <1>3. /\ Belongs(r, "content", <<>>) /\ Belongs(r, "reasoning", <<>>)
        /\ Leads(r, "content", <<>>, 0, <<>>) /\ Leads(r, "reasoning", <<>>, 0, <<>>)
    BY AnswerBelongs DEF Types
  <1> HIDE DEF m
  <1>4. Own(m)
    BY <1>2, <1>3 DEF Own
  <1>5. NoChunks.content = <<>> /\ NoChunks.reasoning = <<>>
    BY DEF NoChunks
  <1>6. Waits(m, r, req'[r], NoChunks)
    BY <1>2, <1>3, <1>5 DEF Waits
  <1>7. Last(messages') = m /\ messages' # <<>>
    <2>1. ns = Append(base, m)
      BY DEF m
    <2>2. Len(ns) = Len(base) + 1 /\ ns[Len(base) + 1] = m /\ Len(base) \in Nat
      BY <2>1
    <2>3. ns # <<>>
      BY <2>2
    <2> QED BY <2>2, <2>3 DEF Last
  <1>8. ~overwrote' => OwnAll(messages')
    BY <1>4, AppendOwn DEF m
  <1> QED BY <1>1, <1>6, <1>7, <1>8 DEF TextInv

\* The conversation once the chunks that are kept are flushed.
After == IF pending = NoChunks THEN Shown
         ELSE UpdateLast(Shown, Update("flush", pending, None))

LEMMA AfterFlush ==
    ASSUME TextGood, ~overwrote
    PROVE  /\ Conv(After, keys) /\ OwnAll(After)
           /\ \A r \in Requests :
                 req[r].fresh => After # <<>> /\ Waits(Last(After), r, req[r], NoChunks)
  <1>g. /\ Conv(Shown, keys) /\ pending \in ChunkSet
        /\ \A r \in Requests : req[r].content \in 0..MaxChunks /\ req[r].reasoning \in 0..MaxChunks
    BY GoodFacts DEF TextGood
  <1>t. /\ OwnAll(Shown)
        /\ \A r \in Requests :
              req[r].fresh => Shown # <<>> /\ Waits(Last(Shown), r, req[r], pending)
    BY DEF TextGood, TextInv
  <1>1. CASE pending = NoChunks
    <2>1. After = Shown
      BY <1>1 DEF After
    <2> QED BY <1>g, <1>t, <1>1, <2>1
  <1>2. CASE pending # NoChunks
    <2> DEFINE u == Update("flush", pending, None)
               m == Last(Shown)
    <2>1. u \in UpdateSet /\ u.kind = "flush" /\ u.chunks = pending
      BY <1>g, UpdateIs
    <2>2. After = UpdateLast(Shown, u)
      BY <1>2 DEF After
    <2> HIDE DEF u
    <2>3. PICK r \in Requests : req[r].fresh
      <3>1. source # None
        BY <1>2 DEF TextGood, Good, PageGood, ScreenInv, Streaming
      <3> QED BY <3>1 DEF TextGood, Good, NetGood, NetTypes, NetInv
    <2>4. Shown # <<>> /\ Waits(m, r, req[r], pending)
      BY <1>t, <2>3
    <2>5. Shown \in Seq(MessageSet) /\ m \in MessageSet
      BY <1>g, <2>4, ConvItems
    <2>6. m.from = "assistant"
      BY <2>4 DEF Waits
    <2>7. Last(After) = UpdatedMessage(m, u) /\ Len(After) = Len(Shown)
      BY <2>1, <2>2, <2>4, <2>5, <2>6, UpdateLastLike
    <2>8. UpdatedMessage(m, u) = ApplyChunks(m, pending)
      BY <2>1 DEF UpdatedMessage
    <2> HIDE DEF m
    <2>9. Waits(ApplyChunks(m, pending), r, req[r], NoChunks) /\ Own(ApplyChunks(m, pending))
      BY <1>g, <2>4, <2>5, FlushWaits
    <2>10. Conv(After, keys)
      BY <1>g, <2>1, <2>2, UpdateLastConv
    <2>11. OwnAll(After)
      BY <1>g, <1>t, <2>1, <2>2, <2>8, <2>9, UpdateLastOwn DEF m
    <2>12. After # <<>>
      <3>1. Len(Shown) # 0 /\ Len(After) # 0
        BY <2>4, <2>5, <2>7
      <3> QED BY <3>1
    <2>13. \A s \in Requests : req[s].fresh => s = r
      BY <2>3 DEF TextGood, Good, NetGood, NetInv
    <2> QED BY <2>7, <2>8, <2>9, <2>10, <2>11, <2>12, <2>13
  <1> QED BY <1>1, <1>2

\* The end u of the answer.
LEMMA AfterEnd ==
    ASSUME TextGood, ~overwrote, NEW u \in UpdateSet,
           \/ u.kind \in {"finish", "error", "stop"}
           \/ \E r \in Requests : u.kind = "response" /\ u.req = r /\ req[r].fresh
    PROVE  OwnAll(UpdateLast(After, u))
  <1>1. /\ Conv(After, keys) /\ OwnAll(After)
        /\ \A r \in Requests :
              req[r].fresh => After # <<>> /\ Waits(Last(After), r, req[r], NoChunks)
    BY AfterFlush
  <1>2. After # <<>> => /\ Last(After) \in MessageSet /\ Own(Last(After))
    BY <1>1, ConvItems DEF OwnAll
  <1>3. \A r \in Requests : req[r].fresh => Last(After).owner = r
    BY <1>1 DEF Waits
  <1>4. After # <<>> => Own(UpdatedMessage(Last(After), u))
    BY <1>2, <1>3, EndOwn
  <1> QED BY <1>1, <1>4, UpdateLastOwn

\* What a longer queue will show.
LEMMA EnqueuedShows ==
    ASSUME queue \in Seq(UpdateSet), NEW us \in Seq(UpdateSet), Enqueued(us),
           messages' = messages
    PROVE  /\ us = <<>> => queue' = queue /\ Shown' = Shown
           /\ Len(us) = 1 => Shown' = UpdateLast(Shown, us[1])
           /\ Len(us) = 2 => Shown' = UpdateLast(UpdateLast(Shown, us[1]), us[2])
           /\ us # <<>> /\ queue = <<>> =>
                 UpdateLast(messages', queue'[1]) = UpdateLast(Shown, us[1])
           /\ queue # <<>> => queue'[1] = queue[1]
  <1> DEFINE a == Len(queue)
             b == Len(us)
  <1>0. a \in Nat /\ b \in Nat
    OBVIOUS
  <1>e. /\ queue' \in Seq(UpdateSet) /\ Len(queue') = a + b
        /\ \A n \in 1..a : queue'[n] = queue[n]
        /\ \A n \in 1..b : Same(queue'[a + n], us[n])
    BY DEF Enqueued
  <1>s. \A n \in 1..b : \A x : UpdateLast(x, queue'[a + n]) = UpdateLast(x, us[n])
    BY <1>e, UpdateSame
  <1>q. \A n \in 1..a : \A x : UpdateLast(x, queue'[n]) = UpdateLast(x, queue[n])
    BY <1>e
  <1>1. ASSUME us = <<>> PROVE queue' = queue
    <2>1. b = 0
      BY <1>1
    <2>2. Len(queue') = Len(queue) /\ \A n \in 1..Len(queue) : queue'[n] = queue[n]
      BY <1>0, <1>e, <2>1
    <2> QED BY <1>e, <2>2
  <1>2. ASSUME b = 1 PROVE Shown' = UpdateLast(Shown, us[1])
    <2>1. a <= Len(queue') /\ Len(queue') = a + 1 /\ 1 \in 1..b
      BY <1>0, <1>e, <1>2
    <2>2. Rendered(messages, queue') = UpdateLast(Rendered(messages, queue), queue'[a + 1])
      BY <1>e, <1>q, <2>1, RenderedAgree
    <2>3. UpdateLast(Rendered(messages, queue), queue'[a + 1]) =
            UpdateLast(Rendered(messages, queue), us[1])
      BY <1>s, <2>1
    <2> QED BY <2>2, <2>3 DEF Shown
  <1>3. ASSUME b = 2 PROVE Shown' = UpdateLast(UpdateLast(Shown, us[1]), us[2])
    <2> DEFINE p == SubSeq(queue', 1, Len(queue') - 1)
    <2>1. Len(queue') = a + 2 /\ 1 \in 1..b /\ 2 \in 1..b /\ Len(queue') - 1 = a + 1
      BY <1>0, <1>e, <1>3
    <2>2. queue' # <<>>
      BY <1>0, <2>1
    <2>3. /\ p \in Seq(UpdateSet) /\ Len(p) = Len(queue') - 1
          /\ \A n \in 1..Len(p) : p[n] = queue'[n]
          /\ Rendered(messages, queue') = UpdateLast(Rendered(messages, p), queue'[Len(queue')])
      BY <1>e, <2>2, RenderedLast
    <2> HIDE DEF p
    <2>4. /\ a <= Len(p) /\ Len(p) = a + 1 /\ a + 1 \in 1..Len(p)
          /\ \A n \in 1..a : n \in 1..Len(p)
      BY <1>0, <2>1, <2>3
    <2>5. \A n \in 1..a : \A x : UpdateLast(x, p[n]) = UpdateLast(x, queue[n])
      BY <1>q, <2>3, <2>4
    <2>6. Rendered(messages, p) = UpdateLast(Rendered(messages, queue), p[a + 1])
      <3>1. p \in Seq(UpdateSet) /\ Len(queue) <= Len(p) /\ Len(p) = Len(queue) + 1
            /\ \A n \in 1..Len(queue) : \A x : UpdateLast(x, p[n]) = UpdateLast(x, queue[n])
        BY <2>3, <2>4, <2>5
      <3>2. Rendered(messages, p) = UpdateLast(Rendered(messages, queue), p[Len(p)])
        BY <3>1, RenderedAgree
      <3> QED BY <2>4, <3>2
    <2>7. p[a + 1] = queue'[a + 1]
      BY <2>3, <2>4
    <2>8. \A x : /\ UpdateLast(x, queue'[a + 1]) = UpdateLast(x, us[1])
                 /\ UpdateLast(x, queue'[a + 2]) = UpdateLast(x, us[2])
      BY <1>s, <2>1
    <2> QED BY <2>1, <2>3, <2>6, <2>7, <2>8 DEF Shown
  <1>4. ASSUME us # <<>>, queue = <<>>
        PROVE  UpdateLast(messages', queue'[1]) = UpdateLast(Shown, us[1])
    <2>1. Shown = messages
      BY <1>4, RenderedEmpty DEF Shown
    <2>2. 1 \in 1..b /\ a + 1 = 1
      BY <1>0, <1>4
    <2>3. UpdateLast(messages, queue'[a + 1]) = UpdateLast(messages, us[1])
      BY <1>s, <2>2
    <2> QED BY <2>1, <2>2, <2>3
  <1>5. ASSUME queue # <<>> PROVE queue'[1] = queue[1]
    <2>1. 1 \in 1..a
      BY <1>0, <1>5
    <2> QED BY <1>e, <2>1
  <1> QED BY <1>1, <1>2, <1>3, <1>4, <1>5 DEF Shown

\* The parts of the invariant while no edit has overwritten an update.
LEMMA TextParts ==
    ASSUME TextGood, ~overwrote
    PROVE  /\ OwnAll(messages) /\ OwnAll(stored) /\ OwnAll(Shown)
           /\ queue # <<>> => OwnAll(UpdateLast(messages, queue[1]))
           /\ \A r \in Requests :
                 req[r].fresh => Shown # <<>> /\ Waits(Last(Shown), r, req[r], pending)
           /\ queue = <<>> => Shown = messages
  BY RenderedEmpty DEF TextGood, TextInv, Shown

LEMMA TextFlush ==
    ASSUME TextGood, Flush
    PROVE  TextInv'
  <1> DEFINE us == FlushUpdates
  <1>g. /\ queue \in Seq(UpdateSet) /\ pending \in ChunkSet
        /\ \A n \in 2..Len(queue) : ~queue[n].sure
    BY GoodFacts DEF TextGood, Good, PageGood, QueueInv
  <1>u. /\ UNCHANGED <<messages, stored, req, overwrote>> /\ pending' = NoChunks
        /\ Enqueue(us)
    BY DEF Flush, Unrendered, disk, history, net
  <1>s. /\ us \in Seq(UpdateSet) /\ Len(us) = IF pending = NoChunks THEN 0 ELSE 1
        /\ \A n \in 1..Len(us) : us[n] = Update("flush", pending, None) /\ ~us[n].sure
    BY <1>g, FlushUpdatesAre
  <1> HIDE DEF us
  <1>1. SUFFICES ASSUME ~overwrote PROVE TextInv'
    BY <1>u DEF TextInv
  <1>2. Enqueued(us)
    BY <1>g, <1>u, <1>s, Enqueues
  <1>3. /\ us = <<>> => queue' = queue /\ Shown' = Shown
        /\ Len(us) = 1 => Shown' = UpdateLast(Shown, us[1])
        /\ us # <<>> /\ queue = <<>> =>
              UpdateLast(messages', queue'[1]) = UpdateLast(Shown, us[1])
        /\ queue # <<>> => queue'[1] = queue[1]
    BY <1>g, <1>s, <1>u, <1>2, EnqueuedShows
  <1>4. /\ pending = NoChunks => us = <<>>
        /\ pending # NoChunks => us # <<>> /\ Len(us) = 1 /\ us[1] = Update("flush", pending, None)
    BY <1>s
  <1>5. Shown' = After
    BY <1>3, <1>4 DEF After
  <1>6. /\ OwnAll(After)
        /\ \A r \in Requests :
              req[r].fresh => After # <<>> /\ Waits(Last(After), r, req[r], NoChunks)
    BY <1>1, AfterFlush
  <1>7. /\ OwnAll(messages) /\ OwnAll(stored)
        /\ queue # <<>> => OwnAll(UpdateLast(messages, queue[1]))
    BY <1>1, TextParts
  <1>8. queue' # <<>> => OwnAll(UpdateLast(messages', queue'[1]))
    <2>1. CASE queue # <<>>
      BY <1>3, <1>7, <1>u, <2>1
    <2>2. CASE queue = <<>> /\ us # <<>>
      <3>1. UpdateLast(messages', queue'[1]) = After
        BY <1>3, <1>4, <2>2 DEF After
      <3> QED BY <1>6, <3>1
    <2>3. CASE queue = <<>> /\ us = <<>>
      BY <1>3, <2>3
    <2> QED BY <2>1, <2>2, <2>3
  <1> QED BY <1>u, <1>5, <1>6, <1>7, <1>8 DEF TextInv

\* The queue after the end u, whatever was kept before.
LEMMA TextEnded ==
    ASSUME TextGood, NEW us \in Seq(UpdateSet), NEW n \in {0, 1}, Len(us) = n + 1,
           pending = NoChunks <=> n = 0,
           n = 1 => us[1] = Update("flush", pending, None),
           \/ us[n + 1].kind \in {"finish", "error"}
           \/ \E r \in Requests :
                us[n + 1].kind = "response" /\ us[n + 1].req = r /\ req[r].fresh,
           Enqueued(us), UNCHANGED <<messages, stored, overwrote>>,
           \A r \in Requests : ~req'[r].fresh
    PROVE  TextInv'
  <1> DEFINE u == us[n + 1]
  <1>1. SUFFICES ASSUME ~overwrote PROVE TextInv'
    BY DEF TextInv
  <1>g. queue \in Seq(UpdateSet)
    BY GoodFacts DEF TextGood
  <1>u. u \in UpdateSet
    <2>1. n + 1 \in 1..Len(us)
      OBVIOUS
    <2> QED BY <2>1
  <1>2. OwnAll(UpdateLast(After, u))
    BY <1>1, <1>u, AfterEnd
  <1>3. /\ Len(us) = 1 => Shown' = UpdateLast(Shown, us[1])
        /\ Len(us) = 2 => Shown' = UpdateLast(UpdateLast(Shown, us[1]), us[2])
        /\ us # <<>> /\ queue = <<>> =>
              UpdateLast(messages', queue'[1]) = UpdateLast(Shown, us[1])
        /\ queue # <<>> => queue'[1] = queue[1]
    BY <1>g, EnqueuedShows
  <1>4. Shown' = UpdateLast(After, u)
    <2>1. CASE n = 0
      BY <1>3, <2>1 DEF After
    <2>2. CASE n = 1
      BY <1>3, <2>2 DEF After
    <2> QED BY <2>1, <2>2
  <1>5. /\ OwnAll(messages) /\ OwnAll(stored) /\ OwnAll(After)
        /\ queue # <<>> => OwnAll(UpdateLast(messages, queue[1]))
    BY <1>1, AfterFlush, TextParts
  <1>6. queue' # <<>> => OwnAll(UpdateLast(messages', queue'[1]))
    <2>1. CASE queue # <<>>
      BY <1>3, <1>5, <2>1
    <2>2. CASE queue = <<>>
      <3>0. us # <<>>
        OBVIOUS
      <3>1. UpdateLast(messages', queue'[1]) = UpdateLast(Shown, us[1])
        BY <1>3, <2>2, <3>0
      <3>2. CASE n = 0
        BY <1>2, <3>1, <3>2 DEF After
      <3>3. CASE n = 1
        BY <1>5, <3>1, <3>3 DEF After
      <3> QED BY <3>2, <3>3
    <2> QED BY <2>1, <2>2
  <1> HIDE DEF u
  <1> QED BY <1>2, <1>4, <1>5, <1>6 DEF TextInv

LEMMA TextFinish ==
    ASSUME TextGood, NEW r \in Requests, NEW kind \in {"finish", "error"},
           req[r].fresh, Finish(r, kind), req' = Over(r),
           UNCHANGED <<messages, stored, overwrote>>
    PROVE  TextInv'
  <1> DEFINE us == Append(FlushUpdates, Update(kind, NoChunks, None))
             n == Len(FlushUpdates)
  <1>g. /\ queue \in Seq(UpdateSet) /\ pending \in ChunkSet
        /\ \A i \in 2..Len(queue) : ~queue[i].sure
    BY GoodFacts DEF TextGood, Good, PageGood, QueueInv
  <1>1. /\ us \in Seq(UpdateSet) /\ Len(us) = n + 1 /\ us[n + 1].kind = kind
        /\ \A i \in 1..n : us[i] = FlushUpdates[i]
        /\ \A i \in 1..Len(us) : ~us[i].sure
    BY <1>g, LastUpdates
  <1>2. /\ n = IF pending = NoChunks THEN 0 ELSE 1
        /\ \A i \in 1..n : FlushUpdates[i] = Update("flush", pending, None)
    BY <1>g, FlushUpdatesAre
  <1>3. Enqueue(us)
    BY DEF Finish
  <1> HIDE DEF us, n
  <1>4. Enqueued(us)
    BY <1>g, <1>1, <1>3, Enqueues
  <1>5. n \in {0, 1} /\ (pending = NoChunks <=> n = 0)
        /\ (n = 1 => us[1] = Update("flush", pending, None))
    BY <1>1, <1>2
  <1>6. \A s \in Requests : ~req'[s].fresh
    BY OverFields DEF TextGood, Good, NetGood, NetInv
  <1> QED BY <1>1, <1>4, <1>5, <1>6, TextEnded

LEMMA TextResponse ==
    ASSUME TextGood, NEW r \in Requests, ResponseBack(r), IsAwaited(r),
           Enqueue(<<Update("response", NoChunks, r)>>)
    PROVE  TextInv'
  <1> DEFINE u == Update("response", NoChunks, r)
             us == <<u>>
  <1>g. /\ queue \in Seq(UpdateSet) /\ pending \in ChunkSet
        /\ \A i \in 2..Len(queue) : ~queue[i].sure
    BY GoodFacts DEF TextGood, Good, PageGood, QueueInv
  <1>1. u \in UpdateSet /\ ~u.sure /\ u.kind = "response" /\ u.req = r
    BY UpdateIs, NoChunksIs
  <1>2. pending = NoChunks
    <2>1. source = None
      BY DEF TextGood, Good, ResponseBack, IsAwaited, NetGood, NetTypes, NetInv
    <2> QED BY <2>1 DEF TextGood, Good, PageGood, ScreenInv, Streaming
  <1> HIDE DEF u
  <1>3. /\ us \in Seq(UpdateSet) /\ Len(us) = 0 + 1 /\ us[0 + 1] = u
        /\ \A i \in 1..Len(us) : us[i] = u
    BY <1>1
  <1>4. Enqueue(us)
    BY DEF u
  <1> HIDE DEF us
  <1>5. Enqueued(us)
    BY <1>g, <1>1, <1>3, <1>4, Enqueues
  <1>6. req[r].fresh /\ UNCHANGED <<messages, stored, overwrote>> /\ req' = Over(r)
    BY DEF ResponseBack, IsAwaited, Unrendered, disk, history
  <1>7. \A s \in Requests : ~req'[s].fresh
    BY <1>6, OverFields DEF TextGood, Good, NetGood, NetInv
  <1>8. 0 \in {0, 1}
    OBVIOUS
  <1>9. \/ us[0 + 1].kind \in {"finish", "error"}
        \/ \E s \in Requests :
             us[0 + 1].kind = "response" /\ us[0 + 1].req = s /\ req[s].fresh
    BY <1>1, <1>3, <1>6
  <1> QED BY <1>2, <1>3, <1>5, <1>6, <1>7, <1>8, <1>9, TextEnded

LEMMA TextChunk ==
    ASSUME TextGood, NEW r \in Requests, NEW type \in Types, NEW k \in 1..MaxChunks,
           ChunkBack(r, type, k)
    PROVE  TextInv'
  <1> DEFINE b == req[r][type]
             n == req[r][type] + k
             c == MergeChunk(pending[type], Chunk(r, type, b, n))
  <1>u. /\ UNCHANGED <<messages, stored, queue, overwrote>> /\ req[r].fresh
        /\ req' = [req EXCEPT ![r][type] = n] /\ pending' = [pending EXCEPT ![type] = c]
    BY DEF ChunkBack, Unrendered, disk, history, IsCurrent
  <1>1. SUFFICES ASSUME ~overwrote PROVE TextInv'
    BY <1>u DEF TextInv
  <1>g. /\ req \in [Requests -> RequestSet] /\ pending \in ChunkSet /\ Conv(Shown, keys)
        /\ \A s \in Requests : req[s].fresh => s = r
        /\ req[r] \in RequestSet
    BY <1>u, GoodFacts DEF TextGood, Good, NetGood, NetTypes, NetInv
  <1>n. b \in 0..MaxChunks /\ n \in 0..MaxChunks /\ b < n
    BY <1>g, ChunkLength
  <1>2. Shown' = Shown
    BY <1>u DEF Shown
  <1> DEFINE m == Last(Shown)
  <1>3. Shown # <<>> /\ Waits(m, r, req[r], pending)
    BY <1>1, <1>u, TextParts
  <1>4. m \in MessageSet
    BY <1>3, <1>g, ConvItems
  <1>5. /\ m.text \in Texts /\ m.reasoning \in Texts
        /\ pending.content \in Texts /\ pending.reasoning \in Texts
    BY <1>4, <1>g, MessageFields DEF ChunkSet
  <1> HIDE DEF m
  <1>6. \A s \in Requests : s # r => req'[s] = req[s]
    BY <1>g, <1>u
  <1> HIDE DEF n, c
  <1>7. Waits(m, r, req'[r], pending')
    <2>1. CASE type = "content"
      <3>1. /\ req'[r].content = n /\ req'[r].reasoning = req[r].reasoning
            /\ pending'.reasoning = pending.reasoning /\ pending'.content = c
        BY <1>g, <1>u, <2>1 DEF RequestSet, ChunkSet
      <3>2. Leads(r, type, m.text, b, pending[type])
        BY <1>3, <2>1 DEF Waits
      <3>3. Leads(r, type, m.text, n, c)
        BY <1>5, <1>n, <2>1, <3>2, ChunkKept DEF c
      <3> QED BY <1>3, <2>1, <3>1, <3>3 DEF Waits
    <2>2. CASE type = "reasoning"
      <3>1. /\ req'[r].reasoning = n /\ req'[r].content = req[r].content
            /\ pending'.content = pending.content /\ pending'.reasoning = c
        BY <1>g, <1>u, <2>2 DEF RequestSet, ChunkSet
      <3>2. Leads(r, type, m.reasoning, b, pending[type])
        BY <1>3, <2>2 DEF Waits
      <3>3. Leads(r, type, m.reasoning, n, c)
        BY <1>5, <1>n, <2>2, <3>2, ChunkKept DEF c
      <3> QED BY <1>3, <2>2, <3>1, <3>3 DEF Waits
    <2> QED BY <2>1, <2>2 DEF Types
  <1>8. \A s \in Requests : req'[s].fresh => s = r
    BY <1>6, <1>g
  <1>9. /\ OwnAll(messages) /\ OwnAll(stored) /\ OwnAll(Shown)
        /\ queue # <<>> => OwnAll(UpdateLast(messages, queue[1]))
    BY <1>1, TextParts
  <1> QED BY <1>u, <1>2, <1>3, <1>7, <1>8, <1>9 DEF TextInv, m

LEMMA TextRender ==
    ASSUME TextGood, Render
    PROVE  TextInv'
  <1>u. /\ UNCHANGED <<stored, pending, req, overwrote>> /\ queue' = <<>>
        /\ messages' = Shown
    BY DEF Render, net, history, Shown
  <1>1. Shown' = messages'
    BY <1>u, RenderedEmpty DEF Shown
  <1>2. Shown' = Shown
    BY <1>1, <1>u
  <1>3. SUFFICES ASSUME ~overwrote PROVE TextInv'
    BY <1>u DEF TextInv
  <1>4. /\ OwnAll(stored) /\ OwnAll(Shown)
        /\ \A r \in Requests :
              req[r].fresh => Shown # <<>> /\ Waits(Last(Shown), r, req[r], pending)
    BY <1>3, TextParts
  <1> QED BY <1>u, <1>2, <1>4 DEF TextInv

\* The requests after a send.
LEMMA SentFields ==
    ASSUME NetTypes, NEW r \in Requests, SendStream(r) \/ SendPlain(r)
    PROVE  /\ \A s \in Requests \ {r} : ~req'[s].fresh
           /\ req'[r].content = 0 /\ req'[r].reasoning = 0
  <1>1. CASE SendStream(r)
    <2> DEFINE new == [NoRequest EXCEPT !.at = "headers", !.fresh = TRUE]
    <2>1. new.content = 0 /\ new.reasoning = 0
      BY DEF NoRequest
    <2>2. req' = [Superseded EXCEPT ![r] = new]
      BY <1>1 DEF SendStream
    <2> HIDE DEF new
    <2> QED BY <2>1, <2>2, SupersededFields
  <1>2. CASE SendPlain(r)
    <2> DEFINE new == [NoRequest EXCEPT !.at = "plain", !.fresh = TRUE, !.live = TRUE]
    <2>1. new.content = 0 /\ new.reasoning = 0
      BY DEF NoRequest
    <2>2. req' = [Superseded EXCEPT ![r] = new]
      BY <1>2 DEF SendPlain
    <2> HIDE DEF new
    <2> QED BY <2>1, <2>2, SupersededFields
  <1> QED BY <1>1, <1>2

LEMMA TextSends ==
    ASSUME TextGood,
           \/ SendMessage
           \/ \E i \in 1..Len(messages) : RegenerateMessage(i) \/ SubmitEdit(i)
    PROVE  TextInv'
  <1>k. /\ keys \in Nat /\ Conv(messages, keys) /\ messages \in Seq(MessageSet)
        /\ Len(messages) \in Nat /\ NetTypes
    BY GoodFacts DEF TextGood, Good, NetGood
  <1>o. ~overwrote => OwnAll(messages) /\ OwnAll(stored)
    BY TextParts
  <1>1. CASE SendMessage
    <2> DEFINE m == UserMessage(keys + 1)
               base == Append(messages, m)
               r == NextRequest
    <2>1. /\ messages' = Append(base, LoadingMessage(keys + 2, r)) /\ queue' = <<>>
          /\ pending' = NoChunks /\ (SendStream(r) \/ SendPlain(r)) /\ Free # {}
          /\ UNCHANGED <<stored, overwrote>>
      BY <1>1 DEF SendMessage, SendChat, RenderClick, history
    <2>2. r \in Requests
      BY <2>1, NextFree DEF Free
    <2>3. m \in MessageSet /\ Own(m)
      BY <1>k, FixedTexts DEF UserMessage, MessageSet, Statuses, Own
    <2> HIDE DEF m
    <2>4. base \in Seq(MessageSet) /\ (OwnAll(messages) => OwnAll(base))
      BY <1>k, <2>3, AppendOwn
    <2> HIDE DEF base, r
    <2>5. /\ \A s \in Requests \ {r} : ~req'[s].fresh
          /\ req'[r].content = 0 /\ req'[r].reasoning = 0
      BY <1>k, <2>1, <2>2, SentFields
    <2> QED BY <1>o, <2>1, <2>2, <2>4, <2>5, TextSent
  <1>2. ASSUME NEW i \in 1..Len(messages), RegenerateMessage(i) PROVE TextInv'
    <2> DEFINE b == IF messages[i].from = "user" THEN i ELSE i - 1
               base == SubSeq(messages, 1, b)
               r == NextRequest
    <2>1. /\ messages' = Append(base, LoadingMessage(keys + 1, r)) /\ queue' = <<>>
          /\ pending' = NoChunks /\ (SendStream(r) \/ SendPlain(r)) /\ Free # {}
          /\ UNCHANGED <<stored, overwrote>>
      BY <1>2 DEF RegenerateMessage, Regenerated, SendChat, RenderClick
    <2>2. r \in Requests
      BY <2>1, NextFree DEF Free
    <2>3. 1 \in 1..(Len(messages) + 1) /\ b \in 0..Len(messages) /\ 1 <= b + 1
      BY <1>k
    <2> HIDE DEF b
    <2>4. Part(base, messages)
      BY <1>k, <2>3, PartSub
    <2> HIDE DEF base, r
    <2>5. base \in Seq(MessageSet) /\ (OwnAll(messages) => OwnAll(base))
      BY <2>4, PartOwn DEF Part
    <2>6. /\ \A s \in Requests \ {r} : ~req'[s].fresh
          /\ req'[r].content = 0 /\ req'[r].reasoning = 0
      BY <1>k, <2>1, <2>2, SentFields
    <2> QED BY <1>o, <2>1, <2>2, <2>5, <2>6, TextSent
  <1>3. ASSUME NEW i \in 1..Len(messages), SubmitEdit(i) PROVE TextInv'
    <2> DEFINE w == WithEdit(i)
               base == SubSeq(w, 1, i)
               r == NextRequest
    <2>1. /\ messages' = Append(base, LoadingMessage(keys + 1, r)) /\ queue' = <<>>
          /\ pending' = NoChunks /\ (SendStream(r) \/ SendPlain(r)) /\ Free # {}
          /\ UNCHANGED <<stored, overwrote>>
      BY <1>3 DEF SubmitEdit, SendChat, RenderClick
    <2>2. r \in Requests
      BY <2>1, NextFree DEF Free
    <2>3. Conv(w, keys) /\ Len(w) = Len(messages) /\ (OwnAll(messages) => OwnAll(w))
      BY <1>k, EditedConv, EditedOwn
    <2> HIDE DEF w
    <2>4. 1 \in 1..(Len(w) + 1) /\ i \in 0..Len(w) /\ 1 <= i + 1
      BY <1>k, <2>3
    <2>5. Part(base, w)
      BY <2>3, <2>4, ConvItems, PartSub
    <2> HIDE DEF base, r
    <2>6. base \in Seq(MessageSet) /\ (OwnAll(messages) => OwnAll(base))
      BY <2>3, <2>5, PartOwn DEF Part
    <2>7. /\ \A s \in Requests \ {r} : ~req'[s].fresh
          /\ req'[r].content = 0 /\ req'[r].reasoning = 0
      BY <1>k, <2>1, <2>2, SentFields
    <2> QED BY <1>o, <2>1, <2>2, <2>6, <2>7, TextSent
  <1> QED BY <1>1, <1>2, <1>3

LEMMA TextClicks ==
    ASSUME TextGood,
           \/ ClearMessages
           \/ \E i \in 1..Len(messages) : SaveEdit(i) \/ DeleteMessage(i)
    PROVE  TextInv'
  <1>k. /\ Conv(messages, keys) /\ messages \in Seq(MessageSet) /\ Len(messages) \in Nat
        /\ \A r \in Requests : req[r].fresh => requesting /\ generating
        /\ queue # <<>> \/ requesting => generating
    BY GoodFacts DEF TextGood
  <1>o. ~overwrote => OwnAll(messages) /\ OwnAll(stored)
    BY TextParts
  <1>1. CASE ClearMessages
    <2>1. /\ messages' = <<>> /\ queue' = <<>> /\ ~generating
          /\ UNCHANGED <<req, stored, overwrote>>
      BY <1>1 DEF ClearMessages, Click, RenderClick, net
    <2>2. OwnAll(<<>>)
      BY DEF OwnAll
    <2> QED BY <1>k, <1>o, <2>1, <2>2, TextReset
  <1>2. ASSUME NEW i \in 1..Len(messages), DeleteMessage(i) PROVE TextInv'
    <2>1. /\ messages' = RemoveAt(Rendered(messages, queue), i) /\ queue' = <<>>
          /\ ~generating /\ UNCHANGED <<req, stored, overwrote>>
      BY <1>2 DEF DeleteMessage, Click, RenderClick, net
    <2>2. messages' = RemoveAt(messages, i)
      BY <1>k, <2>1, RenderedEmpty
    <2>3. OwnAll(messages) => OwnAll(messages')
      BY <1>k, <2>2, PartRemoved, PartOwn
    <2> QED BY <1>k, <1>o, <2>1, <2>3, TextReset
  <1>3. ASSUME NEW i \in 1..Len(messages), SaveEdit(i) PROVE TextInv'
    <2> DEFINE ms == WithEdit(i)
    <2>1. /\ messages' = ms /\ queue' = <<>> /\ UNCHANGED <<req, stored, pending>>
          /\ overwrote' = (overwrote \/ queue # <<>>) /\ messages[i].key = editing
      BY <1>3 DEF SaveEdit, Click, RenderClick, net
    <2>2. SUFFICES ASSUME ~overwrote, queue = <<>> PROVE TextInv'
      BY <2>1 DEF TextInv
    <2>3. /\ OwnAll(messages) /\ OwnAll(stored) /\ Shown = messages
          /\ \A r \in Requests :
                req[r].fresh => Shown # <<>> /\ Waits(Last(Shown), r, req[r], pending)
      BY <2>2, TextParts
    <2>4. OwnAll(ms)
      BY <1>k, <2>3, EditedOwn
    <2>5. /\ Conv(ms, keys) /\ Len(ms) = Len(messages)
          /\ \A j \in 1..Len(messages) : j # i => ms[j] = messages[j]
      BY <1>k, EditedConv
    <2> HIDE DEF ms
    <2>6. Shown' = ms
      BY <2>1, RenderedEmpty DEF Shown
    <2>7. ASSUME NEW r \in Requests, req[r].fresh
          PROVE  ms # <<>> /\ Last(ms) = Last(messages)
      <3>1. generating
        BY <1>k, <2>7
      <3>2. messages # <<>> /\ Last(messages).key # editing
        BY <3>1 DEF TextGood, Good, PageGood, ScreenInv
      <3>3. Last(messages) = messages[Len(messages)] /\ Len(messages) \in 1..Len(messages)
        BY <1>k, <3>2, ConvItems
      <3>4. Len(messages) # i
        BY <2>1, <3>2, <3>3
      <3>5. ms # <<>> /\ Last(ms) = ms[Len(ms)]
        BY <2>5, <3>3, ConvItems
      <3> QED BY <2>5, <3>3, <3>4, <3>5
    <2> QED BY <2>1, <2>3, <2>4, <2>6, <2>7 DEF TextInv
  <1> QED BY <1>1, <1>2, <1>3

LEMMA TextStop ==
    ASSUME TextGood, StopGeneration
    PROVE  TextInv'
  <1>g. /\ queue \in Seq(UpdateSet) /\ pending \in ChunkSet /\ Conv(messages, keys)
        /\ NetTypes
    BY GoodFacts DEF TextGood, Good, NetGood
  <1>1. PICK q \in StopCalls :
            RenderClick(Rendered(messages,
                                 Append(Survivors(q), Update("stop", NoChunks, None))))
    BY DEF StopGeneration, StopCalls
  <1> DEFINE u == Update("stop", NoChunks, None)
             x == IF Survivors(q) = <<>> THEN messages ELSE UpdateLast(messages, q[1])
  <1>2. messages' = UpdateLast(x, u) /\ queue' = <<>>
    BY <1>1, <1>g, StopRenders DEF RenderClick
  <1>3. UNCHANGED <<stored, overwrote>> /\ req' = Superseded
    BY DEF StopGeneration, Stopped, history
  <1>4. \A r \in Requests : ~req'[r].fresh
    BY <1>3, <1>g, SupersededFields
  <1>5. u \in UpdateSet /\ u.kind = "stop"
    BY UpdateIs, NoChunksIs
  <1>6. ASSUME ~overwrote PROVE OwnAll(x) /\ Conv(x, keys)
    <2>1. /\ OwnAll(messages) /\ (queue # <<>> => OwnAll(UpdateLast(messages, queue[1])))
          /\ (queue = <<>> => Shown = messages)
      BY <1>6, TextParts
    <2>2. CASE Survivors(q) = <<>>
      BY <1>g, <2>1, <2>2
    <2>3. CASE Survivors(q) # <<>>
      <3>1. /\ q \in Seq(UpdateSet)
            /\ queue # <<>> => q # <<>> /\ q[1] = queue[1]
            /\ queue = <<>> /\ q # <<>> => Same(q[1], Update("flush", pending, None))
        BY <1>g, StopCallsAre
      <3>2. q # <<>>
        BY <2>3, <3>1, SurvivorsAre
      <3>3. q[1] \in UpdateSet
        BY <3>1, <3>2
      <3>4. Conv(UpdateLast(messages, q[1]), keys)
        BY <1>g, <3>3, UpdateLastConv
      <3>5. CASE queue # <<>>
        BY <2>1, <2>3, <3>1, <3>4, <3>5
      <3>6. CASE queue = <<>>
        <4>1. UpdateLast(messages, q[1]) = UpdateLast(Shown, Update("flush", pending, None))
          BY <2>1, <3>1, <3>2, <3>6, UpdateSame
        <4>2. pending # NoChunks
          <5> SUFFICES ASSUME pending = NoChunks PROVE FALSE
            OBVIOUS
          <5>1. FlushUpdates = <<>>
            BY DEF FlushUpdates
          <5>2. q = <<>> \o <<>>
            BY <3>6, <5>1 DEF StopCalls
          <5>3. <<>> \o <<>> = <<>>
            OBVIOUS
          <5> QED BY <3>2, <5>2, <5>3
        <4>3. OwnAll(After)
          BY <1>6, AfterFlush
        <4> QED BY <2>3, <3>4, <4>1, <4>2, <4>3 DEF After
      <3> QED BY <3>5, <3>6
    <2> QED BY <2>2, <2>3
  <1>7. ~overwrote => OwnAll(stored)
    BY TextParts
  <1> HIDE DEF u, x
  <1>8. ASSUME ~overwrote PROVE OwnAll(messages')
    <2>1. x # <<>> => Last(x) \in MessageSet /\ Own(Last(x))
      BY <1>6, <1>8, ConvItems DEF OwnAll
    <2>2. x # <<>> => Own(UpdatedMessage(Last(x), u))
      BY <1>5, <2>1, EndOwn
    <2> QED BY <1>2, <1>5, <1>6, <1>8, <2>2, UpdateLastOwn
  <1> QED BY <1>2, <1>3, <1>4, <1>7, <1>8, TextReset

\* The page is left, loaded or saved.
LEMMA TextDisk ==
    ASSUME TextGood, Unmount \/ Reload \/ Load \/ Save
    PROVE  TextInv'
  <1>k. /\ Conv(messages, keys) /\ messages \in Seq(MessageSet) /\ Conv(stored, keys)
        /\ NetTypes
    BY GoodFacts DEF TextGood, Good, NetGood
  <1>o. ~overwrote => OwnAll(messages) /\ OwnAll(stored)
    BY TextParts
  <1>t. OwnAll(messages) => OwnAll(Trimmed(messages))
    BY <1>k, TrimmedPart, PartOwn
  <1>1. CASE Unmount \/ Reload
    <2>1. Fresh /\ stored' \in {stored, Trimmed(messages)}
      BY <1>1 DEF Unmount, Reload, Saved, Swallowed
    <2>2. messages' = <<>> /\ queue' = <<>> /\ req' = Superseded /\ overwrote' = overwrote
      BY <2>1 DEF Fresh
    <2>3. \A r \in Requests : ~req'[r].fresh
      BY <1>k, <2>2, SupersededFields
    <2>4. OwnAll(<<>>)
      BY DEF OwnAll
    <2> QED BY <1>o, <1>t, <2>1, <2>2, <2>3, <2>4, TextReset
  <1>2. CASE Load
    <2>1. /\ messages' \in {LoadedMessages(stored), <<>>}
          /\ stored' \in {Trimmed(LoadedMessages(stored)), stored}
          /\ UNCHANGED <<queue, req, overwrote>> /\ mounted = "loading"
      BY <1>2 DEF Load, WriteLoaded, Saved, Swallowed, net
    <2>2. queue' = <<>> /\ ~requesting
      BY <2>1 DEF TextGood, Good, PageGood, ScreenInv
    <2>3. \A r \in Requests : ~req'[r].fresh
      BY <2>1, <2>2 DEF TextGood, Good, NetGood, NetInv
    <2> DEFINE ms == LoadedMessages(stored)
    <2>4. OwnAll(stored) => OwnAll(ms)
      BY <1>k, LoadedOwn
    <2>5. ms \in Seq(MessageSet)
      BY <1>k, LoadedConv, ConvItems
    <2> HIDE DEF ms
    <2>6. OwnAll(ms) => OwnAll(Trimmed(ms))
      BY <2>5, TrimmedPart, PartOwn
    <2>7. OwnAll(<<>>)
      BY DEF OwnAll
    <2> QED BY <1>o, <2>1, <2>2, <2>3, <2>4, <2>6, <2>7, TextReset DEF ms
  <1>3. CASE Save
    <2>1. /\ stored' \in {Trimmed(messages), stored}
          /\ UNCHANGED <<messages, queue, pending, req, overwrote>>
      BY <1>3 DEF Save, Saved, Swallowed, page, net
    <2> QED BY <1>t, <2>1, TextQuiet DEF TextGood
  <1> QED BY <1>1, <1>2, <1>3

LEMMA TextNet ==
    ASSUME TextGood, NEW r \in Requests, NetChanges(r)
    PROVE  TextInv'
  <1>g. NetGood /\ NetTypes /\ TextInv /\ req \in [Requests -> RequestSet]
    BY DEF TextGood, Good, NetGood, NetTypes
  \* The end of a request that nobody hears.
  <1>u. ASSUME ~req[r].fresh, req' = Over(r),
               UNCHANGED <<messages, queue, pending, stored, overwrote>>
        PROVE  TextInv'
    <2>1. \A s \in Requests : req'[s].fresh => req'[s] = req[s]
      BY <1>g, <1>u, OverFields
    <2> QED BY <1>g, <1>u, <2>1, TextQuiet
  <1>1. CASE HeadersBack(r)
    <2>1. UNCHANGED <<messages, queue, pending, stored, overwrote>>
      BY <1>1 DEF HeadersBack, page, disk, history
    <2>2. CASE req[r].fresh
      <3>1. req' = [req EXCEPT ![r].at = "open", ![r].live = TRUE]
        BY <1>1, <2>2 DEF HeadersBack, AwaitsHeaders
      <3>2. \A s \in Requests : /\ req'[s].fresh = req[s].fresh
                                /\ req'[s].content = req[s].content
                                /\ req'[s].reasoning = req[s].reasoning
        BY <1>g, <3>1 DEF RequestSet
      <3> QED BY <1>g, <2>1, <3>2, TextQuiet
    <2>3. CASE ~req[r].fresh
      BY <1>1, <1>u, <2>1, <2>3 DEF HeadersBack, AwaitsHeaders
    <2> QED BY <2>2, <2>3
  <1>2. CASE HeadersFail(r)
    <2>1. UNCHANGED <<messages, stored, overwrote>> /\ req' = Over(r)
      BY <1>2 DEF HeadersFail, Unrendered, disk, history
    <2>2. CASE req[r].fresh
      <3>1. Finish(r, "error")
        BY <1>2, <2>2 DEF HeadersFail, AwaitsHeaders
      <3> QED BY <2>1, <2>2, <3>1, TextFinish
    <2>3. CASE ~req[r].fresh
      <3>1. UNCHANGED <<queue, pending>>
        BY <1>2, <2>3 DEF HeadersFail, AwaitsHeaders, Unheard
      <3> QED BY <1>u, <2>1, <2>3, <3>1
    <2> QED BY <2>2, <2>3
  <1>3. CASE ResponseBack(r)
    <2>1. UNCHANGED <<messages, stored, overwrote>> /\ req' = Over(r)
      BY <1>3 DEF ResponseBack, Unrendered, disk, history
    <2>2. CASE IsAwaited(r) /\ Enqueue(<<Update("response", NoChunks, r)>>)
      BY <1>3, <2>2, TextResponse
    <2>3. CASE IsAwaited(r) /\ Finish(r, "error")
      BY <2>1, <2>3, TextFinish DEF IsAwaited
    <2>4. CASE ~IsAwaited(r)
      <3>1. UNCHANGED <<queue, pending>>
        BY <1>3, <2>4 DEF ResponseBack, Unheard
      <3>2. ~req[r].fresh
        BY <1>3, <1>g, <2>4 DEF ResponseBack, IsAwaited, NetGood, NetInv
      <3> QED BY <1>u, <2>1, <3>1, <3>2
    <2> QED BY <1>3, <2>2, <2>3, <2>4 DEF ResponseBack
  <1>4. CASE StreamGoesSilent(r)
    <2>1. /\ UNCHANGED <<messages, queue, pending, stored, overwrote>>
          /\ req' = [req EXCEPT ![r].at = "silent", ![r].live = FALSE]
      BY <1>4 DEF StreamGoesSilent, page, disk
    <2>2. \A s \in Requests : /\ req'[s].fresh = req[s].fresh
                              /\ req'[s].content = req[s].content
                              /\ req'[s].reasoning = req[s].reasoning
      BY <1>g, <2>1 DEF RequestSet
    <2> QED BY <1>g, <2>1, <2>2, TextQuiet
  <1>5. ASSUME NEW type \in Types, NEW k \in 1..MaxChunks, ChunkBack(r, type, k)
        PROVE  TextInv'
    BY <1>5, TextChunk
  <1>6. ASSUME NEW kind \in {"finish", "error"}, StreamEnds(r, kind) PROVE TextInv'
    <2>1. UNCHANGED <<messages, stored, overwrote>> /\ req' = Over(r)
      BY <1>6 DEF StreamEnds, Unrendered, disk, history
    <2>2. CASE IsCurrent(r)
      BY <1>6, <2>1, <2>2, TextFinish DEF StreamEnds, IsCurrent
    <2>3. CASE ~IsCurrent(r)
      <3>1. UNCHANGED <<queue, pending>>
        BY <1>6, <2>3 DEF StreamEnds, Unheard
      <3>2. ~req[r].fresh
        BY <1>6, <1>g, <2>3 DEF StreamEnds, IsCurrent, NetGood, NetInv
      <3> QED BY <1>u, <2>1, <3>1, <3>2
    <2> QED BY <2>2, <2>3
  <1> QED BY <1>1, <1>2, <1>3, <1>4, <1>5, <1>6 DEF NetChanges

LEMMA TextStep ==
    ASSUME TextGood, [Next]_vars
    PROVE  TextInv'
  <1>1. CASE UNCHANGED vars \/ CancelEdit \/ \E i \in 1..Len(messages) : EditMessage(i)
    <2>1. UNCHANGED <<messages, queue, pending, stored, req, overwrote>>
      BY <1>1 DEF vars, page, net, disk, history, CancelEdit, EditMessage
    <2> QED BY <2>1, TextQuiet DEF TextGood
  <1>2. CASE UserStep
    BY <1>1, <1>2, TextSends, TextClicks, TextStop, TextDisk DEF UserStep
  <1>3. CASE SystemStep \/ \E r \in Requests : StreamGoesSilent(r)
    <2>1. ASSUME NEW r \in Requests, NetStep(r) \/ StreamGoesSilent(r) PROVE NetChanges(r)
      BY <2>1 DEF NetStep, NetChanges
    <2> QED BY <1>3, <2>1, TextRender, TextFlush, TextDisk, TextNet DEF SystemStep
  <1> QED BY <1>1, <1>2, <1>3 DEF Next

\* Whatever answers of stopped or superseded requests come in between and
\* wherever the flushes fall, a message shows only the answer to its own
\* request, in order and nothing twice, and without a gap unless deltas repeat
\* one another.
THEOREM TextsAreTheirOwn == Spec => []OwnText
  <1>1. Init => TextGood
    BY GoodInit, TextInit DEF TextGood
  <1>2. TextGood /\ [Next]_vars => TextGood'
    BY GoodStep, TextStep DEF TextGood
  <1>3. TextGood => OwnText
    BY DEF TextGood, TextInv, OwnAll, Own, OwnText
  <1> QED BY <1>1, <1>2, <1>3, PTL DEF Spec

=============================================================================
