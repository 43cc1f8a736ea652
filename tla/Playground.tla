----------------------------- MODULE Playground -----------------------------
(***************************************************************************)
(* The chat of the web console's playground                                *)
(* (web/src/features/playground): the conversation as React state, the     *)
(* stream controller, the buffer of chunks between two flushes, and the    *)
(* copy of the conversation in localStorage.                               *)
(*                                                                         *)
(* An event handler is one step.  The updaters that it hands to            *)
(* setMessages are queued: a handler of a click renders at once, updates   *)
(* from the network and from timers wait for Render.  When no update is    *)
(* queued React may call an updater right away, which matters because the  *)
(* updaters compare their generation with the one of the moment they are   *)
(* called.  The generations of the chat handler and of the controller are  *)
(* left by the same clicks: req[r].fresh says that both are still those of *)
(* r.  A text is a sequence of tokens; two tokens of an answer may read    *)
(* the same, and the code compares what they read.  <think> tags, timing,  *)
(* the wording of errors and the cut of one overlong message on load are   *)
(* left out.                                                               *)
(***************************************************************************)
EXTENDS Integers, FiniteSets, SequencesExt

CONSTANTS
    MaxRequests,    \* bound: chat requests
    MaxChunks,      \* bound: tokens of one answer
    Letter(_),      \* what a token reads
    Snapshots,      \* requests whose upstream sends the text so far, not deltas
    MaxEvents,      \* bound: edits, deletions, reloads and the like
    MaxStored,      \* MAX_STORED_MESSAGES
    MaxChars,       \* MAX_LOADED_MESSAGES_CHARS, in tokens
    MaxBytes        \* MAX_STORED_MESSAGES_BYTES, in tokens

ASSUME PlaygroundAssumption ==
    /\ MaxRequests \in Nat /\ Snapshots \subseteq 1..MaxRequests
    /\ MaxChunks \in Nat /\ MaxEvents \in Nat
    /\ MaxStored \in Nat \ {0}
    /\ MaxChars \in Nat \ {0} /\ MaxBytes \in Nat \ {0}

Requests == 1..MaxRequests
None == 0
Types == {"reasoning", "content"}

VARIABLES
    messages,      \* the conversation as it was rendered last
    queue,         \* updaters that React has not called yet
    pending,       \* pendingStreamChunksRef
    flushTimer,    \* streamFlushTimerRef is set
    source,        \* the source of the stream controller
    aborter,       \* the request of abortControllerRef
    req,           \* req[r]: one chat request
    requesting,    \* isRequesting
    generating,    \* isGenerating as it was rendered last
    editing,       \* editingMessageKey
    keys,          \* message keys given out
    stored,        \* the conversation in localStorage
    unsaved,       \* history: an error of the last save or load was swallowed
    saveTimer,     \* messagesSaveTimerRef is set
    mounted,       \* "no", "loading" or "yes"
    events,
    overwrote      \* history: a save of an edit dropped a queued update

page == <<messages, queue, pending, flushTimer, requesting,
          generating, editing, keys>>
net == <<source, aborter, req>>
disk == <<stored, unsaved, saveTimer, mounted>>
history == <<events, overwrote>>
vars == <<page, net, disk, history>>

-----------------------------------------------------------------------------
(* Messages. *)

\* The n-th token of the reasoning or of the content of the answer to r.
Token(r, type, n) == [req |-> r, type |-> type, n |-> n]
Prompt == <<Token(None, "content", 0)>>
Edited == <<Token(None, "content", 1)>>
ErrorText == <<Token(None, "content", 2)>>

\* The tokens a + 1, ..., b of a part of the answer to r, and its first n tokens.
Tokens(r, type, a, b) == [i \in 1..(b - a) |-> Token(r, type, a + i)]
Answer(r, type, n) == Tokens(r, type, 0, n)

UserMessage(key) ==
    [key |-> key, from |-> "user", owner |-> None, text |-> Prompt,
     reasoning |-> <<>>, status |-> "none"]

\* createLoadingAssistantMessage, for the request r that is sent with it.
LoadingMessage(key, r) ==
    [key |-> key, from |-> "assistant", owner |-> r, text |-> <<>>,
     reasoning |-> <<>>, status |-> "loading"]

\* isAssistantMessagePending and isAssistantMessageFinal.
Pending(m) == m.status \in {"loading", "streaming"}
Final(m) == m.status \in {"complete", "error"}

\* completeAssistantMessage: finalizeMessage and the status.
Complete(m) == [m EXCEPT !.status = "complete"]

\* The message of updateAssistantMessageWithError.
Failed(m) == [m EXCEPT !.text = ErrorText, !.status = "error"]

\* A mutant of AppendableChunk: a snapshot is appended as if it were a delta.
AppendableWhole(current, chunk) == chunk

\* chunk.startsWith(current), for a current that is not empty.
StartsWith(chunk, current) ==
    /\ current # <<>> /\ Len(current) <= Len(chunk)
    /\ \A i \in 1..Len(current) : Letter(chunk[i]) = Letter(current[i])

\* getAppendableChunk: what a chunk adds to the text that is there.
AppendableChunk(current, chunk) ==
    IF StartsWith(chunk, current)
        THEN SubSeq(chunk, Len(current) + 1, Len(chunk)) ELSE chunk

\* mergePendingStreamChunk.
MergeChunk(current, chunk) ==
    IF StartsWith(chunk, current) THEN chunk ELSE current \o chunk

NoChunks == [reasoning |-> <<>>, content |-> <<>>]

\* applyStreamingChunk for the reasoning and then for the content.
ApplyChunks(m, chunks) ==
    IF m.status = "error" THEN m
    ELSE [m EXCEPT
            !.reasoning = @ \o AppendableChunk(@, chunks.reasoning),
            !.text = @ \o AppendableChunk(@, chunks.content),
            !.status = "streaming"]

\* applyChatCompletionResponse.
ApplyResponse(m, r) ==
    [m EXCEPT !.text = Answer(r, "content", MaxChunks), !.status = "complete"]

-----------------------------------------------------------------------------
(* Updaters and rendering. *)

\* An updater; sure: React has called it already.
Update(kind, chunks, r) ==
    [kind |-> kind, chunks |-> chunks, req |-> r, sure |-> FALSE]

\* What updater u makes of the message it is given.
UpdatedMessage(m, u) ==
    CASE u.kind = "flush" -> ApplyChunks(m, u.chunks)
      [] u.kind = "finish" -> IF Final(m) THEN m ELSE Complete(m)
      [] u.kind = "error" -> Failed(m)
      [] u.kind = "response" -> ApplyResponse(m, u.req)
      [] u.kind = "stop" -> IF Pending(m) THEN Complete(m) ELSE m

\* updateLastAssistantMessage with updater u.
UpdateLast(ms, u) ==
    IF ms = <<>> THEN ms
    ELSE IF Last(ms).from # "assistant" THEN ms
    ELSE [ms EXCEPT ![Len(ms)] = UpdatedMessage(Last(ms), u)]

\* The conversation once every updater of q has been called.
Rendered(ms, q) == FoldLeft(UpdateLast, ms, q)

\* The updaters of q that still count when their generation has been left:
\* those called before.  Only the first can be, see Enqueue.
Survivors(q) == IF q # <<>> /\ q[1].sure THEN <<q[1]>> ELSE <<>>

\* React takes the updaters of us; the first may be called at once.
Enqueue(us) ==
    \/ queue' = queue \o us
    \/ /\ queue = <<>> /\ us # <<>>
       /\ queue' = [us EXCEPT ![1].sure = TRUE]

Streaming == source # None

\* A click is rendered before the next event: the conversation becomes ms.
\* updateMessages schedules a save.
RenderClick(ms) ==
    /\ messages' = ms
    /\ queue' = <<>>
    /\ saveTimer' = TRUE

\* The updates of the network and of timers are rendered.
Render ==
    /\ mounted = "yes"
    /\ queue # <<>> \/ generating # (requesting \/ Streaming)
    /\ messages' = Rendered(messages, queue)
    /\ queue' = <<>>
    /\ generating' = (requesting \/ Streaming)
    /\ saveTimer' = (saveTimer \/ queue # <<>>)
    /\ UNCHANGED <<pending, flushTimer, requesting, editing, keys,
                   net, stored, unsaved, mounted, history>>

-----------------------------------------------------------------------------
(* Sending: use-chat-handler and the stream controller. *)

NoRequest == [at |-> "none", fresh |-> FALSE, live |-> FALSE,
              reasoning |-> 0, content |-> 0]

Free == {r \in Requests : req[r].at = "none"}
NextRequest == CHOOSE r \in Free : \A s \in Free : r <= s

\* The requests once their generation is left: the source is closed, the
\* request without streaming aborted.
Superseded ==
    [r \in Requests |-> [req[r] EXCEPT !.fresh = FALSE,
                            !.live = @ /\ r \notin {source, aborter}]]

\* sendStreamingChat, up to the await of the headers.
SendStream(r) ==
    /\ req' = [Superseded EXCEPT ![r] =
                 [NoRequest EXCEPT !.at = "headers", !.fresh = TRUE]]
    /\ source' = None
    /\ aborter' = None

\* sendNonStreamingChat, up to the await of the response.
SendPlain(r) ==
    /\ req' = [Superseded EXCEPT ![r] =
                 [NoRequest EXCEPT !.at = "plain", !.fresh = TRUE, !.live = TRUE]]
    /\ source' = None
    /\ aborter' = r

\* sendChat(ms) in a click that has made the conversation ms.
SendChat(ms, r) ==
    /\ SendStream(r) \/ SendPlain(r)
    /\ pending' = NoChunks
    /\ flushTimer' = FALSE
    /\ requesting' = TRUE
    /\ generating' = TRUE
    /\ RenderClick(ms)

\* A click that changes the conversation to ms and sends nothing.
Click(ms) ==
    /\ RenderClick(ms)
    /\ generating' = (requesting \/ Streaming)
    /\ UNCHANGED <<pending, flushTimer, requesting, net>>

Event == mounted = "yes" /\ events < MaxEvents /\ events' = events + 1

\* handleSendMessage: the input is disabled while an answer is generated.
SendMessage ==
    /\ mounted = "yes" /\ ~generating /\ Free # {}
    /\ SendChat(Append(Append(messages, UserMessage(keys + 1)),
                       LoadingMessage(keys + 2, NextRequest)), NextRequest)
    /\ keys' = keys + 2
    /\ UNCHANGED <<editing, stored, unsaved, mounted, history>>

\* createRegeneratedMessages.
Regenerated(i, r) ==
    Append(SubSeq(messages, 1, IF messages[i].from = "user" THEN i ELSE i - 1),
           LoadingMessage(keys + 1, r))

\* handleRegenerateMessage, also the retry of an error.
RegenerateMessage(i) ==
    /\ Event /\ ~generating /\ Free # {}
    /\ messages[i].text # <<>> /\ ~Pending(messages[i])
    /\ SendChat(Regenerated(i, NextRequest), NextRequest)
    /\ keys' = keys + 1
    /\ UNCHANGED <<editing, stored, unsaved, mounted, overwrote>>

EditMessage(i) ==
    /\ Event /\ ~generating /\ messages[i].text # <<>>
    /\ editing' = messages[i].key
    /\ UNCHANGED <<messages, queue, pending, flushTimer, requesting,
                   generating, keys, net, disk, overwrote>>

\* handleEditOpenChange: the editor is closed without a save.
CancelEdit ==
    /\ mounted = "yes" /\ editing # None
    /\ editing' = None
    /\ UNCHANGED <<messages, queue, pending, flushTimer, requesting,
                   generating, keys, net, disk, history>>

\* applyMessageEdit without a submission.
WithEdit(i) == [messages EXCEPT ![i].text = Edited]

\* applyEdit: the editor stays open, and saves, while an answer is generated.
\* It replaces the conversation by an edit of the one rendered last.
SaveEdit(i) ==
    /\ Event /\ editing # None /\ messages[i].key = editing
    /\ Click(WithEdit(i))
    /\ editing' = None
    /\ overwrote' = (overwrote \/ queue # <<>>)
    /\ UNCHANGED <<keys, stored, unsaved, mounted>>

SubmitEdit(i) ==
    /\ Event /\ editing # None /\ messages[i].key = editing /\ Free # {}
    /\ messages[i].from = "user"
    /\ SendChat(Append(SubSeq(WithEdit(i), 1, i),
                       LoadingMessage(keys + 1, NextRequest)), NextRequest)
    /\ keys' = keys + 1
    /\ editing' = None
    /\ UNCHANGED <<stored, unsaved, mounted, overwrote>>

\* handleDeleteMessage.
DeleteMessage(i) ==
    /\ Event /\ ~generating
    /\ Click(RemoveAt(Rendered(messages, queue), i))
    /\ UNCHANGED <<editing, keys, stored, unsaved, mounted, overwrote>>

\* handleClearMessages.
ClearMessages ==
    /\ Event /\ ~generating /\ messages # <<>>
    /\ Click(<<>>)
    /\ editing' = None
    /\ UNCHANGED <<keys, stored, unsaved, mounted, overwrote>>

\* What flushStreamUpdates hands to React.
FlushUpdates ==
    IF pending = NoChunks THEN <<>> ELSE <<Update("flush", pending, None)>>

\* A mutant of Stopped: the source is closed in its generation.
StoppedSource ==
    [r \in Requests |-> [req[r] EXCEPT !.live = @ /\ r \notin {source, aborter}]]

\* The requests after a stop: cancel leaves the generation, too.
Stopped == Superseded

\* stopGeneration: the chunks that are left are handed to React before the
\* generation is left, so a busy queue drops them.
StopGeneration ==
    LET us == FlushUpdates
        calls == IF queue = <<>> /\ us # <<>> THEN {us, [us EXCEPT ![1].sure = TRUE]}
                 ELSE {queue \o us}
    IN
    /\ mounted = "yes" /\ generating
    /\ \E q \in calls :
         RenderClick(Rendered(messages,
                              Append(Survivors(q), Update("stop", NoChunks, None))))
    /\ pending' = NoChunks
    /\ flushTimer' = FALSE
    /\ source' = None
    /\ req' = Stopped
    /\ aborter' = None
    /\ requesting' = FALSE
    /\ generating' = FALSE
    /\ UNCHANGED <<editing, keys, stored, unsaved, mounted, history>>

-----------------------------------------------------------------------------
(* Answers. *)

Unheard == UNCHANGED <<queue, pending, flushTimer, requesting>>

\* A mutant of Finish: the last chunks are flushed after the end.
FinishThenFlush(r, kind) ==
    IF ~req[r].fresh THEN Unheard
    ELSE /\ Enqueue(<<Update(kind, NoChunks, None)>> \o FlushUpdates)
         /\ pending' = NoChunks
         /\ flushTimer' = FALSE
         /\ requesting' = FALSE

\* handleStreamError and handleStreamComplete for r: nothing for an older
\* generation; otherwise flush, then the update kind.
Finish(r, kind) ==
    IF ~req[r].fresh THEN Unheard
    ELSE /\ Enqueue(Append(FlushUpdates, Update(kind, NoChunks, None)))
         /\ pending' = NoChunks
         /\ flushTimer' = FALSE
         /\ requesting' = FALSE

Unrendered == <<messages, generating, editing, keys>>

\* r gets no more answers.
Over(r) == [req EXCEPT ![r] = [NoRequest EXCEPT !.at = "over"]]

\* A mutant of AwaitsHeaders: send goes on whatever has happened meanwhile.
AwaitsHeadersAlways(r) == TRUE

\* The controller still waits for the headers of r.
AwaitsHeaders(r) == req[r].fresh

\* getFreshAuthHeaders has answered: the stream is opened.
HeadersBack(r) ==
    /\ req[r].at = "headers"
    /\ IF AwaitsHeaders(r)
         THEN /\ source' = r
              /\ req' = [req EXCEPT ![r].at = "open", ![r].live = TRUE]
         ELSE req' = Over(r) /\ UNCHANGED source
    /\ UNCHANGED <<page, aborter, disk, history>>

\* A mutant of HeadersFail: nobody hears of the failure.
HeadersFailUnheard(r) ==
    /\ req[r].at = "headers"
    /\ req' = Over(r)
    /\ Unheard
    /\ UNCHANGED <<Unrendered, source, aborter, disk, history>>

HeadersFail(r) ==
    /\ req[r].at = "headers"
    /\ req' = Over(r)
    /\ IF AwaitsHeaders(r) THEN Finish(r, "error") ELSE Unheard
    /\ UNCHANGED <<Unrendered, source, aborter, disk, history>>

\* isCurrent of the controller.
IsCurrent(r) == source = r /\ req[r].fresh

\* What the server sends after m tokens to come to n: a delta or the text so far.
Chunk(r, type, m, n) ==
    IF r \in Snapshots THEN Answer(r, type, n) ELSE Tokens(r, type, m, n)

\* A message with reasoning or content; handleStreamUpdate.  A message of a
\* source that was closed changes nothing.
ChunkBack(r, type, k) ==
    LET n == req[r][type] + k IN
    /\ req[r].at = "open" /\ req[r].reasoning + req[r].content + k <= MaxChunks
    /\ IsCurrent(r)
    /\ req' = [req EXCEPT ![r][type] = n]
    /\ pending' = [pending EXCEPT
                     ![type] = MergeChunk(@, Chunk(r, type, req[r][type], n))]
    /\ flushTimer' = TRUE
    /\ UNCHANGED <<Unrendered, queue, requesting, source, aborter, disk, history>>

\* The stream of r ends with [DONE] ("finish") or with an error event, an HTTP
\* status or a chunk that cannot be parsed ("error").
StreamEnds(r, kind) ==
    /\ req[r].at = "open"
    /\ req' = Over(r)
    /\ IF IsCurrent(r) THEN Finish(r, kind) /\ source' = None
       ELSE Unheard /\ UNCHANGED source
    /\ UNCHANGED <<Unrendered, aborter, disk, history>>

\* The connection is closed with status 200 and without [DONE]: no listener
\* takes this for an end.
StreamGoesSilent(r) ==
    /\ req[r].at = "open" /\ events < MaxEvents
    /\ events' = events + 1
    /\ req' = [req EXCEPT ![r].at = "silent", ![r].live = FALSE]
    /\ UNCHANGED <<page, source, aborter, disk, overwrote>>

\* flushStreamUpdates by its timer.
Flush ==
    /\ flushTimer
    /\ flushTimer' = FALSE
    /\ Enqueue(FlushUpdates)
    /\ pending' = NoChunks
    /\ UNCHANGED <<Unrendered, requesting, net, disk, history>>

\* The response of r was not aborted and is of the current generation.
IsAwaited(r) == aborter = r /\ req[r].fresh

\* The response of a request without streaming.
ResponseBack(r) ==
    /\ req[r].at = "plain"
    /\ req' = Over(r)
    /\ IF IsAwaited(r)
         THEN /\ \/ /\ Enqueue(<<Update("response", NoChunks, r)>>)
                    /\ requesting' = FALSE
                    /\ UNCHANGED <<pending, flushTimer>>
                 \/ Finish(r, "error")
              /\ aborter' = None
         ELSE Unheard /\ UNCHANGED aborter
    /\ UNCHANGED <<Unrendered, source, disk, history>>

-----------------------------------------------------------------------------
(* localStorage. *)

Size(ms) == FoldLeft(LAMBDA acc, m : acc + Len(m.text) + Len(m.reasoning), 0, ms)

\* A mutant of Trimmed: the conversation is saved as a whole.
TrimmedNever(ms) == ms

\* trimMessages.
Trimmed(ms) == SubSeq(ms, IF Len(ms) > MaxStored THEN Len(ms) - MaxStored + 1 ELSE 1,
                      Len(ms))

\* trimMessagesByContentSize: the longest end that is not too large, but at
\* least the last message.
SizeTrimmed(ms) ==
    IF ms = <<>> THEN ms
    ELSE LET Tails == {SubSeq(ms, i, Len(ms)) : i \in 1..Len(ms)}
             Kept == {t \in Tails : Size(t) <= MaxChars \/ Len(t) = 1}
         IN CHOOSE t \in Kept : \A u \in Kept : Len(u) <= Len(t)

\* normalizeStoredMessageForLoad: a pending message with a text is complete.
Normalized(m) ==
    IF Pending(m) /\ (m.text # <<>> \/ m.reasoning # <<>>) THEN Complete(m) ELSE m

\* sanitizeMessagesOnLoad: the last pending message was interrupted.
Sanitized(ms) ==
    LET open == {i \in 1..Len(ms) : Pending(ms[i])} IN
    IF open = {} THEN ms
    ELSE [ms EXCEPT ![CHOOSE i \in open : \A j \in open : j <= i] = Failed(@)]

\* loadMessages: a conversation that is too large is removed.
LoadedMessages(ms) ==
    IF Size(ms) > MaxBytes THEN <<>>
    ELSE Sanitized(SizeTrimmed(Trimmed([i \in 1..Len(ms) |-> Normalized(ms[i])])))

\* saveMessages, and the error of localStorage or of the schema that it and
\* loadMessages swallow.
Saved(ms) == stored' = Trimmed(ms) /\ unsaved' = FALSE
Swallowed ==
    /\ events < MaxEvents /\ events' = events + 1
    /\ unsaved' = TRUE
    /\ UNCHANGED stored

\* A mutant of WriteLoaded: what the load has mended is not written back.
WriteLoadedNever == UNCHANGED <<stored, unsaved, events>>

\* The end of loadMessages: what is too large was removed, what is there is
\* written back as it was mended.
WriteLoaded ==
    \/ Saved(LoadedMessages(stored)) /\ UNCHANGED events
    \/ stored # <<>> /\ Size(stored) <= MaxBytes /\ Swallowed

\* The page is mounted.  A value that cannot be read or parsed is left, and
\* the page starts empty.
Load ==
    /\ mounted = "loading"
    /\ mounted' = "yes"
    /\ \/ messages' = LoadedMessages(stored) /\ WriteLoaded
       \/ messages' = <<>> /\ Swallowed
    /\ UNCHANGED <<queue, pending, flushTimer, requesting, generating,
                   editing, keys, net, saveTimer, overwrote>>

\* The debounced save.
Save ==
    /\ saveTimer
    /\ saveTimer' = FALSE
    /\ \/ Saved(messages) /\ UNCHANGED events
       \/ Swallowed
    /\ UNCHANGED <<page, net, mounted, overwrote>>

\* The page's memory is that of a component that has just been mounted; what
\* is under way is left to listeners that nobody reads.
Fresh ==
    /\ messages' = <<>> /\ queue' = <<>> /\ pending' = NoChunks
    /\ flushTimer' = FALSE /\ requesting' = FALSE /\ generating' = FALSE
    /\ editing' = None /\ saveTimer' = FALSE /\ mounted' = "loading"
    /\ source' = None
    /\ req' = Superseded
    /\ aborter' = None
    /\ UNCHANGED <<keys, overwrote>>

\* The user goes to another page of the console and comes back.
Unmount ==
    /\ Event
    /\ IF saveTimer THEN Saved(messages) \/ Swallowed ELSE UNCHANGED <<stored, unsaved>>
    /\ Fresh

\* The document is reloaded, or the browser ends: no cleanup runs.
Reload ==
    /\ Event
    /\ Fresh
    /\ UNCHANGED <<stored, unsaved>>

-----------------------------------------------------------------------------
Init ==
    /\ messages = <<>> /\ queue = <<>> /\ pending = NoChunks
    /\ flushTimer = FALSE /\ requesting = FALSE /\ generating = FALSE
    /\ editing = None /\ keys = 0
    /\ source = None /\ aborter = None
    /\ req = [r \in Requests |-> NoRequest]
    /\ stored = <<>> /\ unsaved = FALSE /\ saveTimer = FALSE /\ mounted = "loading"
    /\ events = 0 /\ overwrote = FALSE

UserStep ==
    \/ SendMessage \/ StopGeneration \/ ClearMessages \/ Unmount \/ Reload
    \/ CancelEdit
    \/ \E i \in 1..Len(messages) :
         \/ RegenerateMessage(i) \/ EditMessage(i) \/ SaveEdit(i) \/ SubmitEdit(i)
         \/ DeleteMessage(i)

NetStep(r) ==
    \/ HeadersBack(r) \/ HeadersFail(r) \/ ResponseBack(r)
    \/ \E type \in Types, k \in 1..MaxChunks : ChunkBack(r, type, k)
    \/ \E kind \in {"finish", "error"} : StreamEnds(r, kind)

\* What happens without the user: timers fire, React renders, servers answer.
SystemStep == Render \/ Flush \/ Load \/ Save \/ \E r \in Requests : NetStep(r)

Next == UserStep \/ SystemStep \/ \E r \in Requests : StreamGoesSilent(r)

Spec == Init /\ [][Next]_vars

-----------------------------------------------------------------------------
(* Properties. *)

Texts == Seq([req: Requests \cup {None}, type: Types, n: Nat])

Messages ==
    Seq([key: Nat, from: {"user", "assistant"}, owner: Requests \cup {None},
         text: Texts, reasoning: Texts,
         status: {"none", "loading", "streaming", "complete", "error"}])

\* Every variable keeps its type, no two messages share a key, and the
\* conversation in localStorage is never longer than MAX_STORED_MESSAGES.
TypeOK ==
    /\ messages \in Messages /\ stored \in Messages
    /\ \A i, j \in 1..Len(messages) : messages[i].key = messages[j].key => i = j
    /\ Len(stored) <= MaxStored
    /\ queue \in Seq([kind: {"flush", "finish", "error", "response", "stop"},
                      chunks: [reasoning: Texts, content: Texts],
                      req: Requests \cup {None}, sure: BOOLEAN])
    /\ keys \in Nat /\ editing \in Nat
    /\ pending \in [reasoning: Texts, content: Texts]
    /\ flushTimer \in BOOLEAN /\ requesting \in BOOLEAN /\ generating \in BOOLEAN
    /\ source \in Requests \cup {None} /\ aborter \in Requests \cup {None}
    /\ req \in [Requests -> [at: {"none", "headers", "open", "silent",
                                  "plain", "over"},
                             fresh: BOOLEAN, live: BOOLEAN,
                             reasoning: 0..MaxChunks, content: 0..MaxChunks]]
    /\ saveTimer \in BOOLEAN /\ unsaved \in BOOLEAN /\ mounted \in {"loading", "yes"}
    /\ events \in 0..MaxEvents /\ overwrote \in BOOLEAN

\* No stretch of that part of the answer to r is followed by one that reads
\* the same.
Unrepeated(r, type) ==
    \A a \in 0..MaxChunks, l \in 1..MaxChunks :
        a + 2 * l <= MaxChunks =>
            \E i \in 1..l : Letter(Token(r, type, a + i)) # Letter(Token(r, type, a + l + i))

\* text is made of tokens a + 1, ..., b of that part of the answer to r, in
\* their order and none twice.
Ordered(r, type, text, a, b) ==
    /\ \A i \in 1..Len(text) : /\ text[i] = Token(r, type, text[i].n)
                               /\ text[i].n \in (a + 1)..b
    /\ \A i, j \in 1..Len(text) : i < j => text[i].n < text[j].n

\* text is taken from that part of the answer to r; nothing in it is missing
\* unless deltas repeat one another.
Belongs(r, type, text) ==
    /\ Ordered(r, type, text, 0, MaxChunks)
    /\ r \in Snapshots \/ Unrepeated(r, type) => text = Answer(r, type, Len(text))

\* An assistant message holds only what was sent to its own request, in order
\* and nothing twice, whatever answers of stopped or superseded requests come
\* in between and wherever the flushes fall; an edit or an error replaces it as
\* a whole.  It has no gap when the upstream sends the text so far, or an
\* answer in which no stretch repeats itself at once: of deltas that do, the
\* comparison with what is pending or shown drops some.  The exception is an
\* edit saved over an update that React had not rendered.
OwnText ==
    ~overwrote =>
        \A i \in 1..Len(messages) :
            LET m == messages[i] IN
            m.from = "assistant" =>
                /\ m.text \in {Edited, ErrorText} \/ Belongs(m.owner, "content", m.text)
                /\ Belongs(m.owner, "reasoning", m.reasoning)

\* No message is left pending: when nothing is requested or streamed and
\* React has nothing to render, every message is final.
NoPendingWhenIdle ==
    ~overwrote /\ mounted = "yes" /\ ~requesting /\ ~Streaming /\ queue = <<>> =>
        \A i \in 1..Len(messages) : ~Pending(messages[i])

\* Every chat request that is open on the network is the one whose answer the
\* page shows: the others were closed or aborted, and are not billed further.
OneStream ==
    \A r \in Requests : req[r].live => r \in {source, aborter} /\ req[r].fresh

\* When no save is due, localStorage holds what the user sees: no path, an
\* unmount and a load included, loses track of a save.  After an error that
\* saveMessages or loadMessages has swallowed this waits for the next save.
NothingUnsaved ==
    mounted = "yes" /\ ~saveTimer /\ ~unsaved => stored = Trimmed(messages)

\* A message that was final keeps its text and its status unless the user
\* edits it: no late chunk, end or error of an answer reopens it.
FinalAnswersStay ==
    [][\A i \in 1..Len(messages) :
          /\ Final(messages[i]) /\ i <= Len(messages')
          /\ messages'[i].key = messages[i].key
          => /\ messages'[i].status = messages[i].status
             /\ messages'[i].text \in {messages[i].text, Edited}]_vars

\* The stop button never stays for nothing: as long as the chat counts as
\* generating, a request of the current generation is under way.  (A stream
\* that has ended without [DONE] counts: only the user ends it.)
NotStuck ==
    requesting \/ Streaming =>
        \E r \in Requests :
            req[r].fresh /\ req[r].at \in {"headers", "open", "silent", "plain"}
=============================================================================
