------------------------------- MODULE Kernel -------------------------------
(***************************************************************************)
(* The protocol kernel (reference/commandcode-proxy-6217305/proxy.mjs, as  *)
(* scripts/build-core.mjs patches it) between the gateway, its client, and *)
(* the upstream: the HTTP server with its cap on requests in flight, and   *)
(* the handlers of /v1/chat/completions, /v1/messages and /v1/responses.   *)
(*                                                                         *)
(* s[r] is all there is to one request: the locals of its handler, its     *)
(* response, the upstream request, and what the gateway has read.  An      *)
(* action is the code between two awaits; the operators on such records    *)
(* are the statements it is made of.                                       *)
(***************************************************************************)
EXTENDS Inspection, FiniteSets

CONSTANTS
  Request,      \* connections of the gateway, with one request at a time
  MaxInflight,  \* CC_MAX_INFLIGHT, where it is set
  DropsStalled, \* whether CC_CLIENT_DRAIN_TIMEOUT_MS is set
  KindsOf,      \* bound: <<protocol, stream>> of the requests a connection brings
  MaxLines      \* bound: lines of an upstream answer to a request of a connection

Protocols == {"chat", "messages", "responses"}

ASSUME KernelAssumption ==
  /\ IsFiniteSet(Request) /\ MaxInflight \in Nat \ {0} /\ DropsStalled \in BOOLEAN
  /\ KindsOf \in [Request -> SUBSET (Protocols \X BOOLEAN)] /\ MaxLines \in [Request -> Nat]

VARIABLES s, inflight   \* inflight is inflightCount
vars == <<s, inflight>>

Idle == [pc |-> "idle", protocol |-> "chat", stream |-> FALSE,
         listening |-> FALSE,   \* the handler's listener for 'close' is registered
         aborted |-> FALSE, signal |-> FALSE, started |-> FALSE,   \* signal: abortController's
         expired |-> FALSE,     \* the watchdog's promise is rejected
         t |-> Fresh, lines |-> 0,
         upstream |-> "none",   \* "asked", "open", then "over" or "stopped"
         head |-> "none",       \* the status written: "ok" or "error"; "clash" if written twice
         conn |-> "open",       \* "ended" by the handler, "flushed", "closed"; "destroyed" by
                                \* us, and "cut" when it was ended after that
         slot |-> FALSE,        \* counted in inflight and not released
         seen |-> Unseen,       \* what the gateway has made of the answer
         cause |-> "none",      \* history: how the upstream answer ended
         sawError |-> FALSE, sawFinish |-> FALSE,   \* history: lines that were translated
         tailError |-> FALSE]   \* history: an error was left in the buffer, without a line feed
-----------------------------------------------------------------------------
(* Statements. *)

Writable(q) == q.conn = "open"

\* res.write: the first one sends the head; nothing reaches a connection that is gone.
Write(q, frames) ==
  IF frames = <<>> THEN q
  ELSE [q EXCEPT !.head = IF @ = "none" THEN "ok" ELSE @, !.started = TRUE,
                 !.seen = IF Writable(q) THEN Push(@, frames) ELSE @]

\* The handler returns, and its locals are gone.
Return(q) == [q EXCEPT !.pc = "done", !.t = Fresh, !.lines = 0, !.started = FALSE]

\* res.end(), the last thing a handler does: writableEnded, even of a response destroyed.
Shut(conn) == CASE conn = "open" -> "ended" [] conn = "destroyed" -> "cut" [] OTHER -> conn
End(q) == Return([q EXCEPT !.conn = Shut(@)])

\* sendJSON, sendAnthropicError and sendResponsesError: writeHead throws when a head was sent.
Json(q, status, frames) ==
  End([q EXCEPT !.head = IF @ = "none" THEN status ELSE "clash",
                !.seen = IF Writable(q) THEN Push(@, frames) ELSE @])

Fail(q) == Json(q, "error", <<>>)

\* A buffered answer of status 200.
Answer(q) ==
  Json(q, "ok", <<[Frame(IF q.t.reason = "length" THEN "finish_length" ELSE "finish")
                   EXCEPT !.full = q.t.output]>>)

\* abortController.abort() and reader.cancel().
Abort(q) ==
  [q EXCEPT !.signal = TRUE,
            !.upstream = IF @ \in {"asked", "open"} THEN "stopped" ELSE @]
Cancel(q) == [q EXCEPT !.upstream = IF @ = "open" THEN "stopped" ELSE @]

\* The listeners for 'close': nothing once the response was ended.  What they
\* still write reaches nobody.
OnClose(q) ==
  IF ~q.listening \/ q.conn \in {"ended", "flushed", "cut"} THEN q
  ELSE [Abort(q) EXCEPT !.aborted = TRUE]

\* res.destroy(): 'close' comes later, when the caller has gone on.
Destroy(q) == [q EXCEPT !.conn = IF @ = "open" THEN "destroyed" ELSE @]

\* One line that is complete, in either mode.
Translate(q, e) ==
  CASE q.protocol = "chat"      -> ChatLine(q.t, e)
    [] q.protocol = "messages"  -> MessagesLine(q.t, e)
    [] q.protocol = "responses" -> ResponsesLine(q.t, e)

Collect(q, e) ==
  CASE q.protocol = "chat"      -> ChatCollect(q.t, e)
    [] q.protocol = "messages"  -> MessagesCollect(q.t, e)
    [] q.protocol = "responses" -> ResponsesCollect(q.t, e)

\* The message_start of a Messages stream waits in buf for the first other event.
WriteEvents(q, frames) ==
  Write(q, IF q.protocol = "messages" /\ ~q.started /\ frames # <<>>
           THEN <<Frame("begin")>> \o frames ELSE frames)

Take(q, e) ==
  LET saw == [q EXCEPT !.sawError = @ \/ e = "error", !.sawFinish = @ \/ e \in Finishes]
      r   == Translate(q, e)
  IN  IF q.stream THEN WriteEvents([saw EXCEPT !.t = r.t], r.frames)
      ELSE [saw EXCEPT !.t = Collect(q, e)]
-----------------------------------------------------------------------------
(* The end of the upstream answer, per protocol and mode.  tail is the line *)
(* left in the buffer without a line feed, or "none".                      *)

Flush(q, tail) == IF tail = "none" THEN q ELSE Take(q, tail)

ChatStreamEnd(q, tail) ==
  LET p == Flush(q, tail)
  IN  CASE p.t.error /\ ~p.started -> Fail(p)
        [] p.t.error /\ p.started  -> End(Write(p, <<Frame("error")>>))
        [] ~p.t.error /\ ~p.t.output /\ ~p.started -> Fail(Abort(p))
        [] ~p.t.error /\ ~p.t.output /\ p.started  -> End(Write(Abort(p), <<Frame("error")>>))
        [] OTHER -> End(Write(p, <<Frame("done")>>))

\* The tail is dropped.  The frames of MessagesFinal start the response, so the
\* branches for one that has not started find nothing to do.
MessagesStreamEnd(q) ==
  LET p == WriteEvents(q, MessagesFinal(q.t))
  IN  IF ~p.t.error /\ ~p.t.output THEN End(Abort(p)) ELSE End(p)

ResponsesStreamEnd(q, tail) ==
  LET p == Flush(q, tail)
  IN  CASE p.t.error /\ ~p.started -> Fail(p)
        [] p.t.error /\ p.started  -> End(Write(p, ResponsesFail(p.t)))
        [] ~p.t.error /\ ~p.t.output /\ ~p.t.created -> Fail(Abort(p))
        [] OTHER -> End(Write([p EXCEPT !.head = "ok"], ResponsesFinish(p.t)))

\* A finish without usage, and a tail, which is dropped, count as no output.
ChatBufferedEnd(q) ==
  CASE q.t.error -> Fail(q)
    [] ~q.t.error /\ q.t.usage # "some" -> Fail(Abort(q))
    [] OTHER -> Answer(q)

MessagesBufferedEnd(q) ==
  CASE q.t.error -> Fail(q)
    [] ~q.t.error /\ ~q.t.output -> Fail(Abort(q))
    [] OTHER -> Answer(q)

ResponsesBufferedEnd(q, tail) ==
  LET p == Flush(q, tail)
  IN  CASE p.t.error -> Fail(p)
        [] ~p.t.error /\ ~p.t.finish -> Fail(p)
        [] ~p.t.error /\ p.t.finish /\ ~p.t.output -> Fail(Abort(p))
        [] OTHER -> Answer(p)

AtEnd(q, tail) ==
  CASE q.protocol = "chat" /\ q.stream       -> ChatStreamEnd(q, tail)
    [] q.protocol = "chat" /\ ~q.stream      -> ChatBufferedEnd(q)
    [] q.protocol = "messages" /\ q.stream   -> MessagesStreamEnd(q)
    [] q.protocol = "messages" /\ ~q.stream  -> MessagesBufferedEnd(q)
    [] q.protocol = "responses" /\ q.stream  -> ResponsesStreamEnd(q, tail)
    [] q.protocol = "responses" /\ ~q.stream -> ResponsesBufferedEnd(q, tail)
-----------------------------------------------------------------------------
(* What the loops throw: the client's abort, the watchdog's timeout or an  *)
(* error of the upstream connection.                                       *)

\* Mutant: an error is always answered in JSON.
ChatStreamCatchJson(q) ==
  IF q.aborted THEN End(Cancel(q)) ELSE Fail(Abort(Cancel(q)))

ChatStreamCatch(q) ==
  CASE q.aborted -> End(Cancel(q))
    [] ~q.aborted /\ ~q.started -> Fail(Abort(Cancel(q)))
    [] ~q.aborted /\ q.started /\ q.cause = "timeout" -> End(Destroy(Write(Abort(Cancel(q)), <<Frame("error")>>)))
    [] OTHER -> End(Write(Abort(q), <<Frame("error")>>))

\* The generator's finally cancels the reader first.
MessagesStreamCatch(q) ==
  CASE q.aborted -> End(Cancel(q))
    [] ~q.aborted /\ ~q.started -> Fail(Abort(Cancel(q)))
    [] ~q.aborted /\ q.started /\ q.cause = "timeout" -> End(Destroy(Write(Abort(Cancel(q)), <<Frame("error")>>)))
    [] OTHER -> End(Write(Abort(Cancel(q)), <<Frame("error")>>))

\* A timeout neither cancels nor aborts, and its end() silences the listener.
ResponsesStreamCatch(q) ==
  CASE q.aborted -> End(Cancel(q))
    [] ~q.aborted /\ ~q.started /\ q.cause = "timeout" -> Fail(q)
    [] ~q.aborted /\ ~q.started /\ q.cause = "error"   -> Fail(Abort(q))
    [] ~q.aborted /\ q.started /\ q.cause = "timeout"  -> End(Destroy(Write(q, <<Frame("error")>>)))
    [] OTHER -> End(Write(Abort(q), <<Frame("error")>>))

\* Mutant: the upstream is left alone.
ChatCatchIdle(q) == IF q.signal THEN Return(q) ELSE Fail(q)

\* The outer catch: before the answer, and of a buffered one.  A cancelled
\* request is not answered, nor ended.
ChatCatch(q) ==
  IF q.signal THEN Return(q) ELSE Fail(Abort(Cancel(q)))

MessagesCatch(q) ==
  IF q.signal THEN Return(q) ELSE Fail(Abort(Cancel(q)))

\* Neither cancels nor aborts.
ResponsesCatch(q) ==
  CASE q.cause = "abort" -> Return(q)
    [] q.cause # "abort" /\ q.head = "none" -> Fail(q)
    [] OTHER -> End(Write(q, <<Frame("error")>>))

Throw(q, cause) ==
  LET p == [q EXCEPT !.cause = cause]
  IN  CASE p.protocol = "chat" /\ p.stream /\ p.pc = "read"      -> ChatStreamCatch(p)
        [] p.protocol = "messages" /\ p.stream /\ p.pc = "read"  -> MessagesStreamCatch(p)
        [] p.protocol = "responses" /\ p.stream /\ p.pc = "read" -> ResponsesStreamCatch(p)
        [] p.protocol = "chat" /\ ~(p.stream /\ p.pc = "read")      -> ChatCatch(p)
        [] p.protocol = "messages" /\ ~(p.stream /\ p.pc = "read")  -> MessagesCatch(p)
        [] p.protocol = "responses" /\ ~(p.stream /\ p.pc = "read") -> ResponsesCatch(p)
-----------------------------------------------------------------------------
(* The server. *)

Become(r, q) == s' = [s EXCEPT ![r] = q]
Do(r, q)     == Become(r, q) /\ UNCHANGED inflight

\* /health, / and preflights are answered whatever the load.
Exempt(r) == s[r].pc = "idle" /\ Do(r, Json(s[r], "ok", <<>>))

Refuse(r) ==
  /\ s[r].pc = "idle" /\ inflight >= MaxInflight
  /\ Do(r, Fail(s[r]))

Accept(r, protocol, stream) ==
  /\ s[r].pc = "idle" /\ inflight < MaxInflight
  /\ inflight' = inflight + 1
  /\ Become(r, [s[r] EXCEPT !.pc = "body", !.protocol = protocol, !.stream = stream, !.slot = TRUE])

\* Mutant: every event that may release does.
ReleaseAgain(q) == inflight' = inflight - 1

\* Mutant: only 'finish' releases.
ReleaseOnFinish(q) == inflight' = IF q.slot /\ q.conn = "ended" THEN inflight - 1 ELSE inflight

\* release(), on 'finish' or 'close', whichever comes first.
Release(q) == inflight' = IF q.slot /\ inflight > 0 THEN inflight - 1 ELSE inflight

\* 'finish': an ended response was handed over to the connection.
Finish(r) ==
  /\ s[r].conn = "ended"
  /\ Become(r, [s[r] EXCEPT !.slot = FALSE, !.conn = "flushed"])
  /\ Release(s[r])

\* 'close': the gateway left, or the response is destroyed or complete.
Close(r) ==
  /\ s[r].pc # "idle" /\ s[r].conn # "closed"
  /\ Become(r, [OnClose(s[r]) EXCEPT !.slot = FALSE, !.conn = "closed"])
  /\ Release(s[r])

\* The connection, or the one in its place, has its next request.
Reuse(r) ==
  /\ s[r].pc = "done" /\ s[r].conn \in {"closed", "flushed"}
  /\ Do(r, Idle)
-----------------------------------------------------------------------------
(* The handlers. *)

\* A body too large, no JSON, without a key, or refused by the protocol.
Reject(r) == s[r].pc = "body" /\ Do(r, Fail(s[r]))

\* The request is read and translated.  Only Responses listens from here on.
Begin(r) ==
  /\ s[r].pc = "body"
  /\ Do(r, [s[r] EXCEPT !.pc = "init", !.listening = (s[r].protocol = "responses")])

\* ensureInitialized: its own requests may fail or be aborted, and it returns.
Initialized(r) ==
  /\ s[r].pc = "init"
  /\ Do(r, [s[r] EXCEPT !.pc = "forward", !.upstream = IF s[r].signal THEN "stopped" ELSE "asked"])

\* fetch rejects: the upstream cannot be reached.
ForwardFails(r) ==
  /\ s[r].pc = "forward" /\ s[r].upstream = "asked"
  /\ Do(r, Throw([s[r] EXCEPT !.upstream = "over"], "error"))

\* The upstream refuses, and its body is read: mapCcError.
UpstreamRefuses(r) ==
  /\ s[r].pc = "forward" /\ s[r].upstream = "asked"
  /\ Do(r, Fail([s[r] EXCEPT !.upstream = "over"]))

UpstreamAnswers(r) ==
  /\ s[r].pc = "forward" /\ s[r].upstream = "asked"
  /\ Do(r, [s[r] EXCEPT !.pc = "read", !.upstream = "open", !.listening = TRUE])

\* What a line makes the handler write: its frames, or Chat's keep-alive.
Writes(q, e) == q.stream /\ (Translate(q, e).frames # <<>> \/ (q.protocol = "chat" /\ q.started))

\* reader.read() returns a chunk, here a line; more lines of a chunk are reads
\* that do not wait.  A write that leaves the buffer full is followed by waitDrain.
ReadLine(r, e, full) ==
  /\ s[r].pc = "read" /\ s[r].upstream = "open" /\ s[r].lines < MaxLines[r]
  /\ full => Writable(s[r]) /\ Writes(s[r], e)
  /\ Do(r, [Take(s[r], e) EXCEPT !.lines = @ + 1, !.pc = IF full THEN "drain" ELSE @])

ReadEnds(r, tail) ==
  /\ s[r].pc = "read" /\ s[r].upstream = "open"
  /\ Do(r, AtEnd([s[r] EXCEPT !.upstream = "over", !.cause = "end", !.tailError = (tail = "error")],
                 tail))

ReadFails(r) ==
  /\ s[r].pc = "read" /\ s[r].upstream = "open"
  /\ Do(r, Throw([s[r] EXCEPT !.upstream = "over"], "error"))

\* Nothing came for as long as the watchdog waits.
IdleTimeout(r) ==
  /\ s[r].pc = "read" /\ s[r].upstream = "open" /\ ~s[r].expired
  /\ Do(r, Throw(s[r], "timeout"))

\* The timer goes on while the handler waits for the client ...
WatchdogFires(r) ==
  /\ s[r].pc = "drain" /\ ~s[r].expired
  /\ Do(r, [s[r] EXCEPT !.expired = TRUE])

\* ... and a promise once rejected wins the race with any read that has to wait.
StaleTimeout(r) ==
  /\ s[r].pc = "read" /\ s[r].upstream = "open" /\ s[r].expired
  /\ Do(r, Throw(s[r], "timeout"))

\* fetch and read reject once the signal is aborted.
Aborted(r) ==
  /\ s[r].pc \in {"forward", "read"} /\ s[r].upstream = "stopped"
  /\ Do(r, Throw(s[r], "abort"))

\* Mutant: waitDrain waits for 'drain' only.
DrainedOpen(r) ==
  /\ s[r].pc = "drain" /\ s[r].conn = "open"
  /\ Do(r, [s[r] EXCEPT !.pc = "read"])

\* waitDrain returns: the client has read, or is gone.
Drained(r) ==
  /\ s[r].pc = "drain"
  /\ Do(r, [s[r] EXCEPT !.pc = "read"])

\* Mutant: the timer is not set.
DrainTimeoutNever(r) == FALSE

\* CLIENT_DRAIN_TIMEOUT_MS: the handler goes on before 'close' comes ...
DrainTimeout(r) ==
  /\ DropsStalled /\ s[r].pc = "drain" /\ s[r].conn = "open"
  /\ Do(r, Destroy([s[r] EXCEPT !.pc = "read"]))

\* ... and a Responses stream whose next chunk comes first leaves its loop, with what
\* the buffer holds for a last line.
LeavesDestroyed(r, tail) ==
  /\ s[r].pc = "read" /\ s[r].upstream = "open" /\ s[r].conn = "destroyed"
  /\ s[r].protocol = "responses" /\ s[r].stream
  /\ Do(r, ResponsesStreamEnd([s[r] EXCEPT !.cause = "left"], tail))
-----------------------------------------------------------------------------
Init == s = [r \in Request |-> Idle] /\ inflight = 0

Server(r) ==
  \/ Exempt(r) \/ Refuse(r)
  \/ \E kind \in KindsOf[r] : Accept(r, kind[1], kind[2])

Handle(r) ==
  \/ Reject(r) \/ Begin(r) \/ Initialized(r)
  \/ ForwardFails(r) \/ UpstreamRefuses(r) \/ UpstreamAnswers(r)
  \/ \E e \in Lines, full \in BOOLEAN : ReadLine(r, e, full)
  \/ \E tail \in Lines \cup {"none"} : ReadEnds(r, tail) \/ LeavesDestroyed(r, tail)
  \/ ReadFails(r) \/ IdleTimeout(r) \/ StaleTimeout(r) \/ Aborted(r)

Next == \E r \in Request :
  \/ Server(r) \/ Handle(r) \/ WatchdogFires(r)
  \/ Drained(r) \/ DrainTimeout(r) \/ Finish(r) \/ Close(r) \/ Reuse(r)

Spec == Init /\ [][Next]_vars

\* waitDrain returns although the client does not read.
Resume(r) == DrainTimeout(r) \/ (s[r].conn # "open" /\ Drained(r))

Settle(r) == s[r].conn # "open" /\ (Finish(r) \/ Close(r))

\* A handler is not delayed for good: a body arrives or breaks off, fetch answers
\* or fails, a read returns or the watchdog fires, and a wait for 'drain' ends with
\* the connection or the drain timer.  A response that was ended or destroyed is
\* flushed or closes.  The gateway need neither read nor leave.
LiveSpec == Spec /\ \A r \in Request : WF_vars(Handle(r) \/ Resume(r)) /\ WF_vars(Settle(r))
-----------------------------------------------------------------------------
(* Properties. *)

\* The gateway logs the request as a success.
Success(q) ==
  /\ q.pc = "done" /\ q.conn \in {"ended", "flushed"} /\ q.head = "ok"
  /\ Status(q.seen, q.stream) = "success"

\* The variables have the values they are meant to.
TypeOK ==
  /\ inflight \in 0 .. Cardinality(Request)
  /\ \A r \in Request :
       /\ DOMAIN s[r] = DOMAIN Idle
       /\ s[r].pc \in {"idle", "body", "init", "forward", "read", "drain", "done"}
       /\ s[r].protocol \in Protocols /\ s[r].lines \in 0 .. MaxLines[r]
       /\ s[r].upstream \in {"none", "asked", "open", "over", "stopped"}
       /\ s[r].head \in {"none", "ok", "error", "clash"}
       /\ s[r].conn \in {"open", "ended", "flushed", "closed", "destroyed", "cut"}
       /\ DOMAIN s[r].t = DOMAIN Fresh /\ s[r].t.block \in {"none", "thinking", "text", "tool"}
       /\ s[r].t.index \in Nat /\ s[r].t.next \in Nat /\ DOMAIN s[r].seen = DOMAIN Unseen

\* No handler answers twice: a JSON answer after the head of a stream would
\* throw in every catch up to the server's and leave the response hanging.
OneReply == \A r \in Request : s[r].head # "clash"

\* Messages and buffered chat drop the line that is left when the answer ends.
DropsTail(q) == q.protocol = "messages" \/ (q.protocol = "chat" /\ ~q.stream)

\* An answer that broke off, timed out or reported an error is never logged as a
\* success, whatever was streamed before (the catches of proxy.mjs, and
\* ResponseInspection, which reads what they write), with one exception: an error in
\* a last line without a line feed passes for a success where that line is dropped.
FailureShows ==
  \A r \in Request : Success(s[r]) =>
    /\ s[r].cause = "end" /\ ~s[r].sawError
    /\ s[r].tailError => DropsTail(s[r])

\* A Responses answer is logged as a success only after the upstream's finish
\* event: the patches of build-core.mjs, for the fourth gap of
\* docs/kernel-review.md.  Chat and Messages have no such patch.
CompletionIsReal ==
  \A r \in Request : Success(s[r]) /\ s[r].protocol = "responses" => s[r].sawFinish

\* The streams follow their protocols: blocks and items are numbered, opened and
\* closed in order, and none is open when the answer is completed.
WellFormed ==
  \A r \in Request :
    /\ s[r].seen.formed
    /\ s[r].protocol # "chat" /\ s[r].seen.next > 0 => s[r].seen.begun

\* Responses leaves its upstream request alone after a timeout, and when the drain timer
\* has destroyed its response: neither the handler nor the listener aborts it.
Abandons(q) == q.protocol = "responses" /\ q.cause \in {"timeout", "left"}

\* A handler that is done leaves no upstream request behind that goes on generating
\* for nobody, on every way out but these two.
UpstreamStopped ==
  \A r \in Request :
    s[r].pc = "done" /\ ~Abandons(s[r]) => s[r].upstream \notin {"asked", "open"}

\* A place is taken per request admitted and given back once, on every way out.
InflightExact ==
  /\ inflight = Cardinality({r \in Request : s[r].slot})
  /\ inflight <= MaxInflight

\* Every request that is admitted is over in the end and its place free, whether
\* the upstream goes silent, the gateway stops reading for good or leaves.
RequestEnds ==
  \A r \in Request : s[r].slot ~> s[r].pc \in {"done", "idle"} /\ ~s[r].slot

\* The timeout counts only the wait for the upstream (the comment before
\* createIdleWatchdog): a client that was slow to read is not cut off for it.
TimeoutMeansIdle == \A r \in Request : s[r].cause = "timeout" => ~s[r].expired
=============================================================================
