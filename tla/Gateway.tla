------------------------------- MODULE Gateway -------------------------------
(***************************************************************************)
(* handleGateway of server/lib/gateway/handler.ts: concurrent requests     *)
(* that reserve a lease (module Leases), forward to the upstream kernel,   *)
(* renew the lease meanwhile, fail over once to another account, and       *)
(* release the lease.  An action is the code between two awaits, or a Lua  *)
(* script that runs while its caller awaits the reply.                     *)
(*                                                                         *)
(* Tick waits for a timer that is due: the timers of a live process run on *)
(* time, to the precision of a tick.  Answers and disconnections may come  *)
(* at any time, and the idle timeout whenever an attempt has stalled.      *)
(***************************************************************************)
EXTENDS Leases

CONSTANTS
  Request,             \* client requests, each in a handler of its own
  SessionOf,           \* the affinity hash of a request, or NoSession
  RenewTicks,          \* RENEW_INTERVAL_MS
  RenewTimeoutTicks,   \* the 5000 ms given to one renewal
  ReplyTicks,          \* commandTimeout of the Redis client
  StreamModes,         \* bound: the values of body.stream that requests have
  MaxFaults            \* bound: infrastructure faults that hit one request

MaxAttempts == 2

ASSUME GatewayAssumption ==
  /\ IsFiniteSet(Request)
  /\ Token = Request \X (1 .. MaxAttempts)
  /\ SessionOf \in [Request -> Session \cup {NoSession}]
  /\ RenewTicks \in Nat \ {0} /\ RenewTimeoutTicks \in Nat \ {0} /\ ReplyTicks \in Nat
  /\ RenewTimeoutTicks <= RenewTicks
  /\ ReplyTicks + RenewTicks + RenewTimeoutTicks < LeaseTicks
  /\ StreamModes \subseteq BOOLEAN
  /\ MaxFaults \in Nat

VARIABLES
  pc,           \* where the handler of a request stands
  candidates,   \* allCandidates: the accounts listed for the request and their limits
  globalLimit,  \* settings.globalConcurrency as read when the request came
  streaming,    \* body.stream === true
  attempt,      \* 1 .. MaxAttempts (the code counts from 0)
  attempted,    \* the accounts the request was given a lease on
  account,      \* the account of the current lease, known or in the reply under way
  aborted,      \* controller.signal.aborted
  renewal,      \* "off", "idle" or "busy"
  timer,        \* ticks until the renewal interval next fires
  stalled,      \* requests the idle timer of whose attempt is due
  response,     \* "open", "sending" (headers sent), "ended" or "destroyed"
  sent,         \* the attempts a byte of whose answer went to the client
  denied,       \* accounts whose account_models row says 'denied' for the model
  msgs,         \* renewals and their replies under way, and stray ACQUIREs
  faults        \* faults that hit each request so far

inputVars  == <<candidates, globalLimit, streaming>>
triesVars  == <<attempt, attempted, account>>
callVars   == <<aborted, renewal, timer, stalled>>
answerVars == <<response, sent>>
worldVars  == <<denied, msgs, faults>>
vars == <<leaseVars, pc, inputVars, triesVars, callVars, answerVars, worldVars>>
-----------------------------------------------------------------------------
Current(r) == <<r, attempt[r]>>

\* Mutant: the accounts already tried stay candidates.
RemainingAll(r) == candidates[r]

\* The candidates not tried yet.
Remaining(r) == [a \in DOMAIN candidates[r] \ attempted[r] |-> candidates[r][a]]

Body       == {"body_ok", "body_error"}    \* by the status the upstream answered with
Forwarding == {"touch", "fetch"} \cup Body
Observing  == {"failed", "flush", "inspect"}
Holding    == Forwarding \cup Observing
Releasing  == {"release_retry", "release_return", "release_throw"}
Finished   == {"done", "crashed"}
Listening  == {"list", "loop", "acquire", "granted", "catch"} \cup Holding \cup Releasing

Renewing(t, a) == [op |-> "renew", token |-> t, account |-> a]
Reply(t, yes)  == [op |-> IF yes THEN "ok" ELSE "no", token |-> t]
Acquiring(t)   == [op |-> "acquire", token |-> t]
Replies(r)     == {Reply(Current(r), yes) : yes \in BOOLEAN}

Goto(r, l) == pc' = [pc EXCEPT ![r] = l]

\* A step that only moves on.
Move(r, from, to) ==
  /\ pc[r] = from /\ Goto(r, to)
  /\ UNCHANGED <<leaseVars, inputVars, triesVars, callVars, answerVars, worldVars>>

Fault(r) == faults[r] < MaxFaults /\ faults' = [faults EXCEPT ![r] = @ + 1]

\* Mutant: no timer is ever cleared.
StopTimersNot(r) == UNCHANGED <<renewal, timer, stalled>>

\* stopRenewal() and clearTimeout(idleTimer), and an abort, after which neither timer
\* does anything: the reply of a renewal is not heeded any more.
StopTimers(r) ==
  /\ renewal' = [renewal EXCEPT ![r] = "off"]
  /\ timer' = [timer EXCEPT ![r] = 0]
  /\ stalled' = stalled \ {r}

Abort(r) == aborted' = [aborted EXCEPT ![r] = TRUE] /\ StopTimers(r)

\* The inner finally stops the renewal before it awaits anything.
LeaveAttempt(r, l) ==
  /\ Goto(r, l) /\ StopTimers(r) /\ msgs' = msgs \ Replies(r)
  /\ UNCHANGED <<inputVars, triesVars, aborted, faults>>

\* gatewayError and res.end(): no effect on a response that is over.
EndResponse(r) ==
  /\ response' = [response EXCEPT ![r] = IF @ = "destroyed" THEN @ ELSE "ended"]
  /\ UNCHANGED sent

AnswerError(r) ==
  /\ Goto(r, "log") /\ EndResponse(r)
  /\ UNCHANGED <<inputVars, triesVars, callVars, worldVars>>
-----------------------------------------------------------------------------
(* The way to a lease. *)

\* Not authenticated, unreadable, or without a model: answered at once.
Reject(r) ==
  /\ pc[r] = "idle" /\ Goto(r, "done") /\ EndResponse(r)
  /\ UNCHANGED <<leaseVars, inputVars, triesVars, callVars, worldVars>>

\* The request is read and the try block entered.  A client that has left by
\* then goes unnoticed: the listener for 'close' is registered after that.
Begin(r, limit, isStream, gone) ==
  /\ pc[r] = "idle" /\ Goto(r, "list")
  /\ globalLimit' = [globalLimit EXCEPT ![r] = limit]
  /\ streaming' = [streaming EXCEPT ![r] = isStream]
  /\ response' = [response EXCEPT ![r] = IF gone THEN "destroyed" ELSE @]
  /\ UNCHANGED <<leaseVars, candidates, triesVars, callVars, sent, worldVars>>

ListCandidates(r, lim) ==
  /\ pc[r] = "list" /\ Goto(r, "loop")
  /\ DOMAIN lim \cap denied = {}
  /\ candidates' = [candidates EXCEPT ![r] = lim]
  /\ UNCHANGED <<leaseVars, globalLimit, streaming, triesVars, callVars, answerVars, worldVars>>

ListFails(r) == Move(r, "list", "catch")

\* The head of the loop.
LoopAborted(r) == aborted[r] /\ Move(r, "loop", "catch")
TryAcquire(r)  == ~aborted[r] /\ DOMAIN Remaining(r) # {} /\ Move(r, "loop", "acquire")
NoAccounts(r)  ==
  /\ pc[r] = "loop" /\ ~aborted[r] /\ DOMAIN Remaining(r) = {}
  /\ AnswerError(r) /\ UNCHANGED leaseVars

\* ACQUIRE runs for token t, which a retransmission may run twice.
AcquireFor(t, a, visited) ==
  LET r == t[1] IN Acquire(t, Remaining(r), globalLimit[r], SessionOf[r], a, visited)
RefuseFor(t) ==
  LET r == t[1] IN RefuseGlobal(globalLimit[r]) \/ RefuseAccounts(Remaining(r), globalLimit[r])

AcquireRuns(r, a, visited) ==
  /\ pc[r] = "acquire" /\ Goto(r, "granted")
  /\ AcquireFor(Current(r), a, visited)
  /\ account' = [account EXCEPT ![r] = a]
  /\ UNCHANGED <<inputVars, attempt, attempted, callVars, answerVars, worldVars>>

AcquireRefused(r) == pc[r] = "acquire" /\ RefuseFor(Current(r)) /\ AnswerError(r)

\* The connection breaks before the reply and the client sends the script again.
AcquireResent(r) ==
  /\ pc[r] = "granted" /\ Goto(r, "acquire") /\ Fault(r)
  /\ UNCHANGED <<leaseVars, inputVars, triesVars, callVars, answerVars, denied, msgs>>

\* An ACQUIRE nobody waits for may still run.
Stray(r, may) == IF may /\ pc[r] = "acquire" THEN {Acquiring(Current(r))} ELSE {}

\* acquireLease throws, by an error or the command timeout, outside the inner
\* try: nothing is released.
AcquireFails(r, may) ==
  /\ pc[r] \in {"acquire", "granted"} /\ Goto(r, "catch") /\ Fault(r)
  /\ msgs' = msgs \cup Stray(r, may)
  /\ UNCHANGED <<leaseVars, inputVars, triesVars, callVars, answerVars, denied>>

StrayAcquire(t) ==
  /\ Acquiring(t) \in msgs /\ msgs' = msgs \ {Acquiring(t)}
  /\ \/ RefuseFor(t)
     \/ \E a \in Account, visited \in SUBSET Account : AcquireFor(t, a, visited)
  /\ UNCHANGED <<pc, inputVars, triesVars, callVars, answerVars, denied, faults>>

\* The reply arrives: startRenewal.
Granted(r) ==
  /\ pc[r] = "granted" /\ Goto(r, "touch")
  /\ attempted' = [attempted EXCEPT ![r] = @ \cup {account[r]}]
  /\ renewal' = [renewal EXCEPT ![r] = IF aborted[r] THEN "off" ELSE "idle"]
  /\ timer' = [timer EXCEPT ![r] = IF aborted[r] THEN 0 ELSE RenewTicks]
  /\ UNCHANGED <<leaseVars, inputVars, attempt, account, aborted, stalled, answerVars, worldVars>>
-----------------------------------------------------------------------------
(* The renewal interval. *)

RenewFires(r) ==
  /\ renewal[r] = "idle" /\ timer[r] = 0
  /\ renewal' = [renewal EXCEPT ![r] = "busy"]
  /\ timer' = [timer EXCEPT ![r] = RenewTicks]
  /\ msgs' = msgs \cup {Renewing(Current(r), account[r])}
  /\ UNCHANGED <<leaseVars, pc, inputVars, triesVars, aborted, stalled, answerVars, denied, faults>>

Awaited(t) == renewal[t[1]] = "busy" /\ Current(t[1]) = t

RenewRuns(m) ==
  /\ m.op = "renew"
  /\ Renew(m.token, m.account)
  /\ msgs' = (msgs \ {m}) \cup
       {Reply(t, Renewable(t, m.account)) : t \in {m.token} \cap {t \in Token : Awaited(t)}}
  /\ UNCHANGED <<pc, inputVars, triesVars, callVars, answerVars, denied, faults>>

Renewed(r) ==
  /\ renewal[r] = "busy" /\ Reply(Current(r), TRUE) \in msgs
  /\ msgs' = msgs \ Replies(r)
  /\ renewal' = [renewal EXCEPT ![r] = "idle"]
  /\ UNCHANGED <<leaseVars, pc, inputVars, triesVars, aborted, timer, stalled, answerVars, denied,
                 faults>>

\* Mutant: the renewal has no timeout of its own.
RenewTimeoutNever(r) == FALSE

\* The script said no, or 5 seconds have passed; the command may still run then.
RenewTimeout(r) == timer[r] <= RenewTicks - RenewTimeoutTicks

\* Mutant: the loss of the lease is noted but the request is not aborted.
LeaseLostUnheeded(r) ==
  /\ renewal[r] = "busy" /\ (RenewTimeout(r) \/ Reply(Current(r), FALSE) \in msgs)
  /\ StopTimers(r) /\ msgs' = msgs \ Replies(r)
  /\ UNCHANGED <<leaseVars, pc, inputVars, triesVars, aborted, answerVars, denied, faults>>

LeaseLost(r) ==
  /\ renewal[r] = "busy" /\ (RenewTimeout(r) \/ Reply(Current(r), FALSE) \in msgs)
  /\ Abort(r) /\ msgs' = msgs \ Replies(r)
  /\ UNCHANGED <<leaseVars, pc, inputVars, triesVars, answerVars, denied, faults>>

RenewError(r, may) ==
  /\ renewal[r] = "busy" /\ Fault(r) /\ Abort(r)
  /\ msgs' = msgs \ (Replies(r) \cup IF may THEN {} ELSE {Renewing(Current(r), account[r])})
  /\ UNCHANGED <<leaseVars, pc, inputVars, triesVars, answerVars, denied>>

\* The reply is lost with the connection and the client sends RENEW again.
RenewResent(r) ==
  /\ renewal[r] = "busy" /\ Replies(r) \cap msgs # {} /\ Fault(r)
  /\ msgs' = (msgs \ Replies(r)) \cup {Renewing(Current(r), account[r])}
  /\ UNCHANGED <<leaseVars, pc, inputVars, triesVars, callVars, answerVars, denied>>
-----------------------------------------------------------------------------
(* Forwarding. *)

Touch(r) == Move(r, "touch", "fetch")

\* Chunks may still come: each of them starts the idle timer again.
Flows(r) == ~aborted[r] /\ r \notin stalled

UpstreamAnswers(r) == Flows(r) /\ \E b \in Body : Move(r, "fetch", b)

\* Mutant: an exception goes past the inner finally.
ThrowsPastFinally(r) ==
  /\ LeaveAttempt(r, "catch")
  /\ UNCHANGED <<leaseVars, answerVars, denied>>

Throws(r) ==
  /\ LeaveAttempt(r, "release_throw")
  /\ UNCHANGED <<leaseVars, answerVars, denied>>

\* The aborted signal makes fetch, read and write throw; so does writing to a
\* response found destroyed.
AbortThrows(r) ==
  /\ pc[r] \in {"fetch", "flush"} \cup Body
  /\ aborted[r] \/ (pc[r] = "flush" /\ response[r] = "destroyed")
  /\ Throws(r)

\* touchAccount or decryptSecret fails, the upstream connection breaks or carries
\* no body, or a chunk is for a response found destroyed.
Breaks(r) == pc[r] \in Forwarding /\ Throws(r)

\* A chunk is written: of a good answer, of a failed one too long for the buffer,
\* or of the buffered failure.  (Buffering a chunk changes nothing here.)
Write(r) ==
  /\ pc[r] \in Body \cup {"flush"} /\ Flows(r) /\ response[r] # "destroyed"
  /\ response' = [response EXCEPT ![r] = "sending"]
  /\ sent' = [sent EXCEPT ![r] = @ \cup {attempt[r]}]
  /\ UNCHANGED <<leaseVars, pc, inputVars, triesVars, callVars, worldVars>>

EndOfBody(r) == Flows(r) /\ (Move(r, "body_ok", "inspect") \/ Move(r, "body_error", "failed"))

\* classifyFailure: a denial of the model and an explicit rejection for quota,
\* credentials or rate are safe to retry; everything else is ambiguous.
Failure == {"denied", "rejected", "ambiguous"}
SafeToRetry == {"denied", "rejected"}

\* recordFailure; when it fails itself, that is logged only.
RecordFailure(r, f) ==
  \/ UNCHANGED <<leaseVars, denied>>
  \/ f = "denied" /\ denied' = denied \cup {account[r]} /\ UNCHANGED leaseVars
  \/ /\ f # "denied" /\ UNCHANGED denied
     /\ \E n \in 1 .. MaxCooldown : CoolDown(account[r], n)

ResponseStarted(r) == attempt[r] \in sent[r]

\* Mutant: bytes already sent do not prevent a retry.
MayRetryAnyway(r, f) ==
  /\ ~streaming[r] /\ f \in SafeToRetry
  /\ attempt[r] < MaxAttempts /\ DOMAIN Remaining(r) # {}

MayRetry(r, f) ==
  /\ ~streaming[r] /\ ~ResponseStarted(r) /\ f \in SafeToRetry
  /\ attempt[r] < MaxAttempts
  /\ DOMAIN Remaining(r) # {}

RetryElsewhere(r, f) ==
  /\ pc[r] = "failed" /\ MayRetry(r, f) /\ RecordFailure(r, f)
  /\ LeaveAttempt(r, "release_retry") /\ UNCHANGED answerVars

ReturnError(r, f) ==
  /\ pc[r] = "failed" /\ ~MayRetry(r, f) /\ RecordFailure(r, f)
  /\ \/ /\ ~ResponseStarted(r) /\ Goto(r, "flush")
        /\ UNCHANGED <<inputVars, triesVars, callVars, answerVars, msgs, faults>>
     \/ ResponseStarted(r) /\ LeaveAttempt(r, "release_return") /\ EndResponse(r)

FlushEnds(r) ==
  /\ pc[r] = "flush" /\ Flows(r) /\ response[r] # "destroyed"
  /\ response' = [response EXCEPT ![r] = "ended"]
  /\ sent' = [sent EXCEPT ![r] = @ \cup {attempt[r]}]
  /\ LeaveAttempt(r, "release_return") /\ UNCHANGED <<leaseVars, denied>>

\* A good answer may carry a failure, output (recordModelAllowed), or neither.
Inspect(r) ==
  /\ pc[r] = "inspect"
  /\ \/ \E f \in Failure : RecordFailure(r, f)
     \/ denied' = denied \ {account[r]} /\ UNCHANGED leaseVars
  /\ LeaveAttempt(r, "release_return") /\ EndResponse(r)
-----------------------------------------------------------------------------
(* The way out. *)

\* Mutant: every release counts as the end of an attempt.
AfterReleaseCounting(r) ==
  /\ Goto(r, CASE pc[r] = "release_retry" -> "loop" [] pc[r] = "release_return" -> "log"
               [] OTHER -> "catch")
  /\ pc[r] \in Releasing /\ attempt' = [attempt EXCEPT ![r] = @ + 1]
  /\ UNCHANGED <<inputVars, attempted, account, callVars, answerVars, denied, msgs>>

AfterRelease(r) ==
  /\ \/ pc[r] = "release_retry"  /\ Goto(r, "loop") /\ attempt' = [attempt EXCEPT ![r] = @ + 1]
     \/ pc[r] = "release_return" /\ Goto(r, "log") /\ UNCHANGED attempt
     \/ pc[r] = "release_throw"  /\ Goto(r, "catch") /\ UNCHANGED attempt
  /\ UNCHANGED <<inputVars, attempted, account, callVars, answerVars, denied, msgs>>

Released(r) == AfterRelease(r) /\ Release(Current(r), account[r]) /\ UNCHANGED faults

\* releaseLease throws, which is logged; the TTL reclaims the lease.
ReleaseFails(r) == AfterRelease(r) /\ Fault(r) /\ UNCHANGED leaseVars

\* Mutant: a response under way is ended as if it were whole.
CatchEnding(r) ==
  /\ pc[r] = "catch" /\ Goto(r, "log") /\ Abort(r) /\ EndResponse(r)
  /\ UNCHANGED <<leaseVars, inputVars, triesVars, worldVars>>

\* The outer catch answers with an error if nothing was sent, else breaks the connection.
Catch(r) ==
  /\ pc[r] = "catch" /\ Goto(r, "log") /\ Abort(r)
  /\ response' = [response EXCEPT ![r] =
       CASE @ = "open" -> "ended" [] @ = "sending" -> "destroyed" [] OTHER -> @]
  /\ UNCHANGED <<leaseVars, inputVars, triesVars, sent, worldVars>>

\* The outer finally; whether the log row is stored makes no difference here.
Log(r) == Move(r, "log", "done")
-----------------------------------------------------------------------------
(* What befalls a request. *)

Disconnect(r) ==
  /\ pc[r] \in Listening /\ response[r] \in {"open", "sending"}
  /\ response' = [response EXCEPT ![r] = "destroyed"]
  /\ Abort(r) /\ msgs' = msgs \ Replies(r)
  /\ UNCHANGED <<leaseVars, pc, inputVars, triesVars, sent, denied, faults>>

\* The upstream sends nothing, or the client takes nothing, for as long as the idle
\* timer runs; or the database takes that long.
Stalls(r) ==
  /\ pc[r] \in Holding \ {"touch"} /\ Flows(r)
  /\ stalled' = stalled \cup {r}
  /\ UNCHANGED <<leaseVars, pc, inputVars, triesVars, aborted, renewal, timer, answerVars, worldVars>>

\* Mutant: the idle timer covers the wait for the headers only.
IdleTimeoutOfFetch(r) ==
  /\ pc[r] = "fetch" /\ ~aborted[r] /\ r \in stalled
  /\ Abort(r) /\ msgs' = msgs \ Replies(r)
  /\ UNCHANGED <<leaseVars, pc, inputVars, triesVars, answerVars, denied, faults>>

IdleTimeout(r) ==
  /\ pc[r] \in Holding \ {"touch"} /\ ~aborted[r] /\ r \in stalled
  /\ Abort(r) /\ msgs' = msgs \ Replies(r)
  /\ UNCHANGED <<leaseVars, pc, inputVars, triesVars, answerVars, denied, faults>>

\* The web process dies; what it has sent to Redis may still run.
Crash(r, may) ==
  /\ pc[r] \notin Finished \cup {"idle"} /\ Goto(r, "crashed") /\ Fault(r)
  /\ response' = [response EXCEPT ![r] = IF @ = "ended" THEN @ ELSE "destroyed"]
  /\ StopTimers(r) /\ msgs' = (msgs \ Replies(r)) \cup Stray(r, may)
  /\ UNCHANGED <<leaseVars, inputVars, triesVars, aborted, sent, denied>>

Expire(s) == AffinityExpires(s)
  /\ UNCHANGED <<pc, inputVars, triesVars, callVars, answerVars, worldVars>>

\* Due: the interval, the timeout of a renewal, the timeout of an ACQUIRE that has run.
Due(r) ==
  \/ renewal[r] = "idle" /\ timer[r] = 0
  \/ renewal[r] = "busy" /\ RenewTimeout(r)
  \/ pc[r] = "granted" /\ globalLeases[Current(r)] <= LeaseTicks - ReplyTicks

Tick ==
  /\ \A r \in Request : ~Due(r)
  /\ LeaseTick
  /\ timer' = [r \in Request |-> IF renewal[r] = "off" THEN 0 ELSE timer[r] - 1]
  /\ UNCHANGED <<pc, inputVars, triesVars, aborted, renewal, stalled, answerVars, worldVars>>
-----------------------------------------------------------------------------
GatewayInit ==
  /\ Init
  /\ pc = [r \in Request |-> "idle"]
  /\ candidates = [r \in Request |-> [a \in {} |-> 0]]
  /\ globalLimit = [r \in Request |-> 1]
  /\ streaming = [r \in Request |-> FALSE]
  /\ attempt = [r \in Request |-> 1]
  /\ attempted = [r \in Request |-> {}]
  /\ account = [r \in Request |-> NoAccount]
  /\ aborted = [r \in Request |-> FALSE]
  /\ renewal = [r \in Request |-> "off"]
  /\ timer = [r \in Request |-> 0] /\ stalled = {}
  /\ response = [r \in Request |-> "open"]
  /\ sent = [r \in Request |-> {}]
  /\ denied = {} /\ msgs = {}
  /\ faults = [r \in Request |-> 0]

\* What the handler does by itself, given that Redis and the database answer.
Reserve(r) ==
  \/ \E lim \in Candidates : ListCandidates(r, lim)
  \/ ListFails(r) \/ LoopAborted(r) \/ TryAcquire(r) \/ NoAccounts(r)
  \/ \E a \in Account, visited \in SUBSET Account : AcquireRuns(r, a, visited)
  \/ AcquireRefused(r) \/ Granted(r)

RenewalStep(r) == RenewFires(r) \/ Renewed(r) \/ LeaseLost(r)

Forward(r) ==
  \/ Touch(r) \/ AbortThrows(r) \/ IdleTimeout(r) \/ Inspect(r)
  \/ \E f \in Failure : RetryElsewhere(r, f) \/ ReturnError(r, f)

Leave(r) == Released(r) \/ Catch(r) \/ Log(r)

\* What clients and the upstream may do, or not.
Others(r) ==
  \/ Reject(r) \/ Disconnect(r)
  \/ UpstreamAnswers(r) \/ Write(r) \/ EndOfBody(r) \/ FlushEnds(r) \/ Breaks(r) \/ Stalls(r)
  \/ \E limit \in 1 .. MaxGlobal, isStream \in StreamModes, gone \in BOOLEAN :
       Begin(r, limit, isStream, gone)

Faulty(r) ==
  \/ AcquireResent(r) \/ RenewResent(r) \/ ReleaseFails(r)
  \/ \E may \in BOOLEAN : AcquireFails(r, may) \/ RenewError(r, may) \/ Crash(r, may)

GatewayNext ==
  \/ \E r \in Request :
       Reserve(r) \/ RenewalStep(r) \/ Forward(r) \/ Leave(r) \/ Others(r) \/ Faulty(r)
  \/ \E m \in msgs : RenewRuns(m)
  \/ \E t \in Token : StrayAcquire(t)
  \/ \E s \in Session : Expire(s)
  \/ Tick

GatewaySpec == GatewayInit /\ [][GatewayNext]_vars
-----------------------------------------------------------------------------
GatewayTypeOK ==
  /\ TypeOK
  /\ pc \in [Request -> Listening \cup Finished \cup {"idle", "log"}]
  /\ candidates \in [Request -> Candidates]
  /\ globalLimit \in [Request -> 1 .. MaxGlobal]
  /\ streaming \in [Request -> BOOLEAN]
  /\ attempt \in [Request -> 1 .. MaxAttempts]
  /\ attempted \in [Request -> SUBSET Account]
  /\ account \in [Request -> Account \cup {NoAccount}]
  /\ aborted \in [Request -> BOOLEAN]
  /\ renewal \in [Request -> {"off", "idle", "busy"}]
  /\ timer \in [Request -> 0 .. RenewTicks] /\ stalled \subseteq Request
  /\ response \in [Request -> {"open", "sending", "ended", "destroyed"}]
  /\ sent \in [Request -> SUBSET (1 .. MaxAttempts)]
  /\ denied \subseteq Account
  /\ msgs \subseteq [op : {"renew"}, token : Token, account : Account]
                      \cup [op : {"ok", "no", "acquire"}, token : Token]
  /\ faults \in [Request -> 0 .. MaxFaults]

Holds(r) == globalLeases[Current(r)] > 0 /\ accountLeases[account[r]][Current(r)] > 0

(***************************************************************************)
(* Both halves of the lease are live for as long as the request may be     *)
(* running upstream, whatever replies, scripts and connections are lost:   *)
(* startRenewal either renews in time or aborts in time.                   *)
(***************************************************************************)
HeldLeaseIsLive ==
  \A r \in Request : pc[r] \in Forwarding /\ ~aborted[r] => Holds(r)

(***************************************************************************)
(* How old a lease may be at each instant of the renewal interval: the     *)
(* margin of LEASE_MS over RENEW_INTERVAL_MS and the two timeouts.         *)
(***************************************************************************)
AtLeast(r, n) ==
  account[r] \in Account /\ globalLeases[Current(r)] >= n
  /\ accountLeases[account[r]][Current(r)] >= n

Aged(r) ==
  /\ pc[r] = "granted" => AtLeast(r, LeaseTicks - ReplyTicks)
  /\ pc[r] \in Holding /\ ~aborted[r] /\ renewal[r] = "idle" =>
       AtLeast(r, LeaseTicks - ReplyTicks - RenewTicks + timer[r])
  /\ pc[r] \in Holding /\ ~aborted[r] => renewal[r] # "off"
  /\ pc[r] \in Holding /\ renewal[r] = "busy" =>
       /\ timer[r] >= RenewTicks - RenewTimeoutTicks
       /\ AtLeast(r, LeaseTicks - ReplyTicks - 2 * RenewTicks + timer[r])
       /\ Reply(Current(r), TRUE) \in msgs => AtLeast(r, LeaseTicks - RenewTicks + timer[r])

LeaseAge == \A r \in Request : Aged(r)

(***************************************************************************)
(* The kernel never runs more requests on an account, or in all, than the  *)
(* largest limits in force: the reason for having leases.                  *)
(***************************************************************************)
Upstream(a) == {r \in Request : pc[r] \in Forwarding /\ ~aborted[r] /\ account[r] = a}

UpstreamConcurrency ==
  /\ \A a \in Account : Cardinality(Upstream(a)) <= MaxLimit[a]
  /\ Cardinality(UNION {Upstream(a) : a \in Account}) <= MaxGlobal

(***************************************************************************)
(* The client gets bytes of one upstream answer at most: a retry happens   *)
(* only when zero bytes were sent downstream, and a stream is not replayed.*)
(* A request that is over has its response ended or its connection broken. *)
(***************************************************************************)
ResponseIntegrity ==
  \A r \in Request :
    /\ Cardinality(sent[r]) <= 1
    /\ attempt[r] > 1 => ~streaming[r] /\ sent[r] \subseteq {attempt[r]}
    /\ pc[r] \in {"log"} \cup Finished => response[r] \in {"ended", "destroyed"}

(***************************************************************************)
(* An answer that is cut short, by a lost lease or a broken upstream, ends *)
(* in a broken connection: a response with bytes of an answer ends in good *)
(* order only when the whole answer was read and the lease then still held.*)
(***************************************************************************)
NoTruncatedEnd ==
  [][\A r \in Request :
       response[r] = "sending" /\ response'[r] = "ended" => pc[r] \in Observing]_vars

(***************************************************************************)
(* A request that met no fault leaves no lease behind: every way out of an *)
(* attempt passes the release, and no late RENEW brings the lease back.    *)
(***************************************************************************)
NoLeaseLeak ==
  \A r \in Request : pc[r] \in {"log", "done"} /\ faults[r] = 0 =>
    \A i \in 1 .. MaxAttempts :
      /\ globalLeases[<<r, i>>] = NoEntry
      /\ \A a \in Account : accountLeases[a][<<r, i>>] = NoEntry

\* The gateway implements Dispatch, the abstract scheduler of upstream requests.
Abstract == INSTANCE Dispatch WITH
  running <- [r \in Request |->
                IF pc[r] \in Forwarding /\ ~aborted[r] THEN account[r] ELSE NoAccount],
  used <- attempted,
  answered <- {r \in Request : sent[r] # {} \/ response[r] = "ended"}

ImplementsDispatch == Abstract!Spec
-----------------------------------------------------------------------------
\* What goes on by itself when Redis and the database answer.
Handle(r) == Reserve(r) \/ Forward(r) \/ Leave(r)

\* An answer that has not stalled ends, breaks off or stalls: it is finite, and so is
\* its way to the client.  No timer would end one that trickles for ever.
AnswerEnds(r) ==
  /\ Flows(r)
  /\ UpstreamAnswers(r) \/ EndOfBody(r) \/ FlushEnds(r) \/ Breaks(r) \/ Stalls(r)

LiveGatewaySpec ==
  /\ GatewaySpec
  /\ \A r \in Request : WF_vars(Handle(r)) /\ WF_vars(RenewalStep(r)) /\ WF_vars(AnswerEnds(r))
  /\ WF_vars(\E m \in msgs : RenewRuns(m))
  /\ WF_vars(Tick)

\* Every request that has begun comes to an end, whether its answer ends, breaks off
\* or falls silent for good in the middle, and whatever becomes of its lease.
RequestEnds == \A r \in Request : pc[r] = "list" ~> pc[r] \in Finished

\* The capacity of a request that is over comes back, whatever went wrong.
CapacityReturns ==
  \A r \in Request : pc[r] \in Finished ~>
    \A a \in Account, i \in 1 .. MaxAttempts :
      <<r, i>> \notin Live(globalLeases) \cup Live(accountLeases[a])
=============================================================================
