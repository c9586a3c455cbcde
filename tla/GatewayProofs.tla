--------------------------- MODULE GatewayProofs ---------------------------
(***************************************************************************)
(* Proofs about the gateway's handler: for any number of concurrent        *)
(* requests, accounts and sessions, any limits, and any life of a lease    *)
(* that leaves the margin of GatewayAssumption, the leases of the requests *)
(* that run upstream are live, and the gateway does what Dispatch says.    *)
(***************************************************************************)
EXTENDS Gateway, LeasesProofs, TLAPS

USE GatewayAssumption
-----------------------------------------------------------------------------
(* The inductive invariant, by what it is about. *)

Reserving == {"idle", "list", "loop", "acquire"}

\* Where a request may have an account, a renewal and a second attempt.
Placed ==
  \A r \in Request :
    /\ pc[r] \in {"granted"} \cup Holding \cup Releasing => account[r] \in Account
    /\ renewal[r] # "off" => pc[r] \in Holding /\ ~aborted[r]
    /\ pc[r] = "release_retry" => attempt[r] < MaxAttempts

\* The token of the attempt that its request is making.
Now(t) == t[2] = attempt[t[1]]

\* A reply under way is awaited; a renewal under way is of a lease that was granted,
\* on the account it was granted on; a stray ACQUIRE has no handler left that waits.
Addressed ==
  /\ \A t \in Token, y \in BOOLEAN : Reply(t, y) \in msgs => Now(t) /\ renewal[t[1]] = "busy"
  /\ \A t \in Token, a \in Account : Renewing(t, a) \in msgs =>
       /\ t[2] <= attempt[t[1]]
       /\ Now(t) => a = account[t[1]] /\ pc[t[1]] \notin Reserving \cup {"granted"}
  /\ \A t \in Token : Acquiring(t) \in msgs => pc[t[1]] \in {"catch", "log"} \cup Finished

\* A lease just granted has two halves of one age.
Even(r) ==
  pc[r] = "granted" => accountLeases[account[r]][Current(r)] = globalLeases[Current(r)]

\* The entries of a request that met no fault are those of its current lease.
Stored(t) == globalLeases[t] # NoEntry \/ \E a \in Account : accountLeases[a][t] # NoEntry

Leasing == {"granted"} \cup Holding \cup Releasing

Own(t) ==
  faults[t[1]] = 0 =>
    /\ Acquiring(t) \notin msgs
    /\ Stored(t) => Now(t) /\ pc[t[1]] \in Leasing
    /\ \A a \in Account : accountLeases[a][t] # NoEntry => a = account[t[1]]

OwnEntries == \A t \in Token : Own(t)

\* Nothing was sent before the current attempt, and what was sent is of it.
OneAnswer(r) ==
  /\ sent[r] \subseteq {attempt[r]}
  /\ response[r] = "sending" => sent[r] # {}
  /\ attempt[r] > 1 \/ pc[r] = "release_retry" => ~streaming[r]
  /\ pc[r] = "idle" => attempt[r] = 1
  /\ pc[r] \in Reserving \cup {"granted", "touch", "fetch", "release_retry"} =>
       sent[r] = {} /\ response[r] # "ended"
  /\ pc[r] \in {"release_return", "log"} \cup Finished => response[r] \in {"ended", "destroyed"}
  /\ response[r] = "ended" => pc[r] \in {"release_return", "log"} \cup Finished

\* An account is used by every attempt so far, and each of them once.
Fresh(r) ==
  /\ pc[r] = "granted" => account[r] \notin attempted[r]
  /\ pc[r] \in Reserving \cup {"granted"} => Cardinality(attempted[r]) < attempt[r]
  /\ Cardinality(attempted[r]) <= attempt[r]

IInv ==
  /\ GatewayTypeOK /\ Placed /\ Addressed
  /\ OwnEntries
  /\ \A r \in Request : Aged(r) /\ Even(r) /\ OneAnswer(r) /\ Fresh(r)
-----------------------------------------------------------------------------
(* Tokens and messages. *)

\* A token names its request and its attempt, and the next one is another.
LEMMA Tokens ==
  ASSUME GatewayTypeOK
  PROVE  /\ \A r \in Request : /\ Current(r) \in Token
                               /\ Current(r)[1] = r /\ Now(Current(r))
         /\ \A t \in Token : /\ t[1] \in Request /\ t[2] \in 1 .. MaxAttempts
                             /\ \A r \in Request : t = Current(r) <=> t[1] = r /\ Now(t)
BY DEF GatewayTypeOK, Current, Now

\* Messages differ when their operations, tokens or accounts do.
LEMMA Messages ==
  /\ \A t, u, a, b : Renewing(t, a) = Renewing(u, b) => t = u /\ a = b
  /\ \A t, u : \A y, z \in BOOLEAN : Reply(t, y) = Reply(u, z) => t = u /\ y = z
  /\ \A t, u : Acquiring(t) = Acquiring(u) => t = u
  /\ \A t, u, a : \A y \in BOOLEAN : Renewing(t, a) # Reply(u, y)
  /\ \A t, u, a : Renewing(t, a) # Acquiring(u)
  /\ \A t, u : \A y \in BOOLEAN : Reply(t, y) # Acquiring(u)
<1>1. \A t, a : Renewing(t, a).op = "renew" /\ Renewing(t, a).token = t /\ Renewing(t, a).account = a
  BY DEF Renewing
<1>2. \A t : \A y \in BOOLEAN : Reply(t, y).op = (IF y THEN "ok" ELSE "no") /\ Reply(t, y).token = t
  BY DEF Reply
<1>3. \A t : Acquiring(t).op = "acquire" /\ Acquiring(t).token = t
  BY DEF Acquiring
<1> QED
  BY <1>1, <1>2, <1>3

\* What is under way, by its kind.
Message == [op : {"renew"}, token : Token, account : Account]
             \cup [op : {"ok", "no", "acquire"}, token : Token]

\* What is put under way is a message, and a renewal names its token and account.
LEMMA MessageKinds ==
  /\ \A t \in Token, a \in Account : Renewing(t, a) \in Message
  /\ \A t \in Token, y \in BOOLEAN : Reply(t, y) \in Message
  /\ \A t \in Token : Acquiring(t) \in Message
  /\ \A m \in Message : m.op = "renew" =>
       m.token \in Token /\ m.account \in Account /\ m = Renewing(m.token, m.account)
<1>1. \A t \in Token, a \in Account : Renewing(t, a) \in Message
  BY DEF Renewing, Message
<1>2. \A t \in Token, y \in BOOLEAN : Reply(t, y) \in Message
  BY DEF Reply, Message
<1>3. \A t \in Token : Acquiring(t) \in Message
  BY DEF Acquiring, Message
<1>4. \A m \in Message : m.op = "renew" =>
       m.token \in Token /\ m.account \in Account /\ m = Renewing(m.token, m.account)
  BY DEF Renewing, Message
<1> QED
  BY <1>1, <1>2, <1>3, <1>4
-----------------------------------------------------------------------------
(* The gateway's scripts are those of Leases. *)

\* Some of the candidates are candidates.
LEMMA SomeCandidates ==
  ASSUME NEW lim \in Candidates, NEW S \in SUBSET DOMAIN lim
  PROVE  [a \in S |-> lim[a]] \in Candidates
<1>1. S \in SUBSET Account /\ \A a \in S : lim[a] \in 1 .. MaxLimit[a]
  BY DEF Candidates
<1>2. [a \in S |-> lim[a]] \in [S -> UNION {1 .. MaxLimit[a] : a \in S}]
  BY <1>1
<1> QED
  BY <1>1, <1>2 DEF Candidates

\* What remains of the candidates, without those attempted, is candidates.
LEMMA RemainingCandidates ==
  ASSUME GatewayTypeOK, NEW r \in Request
  PROVE  /\ Remaining(r) \in Candidates
         /\ DOMAIN Remaining(r) = DOMAIN candidates[r] \ attempted[r]
<1>1. candidates[r] \in Candidates
  BY DEF GatewayTypeOK
<1> QED
  BY <1>1, SomeCandidates DEF Remaining

\* What each script does for a request, Leases lets it do.
LEMMA ScriptsOfRequests ==
  ASSUME GatewayTypeOK
  PROVE  /\ \A t \in Token, a \in Account, visited \in SUBSET Account :
              AcquireFor(t, a, visited) => AcquireSome
         /\ \A t \in Token : RefuseFor(t) => RefuseSome
         /\ \A a \in Account, n \in 1 .. MaxCooldown : CoolDown(a, n) => CoolDownSome
         /\ \A t \in Token, a \in Account : (Release(t, a) => ReleaseSome) /\ (Renew(t, a) => RenewSome)
<1>1. ASSUME NEW t \in Token
      PROVE  /\ Remaining(t[1]) \in Candidates /\ globalLimit[t[1]] \in 1 .. MaxGlobal
             /\ SessionOf[t[1]] \in Session \cup {NoSession}
  <2>1. t[1] \in Request
    BY Tokens
  <2> QED
    BY <2>1, RemainingCandidates DEF GatewayTypeOK
<1>2. \A t \in Token, a \in Account, visited \in SUBSET Account :
        AcquireFor(t, a, visited) => AcquireSome
  BY <1>1 DEF AcquireFor, AcquireSome
<1>3. \A t \in Token : RefuseFor(t) => RefuseSome
  BY <1>1 DEF RefuseFor, RefuseSome
<1> QED
  BY <1>2, <1>3 DEF CoolDownSome, ReleaseSome, RenewSome

\* Every step of the gateway is a step of the leases, or leaves them alone.
LEMMA LeaseStep ==
  ASSUME GatewayTypeOK, Placed, [GatewayNext]_vars
  PROVE  [Next]_leaseVars
<1> DEFINE Goal == [Next]_leaseVars
<1>0. \A r \in Request : Current(r) \in Token
  BY Tokens
<1>1. ASSUME NEW r \in Request, Reserve(r) PROVE Goal
  <2>1. CASE \E a \in Account, visited \in SUBSET Account : AcquireRuns(r, a, visited)
    BY <1>0, <2>1, ScriptsOfRequests DEF AcquireRuns, Next
  <2>2. CASE AcquireRefused(r)
    BY <1>0, <2>2, ScriptsOfRequests DEF AcquireRefused, Next
  <2>3. CASE UNCHANGED leaseVars
    BY <2>3
  <2>4. \/ UNCHANGED leaseVars \/ AcquireRefused(r)
        \/ \E a \in Account, visited \in SUBSET Account : AcquireRuns(r, a, visited)
    BY <1>1 DEF Reserve, ListCandidates, ListFails, LoopAborted, TryAcquire, NoAccounts, Granted, Move
  <2> QED
    BY <2>1, <2>2, <2>3, <2>4
<1>2. ASSUME NEW r \in Request, RenewalStep(r) PROVE Goal
  BY <1>2 DEF RenewalStep, RenewFires, Renewed, LeaseLost
<1>3. ASSUME NEW r \in Request, NEW f \in Failure, pc[r] \in Holding, RecordFailure(r, f) PROVE Goal
  <2>1. account[r] \in Account
    BY <1>3 DEF Placed
  <2> QED
    BY <1>3, <2>1, ScriptsOfRequests DEF RecordFailure, Next
<1>4. ASSUME NEW r \in Request, Forward(r) PROVE Goal
  <2>1. \/ UNCHANGED leaseVars
        \/ pc[r] \in Holding /\ \E f \in Failure : RecordFailure(r, f)
    BY <1>4 DEF Forward, Touch, AbortThrows, IdleTimeout, Inspect, RetryElsewhere, ReturnError,
                Throws, Move, Holding, Observing
  <2> QED
    BY <1>3, <2>1
<1>5. ASSUME NEW r \in Request, Leave(r) PROVE Goal
  <2>1. CASE Released(r)
    <3>1. account[r] \in Account
      BY <2>1 DEF Released, AfterRelease, Releasing, Placed
    <3> QED
      BY <1>0, <2>1, <3>1, ScriptsOfRequests DEF Released, Next
  <2> QED
    BY <1>5, <2>1 DEF Leave, Catch, Log, Move
<1>6. ASSUME NEW r \in Request, Others(r) \/ Faulty(r) PROVE Goal
  BY <1>6 DEF Others, Reject, Disconnect, UpstreamAnswers, Write, EndOfBody,
     FlushEnds, Breaks, Flows, Stalls, Begin,
              Move, Throws, Faulty, AcquireResent, RenewResent, ReleaseFails, AcquireFails, RenewError,
              Crash
<1>7. ASSUME NEW m \in msgs, RenewRuns(m) PROVE Goal
  <2>1. m.token \in Token /\ m.account \in Account
    BY <1>7, MessageKinds DEF RenewRuns, GatewayTypeOK, Message
  <2> QED
    BY <1>7, <2>1, ScriptsOfRequests DEF RenewRuns, Next
<1>8. ASSUME NEW t \in Token, StrayAcquire(t) PROVE Goal
  BY <1>8, ScriptsOfRequests DEF StrayAcquire, Next
<1>9. ASSUME NEW s \in Session, Expire(s) PROVE Goal
  BY <1>9 DEF Expire, Next, ExpireSome
<1>10. CASE Tick
  BY <1>10 DEF Tick, Next
<1>11. CASE UNCHANGED vars
  BY <1>11 DEF vars
<1> QED
  BY <1>1, <1>2, <1>4, <1>5, <1>6, <1>7, <1>8, <1>9, <1>10, <1>11 DEF GatewayNext
-----------------------------------------------------------------------------
(* Types. *)

\* Every step keeps the types, and where requests are placed.
LEMMA GatewayTypeStep ==
  ASSUME GatewayTypeOK, Placed, TypeOK', [GatewayNext]_vars
  PROVE  GatewayTypeOK' /\ Placed'
<1> DEFINE Goal == GatewayTypeOK' /\ Placed'
<1> USE DEF GatewayTypeOK, Placed, Listening, Holding, Forwarding, Body, Observing, Releasing, Finished,
            inputVars, triesVars, callVars, answerVars, worldVars, Goto, Move, MaxAttempts
<1>1. ASSUME NEW r \in Request, Reject(r) PROVE Goal
  BY <1>1 DEF Reject, EndResponse
<1>2. ASSUME NEW r \in Request, NEW limit \in 1 .. MaxGlobal, NEW isStream \in StreamModes,
             NEW gone \in BOOLEAN, Begin(r, limit, isStream, gone)
      PROVE Goal
  BY <1>2 DEF Begin
<1>3. ASSUME NEW r \in Request, NEW lim \in Candidates, ListCandidates(r, lim) PROVE Goal
  BY <1>3 DEF ListCandidates
<1>4. ASSUME NEW r \in Request, ListFails(r) \/ LoopAborted(r) \/ TryAcquire(r) PROVE Goal
  BY <1>4 DEF ListFails, LoopAborted, TryAcquire
<1>5. ASSUME NEW r \in Request, NoAccounts(r) \/ AcquireRefused(r) PROVE Goal
  <2>1. pc[r] \in {"loop", "acquire"} /\ AnswerError(r)
    BY <1>5 DEF NoAccounts, AcquireRefused
  <2> QED
    BY <2>1 DEF AnswerError, EndResponse
<1>6. ASSUME NEW r \in Request, NEW a \in Account, NEW visited, AcquireRuns(r, a, visited) PROVE Goal
  BY <1>6 DEF AcquireRuns
<1>7. ASSUME NEW r \in Request, Granted(r) PROVE Goal
  BY <1>7 DEF Granted
<1>8. ASSUME NEW r \in Request, AcquireResent(r) PROVE Goal
  BY <1>8 DEF AcquireResent, Fault
<1>27. ASSUME NEW r \in Request, renewal[r] # "off"
       PROVE  Renewing(Current(r), account[r]) \in Message
  BY <1>27, Tokens, MessageKinds
<1>28. ASSUME NEW r \in Request, RenewFires(r) PROVE Goal
  <2>1. msgs' \subseteq Message
    BY <1>27, <1>28 DEF RenewFires, Message
  <2> QED
    BY <1>28, <2>1 DEF RenewFires, Message
<1>29. ASSUME NEW r \in Request, RenewResent(r) PROVE Goal
  <2>1. msgs' \subseteq Message
    BY <1>27, <1>29 DEF RenewResent, Message
  <2> QED
    BY <1>29, <2>1 DEF RenewResent, Fault, Message
<1>30. ASSUME NEW r \in Request, Renewed(r) PROVE Goal
  BY <1>30 DEF Renewed
<1>9. ASSUME NEW r \in Request, NEW may \in BOOLEAN, AcquireFails(r, may) \/ Crash(r, may) PROVE Goal
  <2>1. Current(r) \in Token
    BY Tokens
  <2>2. msgs' \subseteq Message
    BY <1>9, <2>1, MessageKinds DEF AcquireFails, Crash, Stray, Message
  <2> QED
    BY <1>9, <2>2 DEF AcquireFails, Crash, Fault, StopTimers, Message
<1>10. ASSUME NEW r \in Request, NEW may \in BOOLEAN, RenewError(r, may) PROVE Goal
  BY <1>10 DEF RenewError, Fault, Abort, StopTimers
<1>11. ASSUME NEW r \in Request, LeaseLost(r) PROVE Goal
  BY <1>11 DEF LeaseLost, Abort, StopTimers
<1>31. ASSUME NEW r \in Request, Disconnect(r) PROVE Goal
  BY <1>31 DEF Disconnect, Abort, StopTimers
<1>32. ASSUME NEW r \in Request, IdleTimeout(r) PROVE Goal
  BY <1>32 DEF IdleTimeout, Abort, StopTimers
<1>12. ASSUME NEW r \in Request, Touch(r) \/ UpstreamAnswers(r) \/ EndOfBody(r) \/ Log(r) PROVE Goal
  BY <1>12 DEF Touch, UpstreamAnswers, EndOfBody, Log
<1>13. ASSUME NEW r \in Request, AbortThrows(r) \/ Breaks(r) PROVE Goal
  BY <1>13 DEF AbortThrows, Breaks, Throws, LeaveAttempt, StopTimers
<1>14. ASSUME NEW r \in Request, Write(r) \/ Stalls(r) PROVE Goal
  BY <1>14 DEF Write, Stalls
<1>15. ASSUME NEW r \in Request, NEW f \in Failure, pc[r] \in Holding, RecordFailure(r, f)
       PROVE  denied' \subseteq Account
  BY <1>15 DEF RecordFailure, CoolDown
<1>16. ASSUME NEW r \in Request, NEW f \in Failure, RetryElsewhere(r, f) PROVE Goal
  <2>1. denied' \subseteq Account
    BY <1>15, <1>16 DEF RetryElsewhere
  <2> QED
    BY <1>16, <2>1 DEF RetryElsewhere, MayRetry, LeaveAttempt, StopTimers
<1>17. ASSUME NEW r \in Request, NEW f \in Failure, ReturnError(r, f) PROVE Goal
  <2>1. denied' \subseteq Account
    BY <1>15, <1>17 DEF ReturnError
  <2> QED
    BY <1>17, <2>1 DEF ReturnError, LeaveAttempt, StopTimers, EndResponse
<1>18. ASSUME NEW r \in Request, FlushEnds(r) PROVE Goal
  BY <1>18 DEF FlushEnds, LeaveAttempt, StopTimers
<1>19. ASSUME NEW r \in Request, Inspect(r) PROVE Goal
  <2>1. denied' \subseteq Account
    BY <1>15, <1>19 DEF Inspect
  <2> QED
    BY <1>19, <2>1 DEF Inspect, LeaveAttempt, StopTimers, EndResponse
<1>20. ASSUME NEW r \in Request, Released(r) \/ ReleaseFails(r) PROVE Goal
  BY <1>20 DEF Released, ReleaseFails, AfterRelease, Fault
<1>21. ASSUME NEW r \in Request, Catch(r) PROVE Goal
  BY <1>21 DEF Catch, Abort, StopTimers
<1>22. ASSUME NEW m \in msgs, RenewRuns(m) PROVE Goal
  <2>1. \A t \in Token : Reply(t, Renewable(t, m.account)) \in Message
    BY MessageKinds DEF Renewable
  <2>2. msgs \subseteq Message
    BY DEF Message
  <2>3. msgs' \subseteq Message
    BY <1>22, <2>1, <2>2 DEF RenewRuns
  <2> QED
    BY <1>22, <2>3 DEF RenewRuns, Message
<1>23. ASSUME NEW t \in Token, StrayAcquire(t) PROVE Goal
  BY <1>23 DEF StrayAcquire
<1>24. ASSUME NEW s \in Session, Expire(s) PROVE Goal
  BY <1>24 DEF Expire
<1>25. CASE Tick
  <2>1. timer' \in [Request -> 0 .. RenewTicks]
    <3>1. ASSUME NEW r \in Request, renewal[r] # "off" PROVE timer[r] - 1 \in 0 .. RenewTicks
      <4>1. timer[r] \in 0 .. RenewTicks /\ renewal[r] \in {"idle", "busy"}
        BY <3>1
      <4>2. timer[r] # 0
        BY <1>25, <3>1, <4>1 DEF Tick, Due, RenewTimeout
      <4> QED
        BY <4>1, <4>2
    <3> QED
      BY <1>25, <3>1 DEF Tick
  <2> QED
    BY <1>25, <2>1 DEF Tick
<1>26. CASE UNCHANGED vars
  BY <1>26 DEF vars
<1> QED
  BY SMTT(30), <1>1, <1>2, <1>3, <1>4, <1>5, <1>6, <1>7, <1>8, <1>9, <1>10, <1>11, <1>12, <1>13, <1>14,
     <1>16, <1>17, <1>18, <1>19, <1>20, <1>21, <1>22, <1>23, <1>24, <1>25, <1>26,
     <1>28, <1>29, <1>30, <1>31, <1>32
     DEF GatewayNext, Reserve, RenewalStep, Forward, Leave, Others, Faulty
-----------------------------------------------------------------------------
(* Messages. *)

\* The replies to the current renewal, and nothing else, are dropped together.
LEMMA RepliesOf ==
  ASSUME GatewayTypeOK, NEW r \in Request
  PROVE  /\ \A t \in Token, y \in BOOLEAN : Reply(t, y) \in Replies(r) <=> t[1] = r /\ Now(t)
         /\ \A t \in Token, a \in Account : Renewing(t, a) \notin Replies(r)
         /\ \A t \in Token : Acquiring(t) \notin Replies(r)
<1>1. \A t \in Token, y \in BOOLEAN : Reply(t, y) \in Replies(r) <=> t = Current(r)
  BY Messages DEF Replies
<1>2. \A t \in Token : t = Current(r) <=> t[1] = r /\ Now(t)
  BY Tokens
<1>3. /\ \A t \in Token, a \in Account : Renewing(t, a) \notin Replies(r)
      /\ \A t \in Token : Acquiring(t) \notin Replies(r)
  BY Messages DEF Replies
<1> QED
  BY <1>1, <1>2, <1>3

Over == {"catch", "log"} \cup Finished

\* No step of r but the granting of a lease, the next attempt and the sending of
\* messages needs a look at them.
Settles(r) ==
  /\ msgs' \subseteq msgs
  /\ UNCHANGED <<attempt, account>>
  /\ \A q \in Request \ {r} : pc'[q] = pc[q] /\ renewal'[q] = renewal[q]
  /\ pc[r] \notin Reserving \cup {"granted"} => pc'[r] \notin Reserving \cup {"granted"}
  /\ pc[r] \in Over => pc'[r] \in Over
  /\ renewal[r] = "busy" /\ renewal'[r] # "busy" => msgs' \cap Replies(r) = {}

\* A step that settles a message of a request keeps the messages addressed.
LEMMA SettledStep ==
  ASSUME GatewayTypeOK, Addressed, NEW r \in Request, Settles(r)
  PROVE  Addressed'
<1>1. \A t \in Token : t[1] \in Request /\ (Now(t)' <=> Now(t))
  BY Tokens DEF Settles, Now
<1>2. ASSUME NEW t \in Token, NEW y \in BOOLEAN, Reply(t, y) \in msgs'
      PROVE  Now(t)' /\ renewal'[t[1]] = "busy"
  <2>1. Reply(t, y) \in msgs /\ Now(t) /\ renewal[t[1]] = "busy"
    BY <1>2 DEF Settles, Addressed
  <2>2. CASE t[1] = r
    BY <1>1, <1>2, <2>1, <2>2, RepliesOf DEF Settles
  <2> QED
    BY <1>1, <2>1, <2>2 DEF Settles
<1>3. ASSUME NEW t \in Token, NEW a \in Account, Renewing(t, a) \in msgs'
      PROVE  /\ t[2] <= attempt'[t[1]]
             /\ Now(t)' => a = account'[t[1]] /\ pc'[t[1]] \notin Reserving \cup {"granted"}
  BY <1>1, <1>3 DEF Settles, Addressed
<1>4. ASSUME NEW t \in Token, Acquiring(t) \in msgs' PROVE pc'[t[1]] \in Over
  BY <1>1, <1>4 DEF Settles, Addressed, Over
<1> QED
  BY <1>2, <1>3, <1>4 DEF Addressed, Over

\* Every step keeps the messages addressed.
LEMMA AddressedStep ==
  ASSUME GatewayTypeOK, Placed, Addressed, [GatewayNext]_vars
  PROVE  Addressed'
<1> USE DEF inputVars, triesVars, callVars, answerVars, worldVars, Goto, Move
<1>0. /\ pc \in [Request -> Listening \cup Finished \cup {"idle", "log"}]
      /\ renewal \in [Request -> {"off", "idle", "busy"}]
      /\ attempt \in [Request -> 1 .. MaxAttempts]
      /\ account \in [Request -> Account \cup {NoAccount}]
  BY DEF GatewayTypeOK
<1> DEFINE Waits == Reserving \cup {"granted"}
<1>1. ASSUME NEW r \in Request,
             \/ Reject(r) \/ \E limit \in 1 .. MaxGlobal, isStream \in StreamModes, gone \in BOOLEAN :
                               Begin(r, limit, isStream, gone)
             \/ \E lim \in Candidates : ListCandidates(r, lim)
             \/ ListFails(r) \/ LoopAborted(r) \/ TryAcquire(r) \/ NoAccounts(r) \/ AcquireRefused(r)
             \/ Granted(r) \/ AcquireResent(r)
      PROVE  Settles(r)
  <2>1. pc[r] \in {"idle", "list", "loop", "acquire", "granted"} /\ pc[r] \in Waits /\ pc[r] \notin Over
        /\ renewal[r] = "off"
    BY <1>0, <1>1 DEF Reject, Begin, ListCandidates, ListFails, LoopAborted, TryAcquire, NoAccounts,
              AcquireRefused, Granted, AcquireResent, Reserving, Over, Finished, Placed, Holding,
              Forwarding, Body, Observing
  <2>2. msgs' = msgs /\ UNCHANGED <<attempt, account>>
        /\ \A q \in Request \ {r} : pc'[q] = pc[q] /\ renewal'[q] = renewal[q]
    BY <1>0, <1>1 DEF Reject, Begin, ListCandidates, ListFails, LoopAborted, TryAcquire, NoAccounts,
              AcquireRefused, Granted, AcquireResent, AnswerError
  <2> QED
    BY <2>1, <2>2 DEF Settles
<1>2. ASSUME NEW r \in Request, UNCHANGED <<attempt, account>>,
             \/ msgs' = msgs /\ UNCHANGED renewal
             \/ msgs' \subseteq msgs \ Replies(r) /\ \A q \in Request \ {r} : renewal'[q] = renewal[q],
             pc[r] \in Holding \cup Releasing \cup {"catch", "log"},
             \A q \in Request \ {r} : pc'[q] = pc[q],
             pc'[r] \in {pc[r], "catch", "log", "done", "crashed"} \cup
                (IF pc[r] \in {"catch", "log"} THEN {} ELSE Holding \cup Releasing)
      PROVE  Settles(r)
  BY <1>2 DEF Settles, Over, Reserving, Holding, Forwarding, Body, Observing, Releasing, Finished
<1>3. ASSUME NEW r \in Request,
             \/ Touch(r) \/ UpstreamAnswers(r) \/ EndOfBody(r) \/ Log(r) \/ Write(r) \/ Stalls(r)
             \/ Catch(r)
      PROVE  Settles(r)
  <2>1. CASE Catch(r)
    <3>1. renewal[r] = "off" /\ pc[r] = "catch" /\ pc'[r] = "log"
      BY <1>0, <2>1 DEF Catch, Placed, Holding, Forwarding, Body, Observing
    <3> QED
      BY <1>0, <2>1, <3>1 DEF Catch, Abort, StopTimers, Settles, Over, Reserving
  <2>2. CASE ~Catch(r)
    BY <1>0, <1>2, <1>3, <2>2 DEF Touch, UpstreamAnswers, EndOfBody, Log, Write, Stalls, Holding,
       Forwarding, Body, Observing
  <2> QED
    BY <2>1, <2>2
<1>4. ASSUME NEW r \in Request, NEW l \in Releasing, pc[r] \in Holding, LeaveAttempt(r, l)
      PROVE  Settles(r)
  <2>1. /\ msgs' = msgs \ Replies(r) /\ UNCHANGED <<attempt, account>>
        /\ pc' = [pc EXCEPT ![r] = l] /\ renewal' = [renewal EXCEPT ![r] = "off"]
    BY <1>4 DEF LeaveAttempt, StopTimers
  <2>2. pc[r] \notin Over /\ l \notin Reserving \cup {"granted"}
    BY <1>4 DEF Over, Finished, Reserving, Releasing, Holding, Forwarding, Body, Observing
  <2> QED
    BY <1>0, <2>1, <2>2 DEF Settles
<1>5. ASSUME NEW r \in Request,
             \/ AbortThrows(r) \/ Breaks(r) \/ FlushEnds(r) \/ Inspect(r)
             \/ \E f \in Failure : RetryElsewhere(r, f) \/ ReturnError(r, f)
      PROVE  Settles(r)
  <2>1. pc[r] \in Holding
    BY <1>5 DEF AbortThrows, Breaks, FlushEnds, Inspect, RetryElsewhere, ReturnError, Holding, Forwarding,
                Observing
  <2>2. CASE \E l \in Releasing : LeaveAttempt(r, l)
    BY <1>4, <2>1, <2>2
  <2>3. CASE ~\E l \in Releasing : LeaveAttempt(r, l)
    <3>1. UNCHANGED <<attempt, account, msgs, renewal>> /\ pc' = [pc EXCEPT ![r] = "flush"]
      BY <1>5, <2>3 DEF AbortThrows, Breaks, Throws, FlushEnds, Inspect, RetryElsewhere, ReturnError,
                        Releasing
    <3> QED
      BY <1>0, <2>1, <3>1 DEF Settles, Over, Finished, Reserving, Holding, Forwarding, Body, Observing
  <2> QED
    BY <2>2, <2>3
<1>6. ASSUME NEW r \in Request,
             \/ Renewed(r) \/ LeaseLost(r) \/ Disconnect(r) \/ IdleTimeout(r)
             \/ \E may \in BOOLEAN : RenewError(r, may)
      PROVE  Settles(r)
  <2>1. UNCHANGED <<attempt, account, pc>> /\ msgs' \subseteq msgs \ Replies(r)
        /\ \A q \in Request \ {r} : renewal'[q] = renewal[q]
    BY <1>0, <1>6 DEF Renewed, LeaseLost, Disconnect, IdleTimeout, RenewError, Abort, StopTimers
  <2> QED
    BY <2>1 DEF Settles
<1>7. ASSUME NEW r \in Request, Released(r) \/ ReleaseFails(r) PROVE Addressed'
  <2>1. UNCHANGED <<msgs, account, renewal>> /\ pc[r] \in Releasing /\ renewal[r] = "off"
    BY <1>0, <1>7 DEF Released, ReleaseFails, AfterRelease, Releasing, Placed, Holding, Forwarding, Body,
              Observing
  <2>2. CASE UNCHANGED attempt
    BY <1>0, <1>2, <1>7, <2>1, <2>2, SettledStep DEF Released, ReleaseFails, AfterRelease, Releasing
  <2>3. CASE ~UNCHANGED attempt
    <3>1. pc[r] = "release_retry" /\ pc' = [pc EXCEPT ![r] = "loop"]
          /\ attempt' = [attempt EXCEPT ![r] = @ + 1]
      BY <1>7, <2>3 DEF Released, ReleaseFails, AfterRelease
    <3>2. \A t \in Token : t[1] \in Request /\ t[2] \in Nat /\ attempt[t[1]] \in Nat
      BY <1>0, Tokens DEF MaxAttempts
    <3>3. \A t \in Token : t[1] # r => (Now(t)' <=> Now(t)) /\ attempt'[t[1]] = attempt[t[1]]
                                       /\ pc'[t[1]] = pc[t[1]]
      BY <1>0, <3>1, <3>2 DEF Now
    <3>4. \A t \in Token : t[1] = r => (Now(t)' <=> t[2] = attempt[r] + 1)
                                       /\ attempt'[t[1]] = attempt[r] + 1
      BY <1>0, <3>1, <3>2 DEF Now
    <3>5. ASSUME NEW t \in Token, NEW y \in BOOLEAN, Reply(t, y) \in msgs'
          PROVE  Now(t)' /\ renewal'[t[1]] = "busy"
      BY <2>1, <3>3, <3>5 DEF Addressed
    <3>6. ASSUME NEW t \in Token, NEW a \in Account, Renewing(t, a) \in msgs'
          PROVE  /\ t[2] <= attempt'[t[1]]
                 /\ Now(t)' => a = account'[t[1]] /\ pc'[t[1]] \notin Reserving \cup {"granted"}
      BY <2>1, <3>2, <3>3, <3>4, <3>6 DEF Addressed
    <3>7. ASSUME NEW t \in Token, Acquiring(t) \in msgs' PROVE pc'[t[1]] \in Over
      BY <2>1, <3>1, <3>3, <3>7 DEF Addressed, Over, Finished
    <3> QED
      BY <3>5, <3>6, <3>7 DEF Addressed, Over
  <2> QED
    BY <2>2, <2>3
<1>8. ASSUME NEW r \in Request, NEW a, NEW visited, AcquireRuns(r, a, visited) PROVE Addressed'
  <2>1. /\ pc[r] = "acquire" /\ pc' = [pc EXCEPT ![r] = "granted"]
        /\ account' = [account EXCEPT ![r] = a] /\ UNCHANGED <<msgs, renewal, attempt>>
    BY <1>8 DEF AcquireRuns
  <2>2. \A t \in Token : t[1] \in Request /\ (Now(t)' <=> Now(t))
    BY <2>1, Tokens DEF Now
  <2> QED
    BY <1>0, <2>1, <2>2 DEF Addressed, Reserving, Finished
<1>9. ASSUME NEW r \in Request, NEW S, msgs' = (msgs \ S) \cup {Renewing(Current(r), account[r])},
             pc[r] \in Holding, UNCHANGED <<attempt, account, pc>>,
             \A q \in Request : renewal[q] = "busy" => renewal'[q] = "busy"
      PROVE  Addressed'
  <2>1. \A t \in Token : t[1] \in Request /\ (Now(t)' <=> Now(t))
    BY <1>9, Tokens DEF Now
  <2>2. ASSUME NEW t \in Token, NEW y \in BOOLEAN, Reply(t, y) \in msgs'
        PROVE  Now(t)' /\ renewal'[t[1]] = "busy"
    <3>1. Reply(t, y) \in msgs
      BY <1>9, <2>2, Messages
    <3> QED
      BY <1>9, <2>1, <3>1 DEF Addressed
  <2>3. ASSUME NEW t \in Token, NEW a \in Account, Renewing(t, a) \in msgs'
        PROVE  /\ t[2] <= attempt'[t[1]]
               /\ Now(t)' => a = account'[t[1]] /\ pc'[t[1]] \notin Waits
    <3>1. CASE Renewing(t, a) \in msgs
      BY <1>9, <2>1, <3>1 DEF Addressed
    <3>2. CASE Renewing(t, a) = Renewing(Current(r), account[r])
      <4>1. t = Current(r) /\ a = account[r]
        BY <3>2, Messages
      <4>2. t[1] = r /\ t[2] = attempt[r] /\ attempt[r] \in Nat
        BY <1>0, <4>1 DEF Current, MaxAttempts
      <4>3. pc[r] \notin Waits
        BY <1>9 DEF Reserving, Holding, Forwarding, Body, Observing
      <4> QED
        BY <1>9, <4>1, <4>2, <4>3
    <3> QED
      BY <1>9, <2>3, <3>1, <3>2
  <2>4. ASSUME NEW t \in Token, Acquiring(t) \in msgs' PROVE pc'[t[1]] \in Over
    <3>1. Acquiring(t) \in msgs
      BY <1>9, <2>4, Messages
    <3> QED
      BY <1>9, <3>1 DEF Addressed, Over
  <2> QED
    BY <2>2, <2>3, <2>4 DEF Addressed, Over
<1>10. ASSUME NEW r \in Request, RenewFires(r) \/ RenewResent(r) PROVE Addressed'
  <2>1. pc[r] \in Holding
    BY <1>10 DEF RenewFires, RenewResent, Placed
  <2>2. CASE RenewFires(r)
    <3>1. msgs' = (msgs \ {}) \cup {Renewing(Current(r), account[r])}
      BY <2>2 DEF RenewFires
    <3> QED
      BY <1>0, <1>9, <2>1, <2>2, <3>1 DEF RenewFires
  <2>3. CASE RenewResent(r)
    BY <1>9, <2>1, <2>3 DEF RenewResent
  <2> QED
    BY <1>10, <2>2, <2>3
<1>11. ASSUME NEW r \in Request, NEW may \in BOOLEAN, AcquireFails(r, may) \/ Crash(r, may)
       PROVE  Addressed'
  <2>1. /\ UNCHANGED <<attempt, account>> /\ pc'[r] \in {"catch", "crashed"}
        /\ \A q \in Request \ {r} : pc'[q] = pc[q] /\ renewal'[q] = renewal[q]
        /\ msgs' \subseteq msgs \cup {Acquiring(Current(r))}
        /\ renewal[r] = "busy" => msgs' \subseteq (msgs \ Replies(r)) \cup {Acquiring(Current(r))}
    BY <1>0, <1>11 DEF AcquireFails, Crash, StopTimers, Stray, Placed, Holding, Forwarding, Body, Observing
  <2>2. \A t \in Token : t[1] \in Request /\ (Now(t)' <=> Now(t))
    BY <2>1, Tokens DEF Now
  <2>3. ASSUME NEW t \in Token, NEW y \in BOOLEAN, Reply(t, y) \in msgs'
        PROVE  Now(t)' /\ renewal'[t[1]] = "busy"
    <3>1. Reply(t, y) \in msgs /\ Reply(t, y) # Acquiring(Current(r))
      BY <2>1, <2>3, Messages
    <3>2. Now(t) /\ renewal[t[1]] = "busy"
      BY <3>1 DEF Addressed
    <3> QED
      BY <2>1, <2>2, <2>3, <3>1, <3>2, RepliesOf
  <2>4. ASSUME NEW t \in Token, NEW a \in Account, Renewing(t, a) \in msgs'
        PROVE  /\ t[2] <= attempt'[t[1]]
               /\ Now(t)' => a = account'[t[1]] /\ pc'[t[1]] \notin Waits
    <3>1. Renewing(t, a) \in msgs
      BY <2>1, <2>4, Messages
    <3> QED
      BY <2>1, <2>2, <3>1 DEF Addressed, Reserving
  <2>5. ASSUME NEW t \in Token, Acquiring(t) \in msgs' PROVE pc'[t[1]] \in Over
    <3>1. CASE Acquiring(t) \in msgs
      BY <2>1, <2>2, <3>1 DEF Addressed, Over, Finished
    <3>2. CASE Acquiring(t) = Acquiring(Current(r))
      <4>1. t[1] = r
        BY <3>2, Messages, Tokens
      <4> QED
        BY <2>1, <4>1 DEF Over, Finished
    <3> QED
      BY <2>1, <2>5, <3>1, <3>2
  <2> QED
    BY <2>3, <2>4, <2>5 DEF Addressed, Over
<1>12. ASSUME NEW m \in msgs, RenewRuns(m) PROVE Addressed'
  <2>1. m.token \in Token /\ UNCHANGED <<attempt, account, pc, renewal>>
    BY <1>12, MessageKinds DEF RenewRuns, GatewayTypeOK, Message
  <2>2. \A t \in Token : t[1] \in Request /\ (Now(t)' <=> Now(t))
    BY <2>1, Tokens DEF Now
  <2> DEFINE y == Renewable(m.token, m.account)
  <2>3. y \in BOOLEAN
    BY DEF Renewable
  <2>4. /\ msgs' \subseteq msgs \cup {Reply(m.token, y)}
        /\ Awaited(m.token) \/ msgs' \subseteq msgs
    BY <1>12 DEF RenewRuns
  <2> HIDE DEF y
  <2>5. Awaited(m.token) => Now(m.token) /\ renewal[m.token[1]] = "busy"
    BY <2>1, Tokens DEF Awaited
  <2>6. ASSUME NEW t \in Token, NEW z \in BOOLEAN, Reply(t, z) \in msgs'
        PROVE  Now(t)' /\ renewal'[t[1]] = "busy"
    BY <2>1, <2>2, <2>3, <2>4, <2>5, <2>6, Messages DEF Addressed
  <2>7. \A t \in Token, a \in Account : Renewing(t, a) \in msgs' => Renewing(t, a) \in msgs
    BY <2>3, <2>4, Messages
  <2>8. \A t \in Token : Acquiring(t) \in msgs' => Acquiring(t) \in msgs
    BY <2>3, <2>4, Messages
  <2> QED
    BY <2>1, <2>2, <2>6, <2>7, <2>8 DEF Addressed
<1>13. ASSUME msgs' \subseteq msgs, UNCHANGED <<attempt, account, pc, renewal>> PROVE Addressed'
  BY <1>13, Tokens DEF Addressed, Now
<1>14. ASSUME NEW t \in Token, StrayAcquire(t) PROVE Addressed'
  BY <1>13, <1>14 DEF StrayAcquire
<1>15. ASSUME NEW s \in Session, Expire(s) PROVE Addressed'
  BY <1>13, <1>15 DEF Expire
<1>16. CASE Tick \/ UNCHANGED vars
  BY <1>13, <1>16 DEF Tick, vars
<1> QED
  BY <1>1, <1>3, <1>5, <1>6, <1>7, <1>8, <1>10, <1>11, <1>12, <1>14, <1>15, <1>16, SettledStep
     DEF GatewayNext, Reserve, RenewalStep, Forward, Leave, Others, Faulty
-----------------------------------------------------------------------------
(* The age of a lease. *)

\* A live lease stays what it is.
Kept(t, a) ==
  /\ globalLeases[t] > 0 => globalLeases'[t] = globalLeases[t]
  /\ accountLeases[a][t] > 0 => accountLeases'[a][t] = accountLeases[a][t]

\* A script that runs for another token, or for none, leaves it alone.
LEMMA OthersKeep ==
  ASSUME TypeOK, NEW t \in Token, NEW a \in Account, NEW u \in Token \ {t},
         \/ \E lim, limit, s, b, visited : Acquire(u, lim, limit, s, b, visited)
         \/ \E lim, limit : RefuseGlobal(limit) \/ RefuseAccounts(lim, limit)
         \/ \E b : Release(u, b) \/ Extend(u, b)
         \/ UNCHANGED <<globalLeases, accountLeases>>
  PROVE  Kept(t, a)
<1>0. globalLeases \in Zset /\ accountLeases \in [Account -> Zset]
  BY DEF TypeOK
<1>1. \A z \in Zset : /\ z[t] > 0 => Prune(z)[t] = z[t]
                      /\ Drop(z, u)[t] = z[t] /\ Add(z, u)[t] = z[t]
                      /\ z[t] > 0 => Add(Prune(z), u)[t] = z[t]
  BY DEF Zset, Prune, Drop, Add
<1>2. ASSUME NEW lim, NEW limit, NEW s, NEW b, NEW visited, Acquire(u, lim, limit, s, b, visited)
      PROVE  Kept(t, a)
  BY <1>0, <1>1, <1>2 DEF Acquire, Kept
<1>3. ASSUME NEW lim, NEW limit, RefuseGlobal(limit) \/ RefuseAccounts(lim, limit) PROVE Kept(t, a)
  BY <1>0, <1>1, <1>3 DEF RefuseGlobal, RefuseAccounts, Kept
<1>4. ASSUME NEW b, Release(u, b) \/ Extend(u, b) PROVE Kept(t, a)
  BY <1>0, <1>1, <1>4 DEF Release, Extend, Kept
<1>5. CASE UNCHANGED <<globalLeases, accountLeases>>
  BY <1>5 DEF Kept
<1> QED
  BY <1>2, <1>3, <1>4, <1>5

\* What is left of a lease when the handler goes on with it or renews it is positive.
LEMMA Margins ==
  ASSUME NEW n \in 0 .. RenewTicks
  PROVE  /\ LeaseTicks - ReplyTicks \in Int /\ LeaseTicks - ReplyTicks > 0
         /\ LeaseTicks - ReplyTicks - RenewTicks + n \in Int
         /\ LeaseTicks - ReplyTicks - RenewTicks + n > 0
         /\ LeaseTicks - ReplyTicks - 2 * RenewTicks + n \in Int
         /\ n >= RenewTicks - RenewTimeoutTicks => LeaseTicks - ReplyTicks - 2 * RenewTicks + n > 0
         /\ LeaseTicks - RenewTicks + n \in Int /\ LeaseTicks - RenewTicks + n > 0
<1>1. /\ LeaseTicks \in Nat /\ ReplyTicks \in Nat /\ RenewTicks \in Nat /\ RenewTimeoutTicks \in Nat
      /\ ReplyTicks + RenewTicks + RenewTimeoutTicks < LeaseTicks
  BY GatewayAssumption, LeasesAssumption
<1> QED
  BY <1>1

\* A request that no step is about keeps a lease of the age it has.
LEMMA AgedFrame ==
  ASSUME GatewayTypeOK, Placed, NEW r \in Request, Aged(r), Even(r),
         pc'[r] = pc[r] \/ {pc[r], pc'[r]} \subseteq Holding,
         attempt'[r] = attempt[r], account'[r] = account[r],
         aborted'[r] = aborted[r], renewal'[r] = renewal[r], timer'[r] = timer[r],
         account[r] \in Account => Kept(Current(r), account[r]),
         Reply(Current(r), TRUE) \in msgs' => Reply(Current(r), TRUE) \in msgs
  PROVE  Aged(r)' /\ Even(r)'
<1>1. Current(r)' = Current(r) /\ Current(r) \in Token
  BY Tokens DEF Current
<1>2. /\ globalLeases \in Zset /\ accountLeases \in [Account -> Zset]
      /\ timer[r] \in 0 .. RenewTicks
  BY DEF GatewayTypeOK, TypeOK
<1>3. account[r] \in Account =>
        globalLeases[Current(r)] \in Int /\ accountLeases[account[r]][Current(r)] \in Int
  BY <1>1, <1>2 DEF Zset
<1>4. \A n \in Int : n > 0 /\ AtLeast(r, n) => AtLeast(r, n)'
  BY <1>1, <1>3 DEF AtLeast, Kept
<1>5. Even(r)'
  <2>1. pc[r] = "granted" => account[r] \in Account
    BY DEF Placed
  <2>2. pc'[r] = "granted" => pc[r] = "granted"
    BY DEF Holding, Forwarding, Body, Observing
  <2>3. pc[r] = "granted" => AtLeast(r, LeaseTicks - ReplyTicks) /\ LeaseTicks - ReplyTicks > 0
    BY <1>2, Margins DEF Aged
  <2>4. CASE pc[r] # "granted"
    BY <2>2, <2>4 DEF Even
  <2>5. CASE pc[r] = "granted"
    <3>1. globalLeases[Current(r)] > 0 /\ accountLeases[account[r]][Current(r)] > 0
      BY <1>2, <1>3, <2>1, <2>3, <2>5, Margins DEF AtLeast
    <3> QED
      BY <1>1, <2>1, <2>5, <3>1 DEF Even, Kept
  <2> QED
    BY <2>4, <2>5
<1>6. Aged(r)'
  <2>1. (pc'[r] \in Holding <=> pc[r] \in Holding) /\ (pc'[r] = "granted" <=> pc[r] = "granted")
    BY DEF Holding, Forwarding, Body, Observing
  <2> QED
    BY <1>1, <1>2, <1>4, <2>1, Margins DEF Aged
<1> QED
  BY <1>5, <1>6
-----------------------------------------------------------------------------
(* A step of one request leaves the others alone. *)

Act(r) == Reserve(r) \/ RenewalStep(r) \/ Forward(r) \/ Leave(r) \/ Others(r) \/ Faulty(r)

Same(q) ==
  /\ pc'[q] = pc[q] /\ streaming'[q] = streaming[q]
  /\ attempt'[q] = attempt[q] /\ attempted'[q] = attempted[q] /\ account'[q] = account[q]
  /\ aborted'[q] = aborted[q] /\ renewal'[q] = renewal[q] /\ timer'[q] = timer[q]
  /\ response'[q] = response[q] /\ sent'[q] = sent[q] /\ faults'[q] = faults[q]

\* A step of a request leaves every other request as it was.
LEMMA Apart ==
  ASSUME GatewayTypeOK, NEW r \in Request, NEW q \in Request \ {r}, Act(r)
  PROVE  Same(q)
<1>0. /\ pc \in [Request -> Listening \cup Finished \cup {"idle", "log"}]
      /\ streaming \in [Request -> BOOLEAN] /\ attempt \in [Request -> 1 .. MaxAttempts]
      /\ attempted \in [Request -> SUBSET Account]
      /\ account \in [Request -> Account \cup {NoAccount}]
      /\ aborted \in [Request -> BOOLEAN] /\ renewal \in [Request -> {"off", "idle", "busy"}]
      /\ timer \in [Request -> 0 .. RenewTicks]
      /\ response \in [Request -> {"open", "sending", "ended", "destroyed"}]
      /\ sent \in [Request -> SUBSET (1 .. MaxAttempts)] /\ faults \in [Request -> 0 .. MaxFaults]
  BY DEF GatewayTypeOK
<1> USE DEF Same, inputVars, triesVars, callVars, answerVars, worldVars, Goto, Move, Fault,
            EndResponse, StopTimers, Abort, LeaveAttempt
<1>1. CASE Reserve(r)
  BY <1>0, <1>1 DEF Reserve, ListCandidates, ListFails, LoopAborted, TryAcquire, NoAccounts, AcquireRuns,
            AcquireRefused, Granted, AnswerError
<1>2. CASE RenewalStep(r)
  BY <1>0, <1>2 DEF RenewalStep, RenewFires, Renewed, LeaseLost
<1>3. CASE Forward(r)
  BY <1>0, <1>3 DEF Forward, Touch, AbortThrows, IdleTimeout, Inspect, RetryElsewhere, ReturnError, Throws
<1>4. CASE Leave(r)
  BY <1>0, <1>4 DEF Leave, Released, Catch, Log, AfterRelease
<1>5. CASE Others(r)
  BY <1>0, <1>5 DEF Others, Reject, Disconnect, UpstreamAnswers, Write, EndOfBody,
     FlushEnds, Breaks, Flows, Stalls,
            Begin, Throws
<1>6. CASE Faulty(r)
  BY <1>0, <1>6 DEF Faulty, AcquireResent, RenewResent, ReleaseFails, AcquireFails, RenewError, Crash,
            AfterRelease
<1> QED
  BY <1>1, <1>2, <1>3, <1>4, <1>5, <1>6 DEF Act

\* What a step of r adds to the messages is no reply, and what it does to the leases
\* is about the token it has, or none.
LEMMA OwnToken ==
  ASSUME GatewayTypeOK, NEW r \in Request, Act(r)
  PROVE  /\ \A t \in Token, y \in BOOLEAN : Reply(t, y) \in msgs' => Reply(t, y) \in msgs
         /\ \A t \in Token \ {Current(r)}, a \in Account : Kept(t, a)
         /\ \/ UNCHANGED <<globalLeases, accountLeases>> \/ Released(r) \/ AcquireRefused(r)
            \/ \E a \in Account, visited \in SUBSET Account : AcquireRuns(r, a, visited)
<1> USE DEF inputVars, triesVars, callVars, answerVars, worldVars, Goto, Move, Fault,
            EndResponse, StopTimers, Abort, LeaveAttempt
<1>0. Current(r) \in Token /\ TypeOK /\ r = Current(r)[1]
  BY Tokens DEF GatewayTypeOK
<1>1. ASSUME NEW t \in Token, NEW y \in BOOLEAN, Reply(t, y) \in msgs' PROVE Reply(t, y) \in msgs
  <2>1. \/ msgs' \subseteq msgs \/ \E u, a : msgs' \subseteq msgs \cup {Renewing(u, a)}
        \/ \E u : msgs' \subseteq msgs \cup {Acquiring(u)}
    <3>1. CASE Reserve(r)
      BY <3>1 DEF Reserve, ListCandidates, ListFails, LoopAborted, TryAcquire, NoAccounts, AcquireRuns,
                AcquireRefused, Granted, AnswerError
    <3>2. CASE RenewalStep(r)
      BY <3>2 DEF RenewalStep, RenewFires, Renewed, LeaseLost
    <3>3. CASE Forward(r)
      BY <3>3 DEF Forward, Touch, AbortThrows, IdleTimeout, Inspect, RetryElsewhere, ReturnError, Throws
    <3>4. CASE Leave(r)
      BY <3>4 DEF Leave, Released, Catch, Log, AfterRelease
    <3>5. CASE Others(r)
      BY <3>5 DEF Others, Reject, Disconnect, UpstreamAnswers, Write, EndOfBody,
         FlushEnds, Breaks, Flows, Stalls,
                Begin, Throws
    <3>6. CASE Faulty(r)
      BY <3>6 DEF Faulty, AcquireResent, RenewResent, ReleaseFails, AcquireFails, RenewError, Crash,
                AfterRelease, Stray
    <3> QED
      BY <3>1, <3>2, <3>3, <3>4, <3>5, <3>6 DEF Act
  <2> QED
    BY <1>1, <2>1, Messages
<1>2. \/ UNCHANGED <<globalLeases, accountLeases>> \/ Released(r) \/ AcquireRefused(r)
      \/ \E a \in Account, visited \in SUBSET Account : AcquireRuns(r, a, visited)
  <2>0. \A f : RecordFailure(r, f) => UNCHANGED <<globalLeases, accountLeases>>
    BY DEF RecordFailure, CoolDown, leaseVars
  <2> USE DEF leaseVars
  <2>1. CASE Reserve(r)
    BY <2>1 DEF Reserve, ListCandidates, ListFails, LoopAborted, TryAcquire, NoAccounts, Granted
  <2>2. CASE RenewalStep(r)
    BY <2>2 DEF RenewalStep, RenewFires, Renewed, LeaseLost
  <2>3. CASE Forward(r)
    BY <2>0, <2>3 DEF Forward, Touch, AbortThrows, IdleTimeout, Inspect, RetryElsewhere, ReturnError, Throws
  <2>4. CASE Leave(r)
    BY <2>4 DEF Leave, Catch, Log
  <2>5. CASE Others(r)
    BY <2>5 DEF Others, Reject, Disconnect, UpstreamAnswers, Write, EndOfBody,
       FlushEnds, Breaks, Flows, Stalls,
              Begin, Throws
  <2>6. CASE Faulty(r)
    BY <2>6 DEF Faulty, AcquireResent, RenewResent, ReleaseFails, AcquireFails, RenewError, Crash
  <2> QED
    BY <2>1, <2>2, <2>3, <2>4, <2>5, <2>6 DEF Act
<1>3. ASSUME NEW t \in Token \ {Current(r)}, NEW a \in Account PROVE Kept(t, a)
  <2>1. CASE UNCHANGED <<globalLeases, accountLeases>>
    BY <2>1 DEF Kept
  <2>2. CASE Released(r)
    BY <1>0, <2>2, OthersKeep DEF Released
  <2>3. CASE AcquireRefused(r)
    BY <1>0, <2>3, OthersKeep DEF AcquireRefused, RefuseFor
  <2>4. CASE \E b \in Account, visited \in SUBSET Account : AcquireRuns(r, b, visited)
    BY <1>0, <2>4, OthersKeep DEF AcquireRuns, AcquireFor
  <2> QED
    BY <1>2, <2>1, <2>2, <2>3, <2>4
<1> QED
  BY <1>1, <1>2, <1>3
-----------------------------------------------------------------------------
(* The age of a lease, continued: a step of its own request. *)

Fit(q) == Aged(q) /\ Even(q)

\* Outside an attempt there is no lease to speak of.
LEMMA FitOutside ==
  ASSUME NEW q \in Request, pc'[q] \notin {"granted"} \cup Holding
  PROVE  Fit(q)'
BY DEF Fit, Aged, Even

\* An aborted request holds on to nothing.
LEMMA FitAborted ==
  ASSUME GatewayTypeOK, Placed, NEW q \in Request, Fit(q),
         pc'[q] = pc[q], attempt'[q] = attempt[q], account'[q] = account[q],
         UNCHANGED leaseVars, aborted'[q], renewal'[q] = "off"
  PROVE  Fit(q)'
BY DEF Fit, Aged, Even, AtLeast, Current, leaseVars

\* What ACQUIRE grants is new.
LEMMA FitGranted ==
  ASSUME GatewayTypeOK, NEW q \in Request, NEW a \in Account, NEW visited \in SUBSET Account,
         AcquireRuns(q, a, visited)
  PROVE  Fit(q)'
<1>1. /\ pc \in [Request -> Listening \cup Finished \cup {"idle", "log"}]
      /\ account \in [Request -> Account \cup {NoAccount}]
      /\ globalLeases \in Zset /\ accountLeases \in [Account -> Zset]
  BY DEF GatewayTypeOK, TypeOK
<1>2. /\ pc'[q] = "granted" /\ account'[q] = a /\ Current(q)' = Current(q)
      /\ globalLeases' = Add(Prune(globalLeases), Current(q))
      /\ accountLeases'[a] = Add(Prune(accountLeases[a]), Current(q))
  BY <1>1 DEF AcquireRuns, Goto, AcquireFor, Acquire, Current
<1>3. globalLeases'[Current(q)] = LeaseTicks /\ accountLeases'[a][Current(q)] = LeaseTicks
  <2>1. \A z \in Zset : Add(Prune(z), Current(q))[Current(q)] = LeaseTicks
    BY Tokens DEF Add, Prune, Zset
  <2> QED
    BY <1>1, <1>2, <2>1
<1>4. AtLeast(q, LeaseTicks - ReplyTicks)'
  <2>1. LeaseTicks >= LeaseTicks - ReplyTicks
    BY LeasesAssumption, GatewayAssumption
  <2> QED
    BY <1>2, <1>3, <2>1 DEF AtLeast
<1> QED
  BY <1>2, <1>3, <1>4 DEF Fit, Aged, Even, Holding, Forwarding, Body, Observing

\* A step of the request itself.
LEMMA FitOwn ==
  ASSUME GatewayTypeOK, Placed, Addressed, NEW q \in Request, Fit(q), Act(q)
  PROVE  Fit(q)'
<1> USE DEF inputVars, triesVars, callVars, answerVars, worldVars, Goto, Move
<1>0. /\ pc \in [Request -> Listening \cup Finished \cup {"idle", "log"}]
      /\ attempt \in [Request -> 1 .. MaxAttempts]
      /\ account \in [Request -> Account \cup {NoAccount}]
      /\ aborted \in [Request -> BOOLEAN] /\ renewal \in [Request -> {"off", "idle", "busy"}]
      /\ timer \in [Request -> 0 .. RenewTicks]
      /\ globalLeases \in Zset /\ accountLeases \in [Account -> Zset]
      /\ Current(q) \in Token /\ RenewTicks \in Nat /\ RenewTimeoutTicks \in Nat
  BY Tokens DEF GatewayTypeOK, TypeOK
<1> DEFINE Out == pc'[q] \notin {"granted"} \cup Holding
<1>1. CASE Reserve(q)
  <2>1. CASE Granted(q)
    <3>1. /\ pc[q] = "granted" /\ pc'[q] = "touch" /\ aborted'[q] = aborted[q]
          /\ attempt'[q] = attempt[q] /\ account'[q] = account[q] /\ UNCHANGED leaseVars
          /\ renewal'[q] = IF aborted[q] THEN "off" ELSE "idle"
          /\ timer'[q] = IF aborted[q] THEN 0 ELSE RenewTicks
      BY <1>0, <2>1 DEF Granted
    <3>2. AtLeast(q, LeaseTicks - ReplyTicks)
      BY <3>1 DEF Fit, Aged
    <3>3. AtLeast(q, LeaseTicks - ReplyTicks)'
      BY <3>1, <3>2 DEF AtLeast, Current, leaseVars
    <3>4. LeaseTicks - ReplyTicks = LeaseTicks - ReplyTicks - RenewTicks + RenewTicks
      BY <1>0, LeasesAssumption, GatewayAssumption
    <3> QED
      BY <3>1, <3>3, <3>4 DEF Fit, Aged, Even, Holding, Forwarding, Body, Observing
  <2>2. CASE \E a \in Account, visited \in SUBSET Account : AcquireRuns(q, a, visited)
    BY <2>2, FitGranted
  <2>3. CASE Out
    BY <2>3, FitOutside
  <2>4. \/ Granted(q) \/ Out
        \/ \E a \in Account, visited \in SUBSET Account : AcquireRuns(q, a, visited)
    BY <1>0, <1>1 DEF Reserve, ListCandidates, ListFails, LoopAborted, TryAcquire, NoAccounts,
              AcquireRefused, AnswerError, Holding, Forwarding, Body, Observing
  <2> QED
    BY <2>1, <2>2, <2>3, <2>4
<1>2. ASSUME aborted'[q], renewal'[q] = "off", UNCHANGED <<leaseVars, pc, triesVars>> PROVE Fit(q)'
  BY <1>2, FitAborted
<1>3. ASSUME UNCHANGED <<triesVars, aborted, renewal, timer>>, {pc[q], pc'[q]} \subseteq Holding,
             UNCHANGED <<globalLeases, accountLeases>>, Reply(Current(q), TRUE) \in msgs' => Reply(Current(q), TRUE) \in msgs
      PROVE  Fit(q)'
  BY <1>3, AgedFrame DEF Kept, Fit
<1>4. CASE RenewFires(q)
  <2>1. /\ renewal[q] = "idle" /\ timer[q] = 0 /\ renewal'[q] = "busy" /\ timer'[q] = RenewTicks
        /\ pc[q] \in Holding /\ ~aborted[q]
        /\ UNCHANGED <<leaseVars, pc, triesVars, aborted>>
    BY <1>0, <1>4 DEF RenewFires, Placed
  <2>2. AtLeast(q, LeaseTicks - ReplyTicks - RenewTicks + timer[q])
    BY <2>1 DEF Fit, Aged
  <2>3. /\ LeaseTicks - ReplyTicks - RenewTicks + 0
             = LeaseTicks - ReplyTicks - 2 * RenewTicks + RenewTicks
        /\ RenewTicks >= RenewTicks - RenewTimeoutTicks
    BY <1>0, LeasesAssumption, GatewayAssumption
  <2>4. Current(q)' = Current(q)
    BY <2>1 DEF Current
  <2>5. AtLeast(q, LeaseTicks - ReplyTicks - 2 * RenewTicks + RenewTicks)'
    BY <2>1, <2>2, <2>3, <2>4 DEF AtLeast, leaseVars
  <2>6. Reply(Current(q), TRUE) \notin msgs
    BY <1>0, <2>1, Tokens DEF Addressed
  <2>7. Reply(Current(q), TRUE) \notin msgs'
    BY <1>4, <2>6, Messages DEF RenewFires
  <2>8. Aged(q)'
    BY <2>1, <2>3, <2>4, <2>5, <2>7 DEF Aged, Holding, Forwarding, Body, Observing
  <2> QED
    BY <2>1, <2>8 DEF Fit, Even, Holding, Forwarding, Body, Observing
<1>5. CASE Renewed(q)
  <2>1. /\ renewal[q] = "busy" /\ renewal'[q] = "idle" /\ pc[q] \in Holding /\ timer'[q] = timer[q]
        /\ Reply(Current(q), TRUE) \in msgs /\ UNCHANGED <<leaseVars, pc, triesVars, aborted>>
    BY <1>0, <1>5 DEF Renewed, Placed
  <2>2. AtLeast(q, LeaseTicks - RenewTicks + timer[q])
    BY <2>1 DEF Fit, Aged
  <2>3. AtLeast(q, LeaseTicks - ReplyTicks - RenewTicks + timer[q])'
    BY <1>0, <2>1, <2>2, LeasesAssumption, GatewayAssumption DEF AtLeast, Current, leaseVars, Zset
  <2> QED
    BY <2>1, <2>3 DEF Fit, Aged, Even, Holding, Forwarding, Body, Observing
<1>6. CASE RenewalStep(q)
  BY <1>0, <1>2, <1>4, <1>5, <1>6 DEF RenewalStep, LeaseLost, Abort, StopTimers
<1>7. CASE Forward(q)
  <2>1. \A t, y : Reply(t, y) \in msgs \ Replies(q) => Reply(t, y) \in msgs
    OBVIOUS
  <2>2. CASE Out
    BY <2>2, FitOutside
  <2>3. CASE IdleTimeout(q)
    BY <1>0, <1>2, <2>3 DEF IdleTimeout, Abort, StopTimers
  <2>4. CASE ~Out /\ ~IdleTimeout(q)
    <3>1. UNCHANGED <<triesVars, callVars, msgs>> /\ {pc[q], pc'[q]} \subseteq Holding
      BY <1>0, <1>7, <2>4 DEF Forward, Touch, AbortThrows, Inspect, RetryElsewhere, ReturnError,
         Throws, LeaveAttempt, Holding, Forwarding, Body, Observing
    <3>2. UNCHANGED <<globalLeases, accountLeases>>
      BY <1>7, <2>4 DEF Forward, Touch, AbortThrows, Inspect, RetryElsewhere, ReturnError,
         Throws, LeaveAttempt, RecordFailure, CoolDown, leaseVars
    <3> QED
      BY <1>3, <3>1, <3>2
  <2> QED
    BY <2>2, <2>3, <2>4
<1>8. CASE Leave(q)
  <2>1. Out
    BY <1>0, <1>8 DEF Leave, Released, AfterRelease, Catch, Log, Holding, Forwarding, Body, Observing
  <2> QED
    BY <2>1, FitOutside
<1>9. CASE Others(q)
  <2>1. CASE Out
    BY <2>1, FitOutside
  <2>2. CASE Disconnect(q)
    BY <1>0, <1>2, <2>2 DEF Disconnect, Abort, StopTimers
  <2>3. CASE ~Out /\ ~Disconnect(q)
    <3>1. /\ UNCHANGED <<triesVars, aborted, renewal, timer, msgs, leaseVars>>
          /\ {pc[q], pc'[q]} \subseteq Holding
      BY <1>0, <1>9, <2>3 DEF Others, Reject, UpstreamAnswers, Write, EndOfBody,
         FlushEnds, Breaks, Flows, Stalls, Begin,
         Throws, LeaveAttempt, Holding, Forwarding, Body, Observing
    <3> QED
      BY <1>3, <3>1 DEF leaseVars
  <2> QED
    BY <2>1, <2>2, <2>3
<1>10. CASE RenewResent(q)
  <2>1. /\ pc[q] \in Holding /\ UNCHANGED <<leaseVars, pc, triesVars, callVars>>
        /\ msgs' = (msgs \ Replies(q)) \cup {Renewing(Current(q), account[q])}
    BY <1>10 DEF RenewResent, Placed
  <2>2. Reply(Current(q), TRUE) \in msgs' => Reply(Current(q), TRUE) \in msgs
    BY <2>1, Messages
  <2> QED
    BY <1>3, <2>1, <2>2 DEF leaseVars
<1>11. CASE Faulty(q)
  <2>1. CASE Out
    BY <2>1, FitOutside
  <2>2. CASE \E may \in BOOLEAN : RenewError(q, may)
    BY <1>0, <1>2, <2>2 DEF RenewError, Abort, StopTimers
  <2>3. \/ Out \/ RenewResent(q) \/ \E may \in BOOLEAN : RenewError(q, may)
    BY <1>0, <1>11 DEF Faulty, AcquireResent, ReleaseFails, AcquireFails, Crash, AfterRelease,
       Holding, Forwarding, Body, Observing
  <2> QED
    BY <1>10, <2>1, <2>2, <2>3
<1> QED
  BY <1>1, <1>6, <1>7, <1>8, <1>9, <1>11 DEF Act

\* A renewal that runs finds a lease in use live, and extends it.
LEMMA FitRenewed ==
  ASSUME GatewayTypeOK, Placed, Addressed, NEW q \in Request, Fit(q), NEW m \in msgs, RenewRuns(m)
  PROVE  Fit(q)'
<1>0. /\ globalLeases \in Zset /\ accountLeases \in [Account -> Zset] /\ timer[q] \in 0 .. RenewTicks
      /\ Current(q) \in Token /\ renewal[q] \in {"off", "idle", "busy"} /\ TypeOK
      /\ account[q] \in Account \cup {NoAccount}
  BY Tokens DEF GatewayTypeOK, TypeOK
<1>1. /\ m.token \in Token /\ m.account \in Account /\ m = Renewing(m.token, m.account)
      /\ UNCHANGED <<pc, triesVars, callVars>> /\ Renew(m.token, m.account)
  BY MessageKinds DEF RenewRuns, GatewayTypeOK, Message
<1>2. CASE m.token # Current(q)
  <2>1. account[q] \in Account => Kept(Current(q), account[q])
    BY <1>0, <1>1, <1>2, OthersKeep DEF Renew
  <2> DEFINE y == Renewable(m.token, m.account)
  <2>2. y \in BOOLEAN
    BY DEF Renewable
  <2>3. msgs' \subseteq msgs \cup {Reply(m.token, y)}
    BY DEF RenewRuns
  <2> HIDE DEF y
  <2>4. \A z \in BOOLEAN : Reply(Current(q), z) \in msgs' => Reply(Current(q), z) \in msgs
    BY <1>2, <2>2, <2>3, Messages
  <2> QED
    BY <1>1, <2>1, <2>4, AgedFrame DEF triesVars, callVars, Fit
<1>3. CASE m.token = Current(q)
  <2>1. Renewing(Current(q), m.account) \in msgs /\ Current(q)[1] = q /\ Now(Current(q))
    BY <1>0, <1>1, <1>3, Tokens
  <2>2. m.account = account[q] /\ pc[q] \notin Reserving \cup {"granted"}
    BY <1>0, <1>1, <2>1 DEF Addressed
  <2>3. CASE pc[q] \notin Holding
    BY <1>1, <2>2, <2>3, FitOutside
  <2>4. CASE pc[q] \in Holding /\ renewal[q] = "off"
    <3>1. aborted[q]
      BY <2>4 DEF Fit, Aged
    <3> QED
      BY <1>1, <2>2, <2>4, <3>1 DEF Fit, Aged, Even, triesVars, callVars
  <2>5. CASE pc[q] \in Holding /\ renewal[q] # "off"
    <3>1. ~aborted[q] /\ renewal[q] \in {"idle", "busy"}
      BY <1>0, <2>5 DEF Placed
    <3>2. \E n \in Int : n > 0 /\ AtLeast(q, n)
      BY <1>0, <2>5, <3>1, Margins DEF Fit, Aged
    <3>3. globalLeases[Current(q)] \in Int /\ accountLeases[account[q]][Current(q)] \in Int
      BY <1>0, <1>1, <2>2 DEF Zset
    <3>4. Renewable(m.token, m.account)
      BY <1>3, <2>2, <3>2, <3>3 DEF Renewable, AtLeast
    <3>5. /\ globalLeases' = Add(globalLeases, Current(q))
          /\ accountLeases' = [accountLeases EXCEPT ![account[q]] = Add(@, Current(q))]
      BY <1>1, <1>3, <2>2, <3>4 DEF Renew, Extend
    <3>6. \A z \in Zset : Add(z, Current(q))[Current(q)] = LeaseTicks
      BY <1>0 DEF Add, Zset
    <3>7. /\ globalLeases'[Current(q)] = LeaseTicks
          /\ accountLeases'[account[q]][Current(q)] = LeaseTicks
      BY <1>0, <1>1, <2>2, <3>5, <3>6
    <3>8. /\ Current(q)' = Current(q) /\ account'[q] = account[q] /\ account[q] \in Account
          /\ pc'[q] = pc[q] /\ timer'[q] = timer[q] /\ renewal'[q] = renewal[q]
          /\ aborted'[q] = aborted[q]
      BY <1>1, <2>2 DEF Current, triesVars, callVars
    <3>9. /\ LeaseTicks >= LeaseTicks - ReplyTicks - RenewTicks + timer[q]
          /\ LeaseTicks >= LeaseTicks - ReplyTicks - 2 * RenewTicks + timer[q]
          /\ LeaseTicks >= LeaseTicks - RenewTicks + timer[q]
      BY <1>0, LeasesAssumption, GatewayAssumption
    <3>10. Aged(q)'
      BY <2>2, <2>5, <3>1, <3>7, <3>8, <3>9 DEF Fit, Aged, AtLeast
    <3> QED
      BY <2>2, <3>8, <3>10 DEF Fit, Even
  <2> QED
    BY <2>3, <2>4, <2>5
<1> QED
  BY <1>2, <1>3

\* A tick makes every lease older by one, and brings the interval nearer by one.
LEMMA FitTick ==
  ASSUME GatewayTypeOK, Placed, NEW q \in Request, Fit(q), Tick
  PROVE  Fit(q)'
<1>0. /\ globalLeases \in Zset /\ accountLeases \in [Account -> Zset] /\ timer[q] \in 0 .. RenewTicks
      /\ Current(q) \in Token /\ renewal[q] \in {"off", "idle", "busy"}
      /\ RenewTicks \in Nat /\ RenewTimeoutTicks \in Nat
  BY Tokens DEF GatewayTypeOK, TypeOK
<1>1. /\ UNCHANGED <<pc, triesVars, aborted, renewal, msgs>> /\ Current(q)' = Current(q)
      /\ ~Due(q) /\ timer'[q] = IF renewal[q] = "off" THEN 0 ELSE timer[q] - 1
      /\ globalLeases' = Age(globalLeases)
      /\ accountLeases' = [a \in Account |-> Age(accountLeases[a])]
  BY DEF Tick, LeaseTick, worldVars, triesVars, Current
<1>2. account[q] \in Account =>
        globalLeases[Current(q)] \in Int /\ accountLeases[account[q]][Current(q)] \in Int
  BY <1>0 DEF Zset
<1>3. account[q] \in Account =>
        /\ globalLeases'[Current(q)]
             = IF globalLeases[Current(q)] > 0 THEN globalLeases[Current(q)] - 1
               ELSE globalLeases[Current(q)]
        /\ accountLeases'[account[q]][Current(q)]
             = IF accountLeases[account[q]][Current(q)] > 0
               THEN accountLeases[account[q]][Current(q)] - 1
               ELSE accountLeases[account[q]][Current(q)]
  BY <1>0, <1>1 DEF Age
<1> DEFINE Left(n) == /\ account[q] \in Account /\ globalLeases'[Current(q)] >= n
                      /\ accountLeases'[account[q]][Current(q)] >= n
<1>4. ASSUME NEW n \in Int, n > 0, AtLeast(q, n) PROVE Left(n - 1)
  BY <1>1, <1>2, <1>3, <1>4 DEF AtLeast, triesVars
<1>5. Even(q)'
  <2>1. pc[q] = "granted" => account[q] \in Account
    BY DEF Placed
  <2> QED
    BY <1>1, <1>3, <2>1 DEF Fit, Even, triesVars
<1>6. CASE pc[q] = "granted"
  <2>1. /\ globalLeases[Current(q)] > LeaseTicks - ReplyTicks /\ account[q] \in Account
        /\ LeaseTicks - ReplyTicks \in Int /\ LeaseTicks - ReplyTicks > 0
    BY <1>0, <1>1, <1>2, <1>6, Margins DEF Due, Placed
  <2>2. accountLeases[account[q]][Current(q)] = globalLeases[Current(q)]
    BY <1>6 DEF Fit, Even
  <2>3. AtLeast(q, LeaseTicks - ReplyTicks)'
    BY <1>1, <1>2, <1>3, <2>1, <2>2 DEF AtLeast, triesVars
  <2> QED
    BY <1>1, <1>5, <1>6, <2>3 DEF Fit, Aged, Holding, Forwarding, Body, Observing
<1>7. CASE pc[q] \in Holding /\ renewal[q] = "idle"
  <2>1. timer[q] > 0 /\ timer'[q] = timer[q] - 1 /\ ~aborted[q]
    BY <1>0, <1>1, <1>7 DEF Due, Placed
  <2> DEFINE n == LeaseTicks - ReplyTicks - RenewTicks + timer[q]
  <2>2. n \in Int /\ n > 0 /\ AtLeast(q, n)
    BY <1>0, <1>7, <2>1, Margins DEF Fit, Aged
  <2>3. Left(n - 1)
    BY <1>4, <2>2
  <2>4. n - 1 = LeaseTicks - ReplyTicks - RenewTicks + timer'[q]
    BY <1>0, <2>1, LeasesAssumption, GatewayAssumption
  <2> QED
    BY <1>1, <1>5, <1>7, <2>1, <2>3, <2>4
       DEF Fit, Aged, AtLeast, triesVars, Holding, Forwarding, Body, Observing
<1>8. CASE pc[q] \in Holding /\ renewal[q] = "busy"
  <2>1. timer[q] > RenewTicks - RenewTimeoutTicks /\ timer'[q] = timer[q] - 1 /\ ~aborted[q]
    BY <1>0, <1>1, <1>8 DEF Due, RenewTimeout, Placed
  <2> DEFINE n == LeaseTicks - ReplyTicks - 2 * RenewTicks + timer[q]
             k == LeaseTicks - RenewTicks + timer[q]
  <2>2. n \in Int /\ n > 0 /\ k \in Int /\ k > 0
    BY <1>0, <2>1, Margins
  <2>3. AtLeast(q, n) /\ (Reply(Current(q), TRUE) \in msgs => AtLeast(q, k))
    BY <1>8 DEF Fit, Aged
  <2>4. Left(n - 1) /\ (Reply(Current(q), TRUE) \in msgs => Left(k - 1))
    BY <1>4, <2>2, <2>3
  <2>5. /\ n - 1 = LeaseTicks - ReplyTicks - 2 * RenewTicks + timer'[q]
        /\ k - 1 = LeaseTicks - RenewTicks + timer'[q]
        /\ timer'[q] >= RenewTicks - RenewTimeoutTicks
    BY <1>0, <2>1, LeasesAssumption, GatewayAssumption
  <2>6. Aged(q)'
    BY <1>1, <1>8, <2>1, <2>4, <2>5
       DEF Aged, AtLeast, triesVars, Holding, Forwarding, Body, Observing
  <2> QED
    BY <1>5, <2>6 DEF Fit
<1>9. CASE pc[q] \in Holding /\ renewal[q] = "off"
  BY <1>1, <1>5, <1>9 DEF Fit, Aged, Holding, Forwarding, Body, Observing
<1>10. CASE pc[q] \notin {"granted"} \cup Holding
  BY <1>1, <1>10, FitOutside
<1> QED
  BY <1>0, <1>6, <1>7, <1>8, <1>9, <1>10

\* Every step.
LEMMA FitStep ==
  ASSUME GatewayTypeOK, Placed, Addressed, \A r \in Request : Fit(r), [GatewayNext]_vars
  PROVE  \A r \in Request : Fit(r)'
<1> TAKE q \in Request
<1>0. Fit(q) /\ Current(q) \in Token /\ Current(q)[1] = q /\ TypeOK
  BY Tokens DEF GatewayTypeOK
<1>1. ASSUME NEW r \in Request, Act(r) PROVE Fit(q)'
  <2>1. CASE r = q
    BY <1>0, <1>1, <2>1, FitOwn
  <2>2. CASE r # q
    <3>1. Same(q)
      BY <1>1, <2>2, Apart
    <3>2. Current(q) \in Token \ {Current(r)}
      BY <1>0, <2>2, Tokens
    <3>3. /\ account[q] \in Account => Kept(Current(q), account[q])
          /\ Reply(Current(q), TRUE) \in msgs' => Reply(Current(q), TRUE) \in msgs
      BY <1>1, <3>2, OwnToken
    <3> QED
      BY <1>0, <3>1, <3>3, AgedFrame DEF Same, Fit
  <2> QED
    BY <2>1, <2>2
<1>2. ASSUME account[q] \in Account => Kept(Current(q), account[q]), msgs' \subseteq msgs,
             UNCHANGED <<pc, triesVars, callVars>>
      PROVE  Fit(q)'
  BY <1>0, <1>2, AgedFrame DEF Fit, triesVars, callVars
<1>3. ASSUME NEW t \in Token, StrayAcquire(t) PROVE Fit(q)'
  <2>1. CASE t = Current(q)
    <3>1. pc[q] \in Over /\ pc' = pc
      BY <1>0, <1>3, <2>1 DEF StrayAcquire, Addressed, Over
    <3> QED
      BY <3>1, FitOutside DEF Over, Finished, Holding, Forwarding, Body, Observing
  <2>2. CASE t # Current(q)
    <3>1. account[q] \in Account => Kept(Current(q), account[q])
      BY <1>0, <1>3, <2>2, OthersKeep DEF StrayAcquire, RefuseFor, AcquireFor
    <3> QED
      BY <1>2, <1>3, <3>1 DEF StrayAcquire
  <2> QED
    BY <2>1, <2>2
<1>4. ASSUME NEW s \in Session, Expire(s) PROVE Fit(q)'
  BY <1>2, <1>4 DEF Expire, AffinityExpires, Kept, worldVars
<1>5. CASE UNCHANGED vars
  BY <1>2, <1>5 DEF vars, leaseVars, Kept, worldVars
<1> QED
  BY <1>0, <1>1, <1>3, <1>4, <1>5, FitRenewed, FitTick DEF GatewayNext, Act
-----------------------------------------------------------------------------
(* What a request leaves behind. *)

\* A step stores no entry for a token that was not there.
NoNew(t) ==
  /\ globalLeases'[t] # NoEntry => globalLeases[t] # NoEntry
  /\ \A a \in Account : accountLeases'[a][t] # NoEntry => accountLeases[a][t] # NoEntry

\* Only an ACQUIRE for the token does, not a renewal of it.
LEMMA OnlyAcquireStores ==
  ASSUME TypeOK, NEW t \in Token,
         \/ \E u \in Token \ {t} : \E lim, limit, s, b, visited : Acquire(u, lim, limit, s, b, visited)
         \/ \E lim, limit : RefuseGlobal(limit) \/ RefuseAccounts(lim, limit)
         \/ \E u \in Token, b \in Account : Release(u, b) \/ Renew(u, b)
         \/ LeaseTick \/ UNCHANGED <<globalLeases, accountLeases>>
  PROVE  NoNew(t)
<1>0. globalLeases \in Zset /\ accountLeases \in [Account -> Zset]
  BY DEF TypeOK
<1> DEFINE Fewer(z, y) == y[t] # NoEntry => z[t] # NoEntry
<1>1. \A z \in Zset, u \in Token : /\ Fewer(z, Prune(z)) /\ Fewer(z, Age(z)) /\ Fewer(z, z)
                                   /\ Fewer(z, Drop(z, u))
                                   /\ u # t => Fewer(z, Add(Prune(z), u))
                                   /\ z[u] > 0 => Fewer(z, Add(z, u))
  <2> TAKE z \in Zset, u \in Token
  <2>1. Fewer(z, z) /\ Fewer(z, Prune(z))
    BY DEF Zset, Prune
  <2>2. Fewer(z, Age(z))
    BY DEF Zset, Age, NoEntry
  <2>3. Fewer(z, Drop(z, u)) /\ (z[u] > 0 => Fewer(z, Add(z, u)))
    BY DEF Zset, Drop, Add, NoEntry
  <2>4. u # t => Fewer(z, Add(Prune(z), u))
    BY DEF Zset, Prune, Add
  <2> QED
    BY <2>1, <2>2, <2>3, <2>4
<1> HIDE DEF Fewer
<1>2. ASSUME Fewer(globalLeases, globalLeases'),
             \A a \in Account : Fewer(accountLeases[a], accountLeases'[a])
      PROVE  NoNew(t)
  BY <1>2 DEF NoNew, Fewer
<1>3. ASSUME NEW u \in Token \ {t}, NEW lim, NEW limit, NEW s, NEW b, NEW visited,
             Acquire(u, lim, limit, s, b, visited)
      PROVE  NoNew(t)
  <2>1. \A a \in Account :
          accountLeases'[a] \in {accountLeases[a], Prune(accountLeases[a]), Add(Prune(accountLeases[a]), u)}
    BY <1>0, <1>3 DEF Acquire
  <2> QED
    BY <1>0, <1>1, <1>2, <1>3, <2>1 DEF Acquire
<1>4. ASSUME NEW lim, NEW limit, RefuseGlobal(limit) \/ RefuseAccounts(lim, limit) PROVE NoNew(t)
  BY <1>0, <1>1, <1>2, <1>4 DEF RefuseGlobal, RefuseAccounts
<1>5. ASSUME NEW u \in Token, NEW b \in Account, Release(u, b) PROVE NoNew(t)
  BY <1>0, <1>1, <1>2, <1>5 DEF Release
<1>6. ASSUME NEW u \in Token, NEW b \in Account, Renewable(u, b), Extend(u, b) PROVE NoNew(t)
  BY <1>0, <1>1, <1>2, <1>6 DEF Renewable, Extend
<1>7. CASE LeaseTick
  BY <1>0, <1>1, <1>2, <1>7 DEF LeaseTick
<1>8. CASE UNCHANGED <<globalLeases, accountLeases>>
  BY <1>8 DEF NoNew
<1> QED
  BY <1>3, <1>4, <1>5, <1>6, <1>7, <1>8 DEF Renew

\* A step without a fault keeps a lease and its account together, but for the granting
\* and the release; an ACQUIRE goes astray in a fault.
LEMMA KeepsEntries ==
  ASSUME GatewayTypeOK, NEW r \in Request, Act(r)
  PROVE  /\ \A t \in Token : Acquiring(t) \in msgs' =>
              Acquiring(t) \in msgs \/ (t[1] = r /\ faults'[r] # 0)
         /\ faults'[r] = 0 => faults[r] = 0
         /\ \/ faults'[r] # 0 \/ Released(r)
            \/ \E a \in Account, visited \in SUBSET Account : AcquireRuns(r, a, visited)
            \/ /\ attempt'[r] = attempt[r] /\ account'[r] = account[r]
               /\ pc[r] \in Leasing => pc'[r] \in Leasing
               /\ \A t \in Token : NoNew(t)
<1>0. /\ pc \in [Request -> Listening \cup Finished \cup {"idle", "log"}]
      /\ faults \in [Request -> 0 .. MaxFaults] /\ MaxFaults \in Nat
      /\ Current(r) \in Token /\ Current(r)[1] = r /\ TypeOK
  BY Tokens DEF GatewayTypeOK
<1> USE DEF inputVars, triesVars, callVars, answerVars, worldVars, Goto, Move
<1>1. CASE Faulty(r)
  <2>1. faults'[r] = faults[r] + 1
    BY <1>0, <1>1 DEF Faulty, AcquireResent, RenewResent, ReleaseFails, AcquireFails, RenewError, Crash,
                      Fault
  <2>2. faults'[r] # 0 /\ (faults'[r] = 0 => faults[r] = 0)
    BY <1>0, <2>1
  <2>3. \/ msgs' \subseteq msgs \cup {Acquiring(Current(r))}
        \/ msgs' \subseteq msgs \cup {Renewing(Current(r), account[r])}
    BY <1>1 DEF Faulty, AcquireResent, RenewResent, ReleaseFails, AcquireFails, RenewError, Crash,
                AfterRelease, Stray
  <2> QED
    BY <1>0, <2>2, <2>3, Messages
<1>2. CASE Reserve(r) \/ RenewalStep(r) \/ Forward(r) \/ Leave(r) \/ Others(r)
  <2>1. faults' = faults /\ (msgs' \subseteq msgs \/ msgs' \subseteq msgs \cup {Renewing(Current(r), account[r])})
    <3>1. CASE Reserve(r)
      BY <3>1 DEF Reserve, ListCandidates, ListFails, LoopAborted, TryAcquire, NoAccounts, AcquireRuns,
         AcquireRefused, Granted, AnswerError
    <3>2. CASE RenewalStep(r)
      BY <3>2 DEF RenewalStep, RenewFires, Renewed, LeaseLost
    <3>3. CASE Forward(r)
      BY <3>3 DEF Forward, Touch, AbortThrows, IdleTimeout, Inspect, RetryElsewhere, ReturnError, Throws,
         LeaveAttempt
    <3>4. CASE Leave(r)
      BY <3>4 DEF Leave, Released, Catch, Log, AfterRelease
    <3>5. CASE Others(r)
      BY <3>5 DEF Others, Reject, Disconnect, UpstreamAnswers, Write, EndOfBody,
         FlushEnds, Breaks, Flows, Stalls,
         Begin, Throws, LeaveAttempt
    <3> QED
      BY <1>2, <3>1, <3>2, <3>3, <3>4, <3>5
  <2>2. \A t \in Token : Acquiring(t) \in msgs' => Acquiring(t) \in msgs
    BY <2>1, Messages
  <2>3. ASSUME ~Released(r), \A a \in Account, visited \in SUBSET Account : ~AcquireRuns(r, a, visited)
        PROVE  /\ attempt'[r] = attempt[r] /\ account'[r] = account[r]
               /\ pc[r] \in Leasing => pc'[r] \in Leasing
    <3> USE DEF Leasing, Holding, Forwarding, Body, Observing, Releasing
    <3>1. CASE Reserve(r)
      BY <1>0, <2>3, <3>1 DEF Reserve, ListCandidates, ListFails, LoopAborted, TryAcquire, NoAccounts,
         AcquireRefused, Granted, AnswerError
    <3>2. CASE RenewalStep(r)
      BY <3>2 DEF RenewalStep, RenewFires, Renewed, LeaseLost
    <3>3. CASE Forward(r)
      BY <1>0, <3>3 DEF Forward, Touch, AbortThrows, IdleTimeout, Inspect, RetryElsewhere, ReturnError, Throws,
         LeaveAttempt
    <3>4. CASE Leave(r)
      BY <1>0, <2>3, <3>4 DEF Leave, Catch, Log
    <3>5. CASE Others(r)
      BY <1>0, <3>5 DEF Others, Reject, Disconnect, UpstreamAnswers, Write, EndOfBody,
         FlushEnds, Breaks, Flows, Stalls,
         Begin, Throws, LeaveAttempt
    <3> QED
      BY <1>2, <3>1, <3>2, <3>3, <3>4, <3>5
  <2>4. ASSUME NEW t \in Token, ~Released(r),
               \A a \in Account, visited \in SUBSET Account : ~AcquireRuns(r, a, visited)
        PROVE  NoNew(t)
    <3>1. UNCHANGED <<globalLeases, accountLeases>> \/ AcquireRefused(r)
      BY <1>2, <2>4, OwnToken DEF Act
    <3> QED
      BY <1>0, <3>1, OnlyAcquireStores DEF AcquireRefused, RefuseFor
  <2> DEFINE Runs == \E a \in Account, visited \in SUBSET Account : AcquireRuns(r, a, visited)
  <2>5. faults'[r] = faults[r]
    BY <2>1
  <2>6. CASE Released(r) \/ Runs
    BY <2>2, <2>5, <2>6
  <2>7. CASE ~(Released(r) \/ Runs)
    <3>1. /\ attempt'[r] = attempt[r] /\ account'[r] = account[r]
          /\ pc[r] \in Leasing => pc'[r] \in Leasing
      BY <2>3, <2>7
    <3>2. \A t \in Token : NoNew(t)
      BY <2>4, <2>7
    <3> QED
      BY <2>2, <2>5, <3>1, <3>2
  <2> QED
    BY <2>6, <2>7
<1> QED
  BY <1>1, <1>2 DEF Act

\* Nothing new of a token, and its request where it was.
LEMMA OwnFrame ==
  ASSUME GatewayTypeOK, NEW t \in Token, Own(t), faults'[t[1]] = 0 => faults[t[1]] = 0,
         faults'[t[1]] = 0 => NoNew(t), attempt'[t[1]] = attempt[t[1]],
         account'[t[1]] = account[t[1]], pc[t[1]] \in Leasing => pc'[t[1]] \in Leasing,
         faults'[t[1]] = 0 => (Acquiring(t) \in msgs' => Acquiring(t) \in msgs)
  PROVE  Own(t)'
<1> SUFFICES ASSUME faults'[t[1]] = 0
             PROVE  /\ Acquiring(t) \notin msgs'
                    /\ Stored(t)' => Now(t)' /\ pc'[t[1]] \in Leasing
                    /\ \A a \in Account : accountLeases'[a][t] # NoEntry => a = account'[t[1]]
  BY DEF Own
<1>1. Stored(t)' => Stored(t)
  BY DEF NoNew, Stored
<1>2. Now(t)' <=> Now(t)
  BY DEF Now
<1> QED
  BY <1>1, <1>2 DEF Own, NoNew

\* The release takes the entries of the request away, the granting adds its own.
LEMMA OwnStep ==
  ASSUME GatewayTypeOK, NEW r \in Request, \A t \in Token : Own(t), Act(r)
  PROVE  \A t \in Token : Own(t)'
<1> TAKE t \in Token
<1>0. /\ Current(r) \in Token /\ Current(r)[1] = r /\ TypeOK /\ t[1] \in Request /\ Own(t)
      /\ (t = Current(r) <=> t[1] = r /\ Now(t))
      /\ globalLeases \in Zset /\ accountLeases \in [Account -> Zset]
      /\ pc \in [Request -> Listening \cup Finished \cup {"idle", "log"}]
      /\ account \in [Request -> Account \cup {NoAccount}]
  BY Tokens DEF GatewayTypeOK, TypeOK
<1> DEFINE Runs(a, visited) == AcquireRuns(r, a, visited)
<1>1. ASSUME t # Current(r) PROVE NoNew(t)
  <2>1. CASE UNCHANGED <<globalLeases, accountLeases>>
    BY <1>0, <2>1, OnlyAcquireStores
  <2>2. ASSUME NEW a \in Account, NEW visited \in SUBSET Account, Runs(a, visited) PROVE NoNew(t)
    BY <1>0, <1>1, <2>2, OnlyAcquireStores DEF AcquireRuns, AcquireFor
  <2>3. CASE Released(r)
    <3>1. Release(Current(r), account[r])
      BY <2>3 DEF Released
    <3>2. \A z \in Zset : Drop(z, Current(r))[t] = z[t]
      BY <1>0, <1>1 DEF Drop, Zset
    <3> QED
      BY <1>0, <3>1, <3>2 DEF Release, NoNew
  <2>4. CASE AcquireRefused(r)
    BY <1>0, <2>4, OnlyAcquireStores DEF AcquireRefused, RefuseFor
  <2> QED
    BY <2>1, <2>2, <2>3, <2>4, OwnToken
<1>2. CASE t[1] # r
  <2>1. Same(t[1])
    BY <1>0, <1>2, Apart
  <2>2. NoNew(t)
    BY <1>0, <1>1, <1>2
  <2>3. Acquiring(t) \in msgs' => Acquiring(t) \in msgs
    BY <1>2, KeepsEntries
  <2> QED
    BY <1>0, <2>1, <2>2, <2>3, OwnFrame DEF Same
<1>3. CASE t[1] = r /\ faults'[r] = 0
  <2>1. faults[r] = 0 /\ (Acquiring(t) \in msgs' => Acquiring(t) \in msgs)
    BY <1>3, KeepsEntries
  <2>2. /\ Acquiring(t) \notin msgs'
        /\ Stored(t) => Now(t) /\ pc[r] \in Leasing
        /\ \A a \in Account : accountLeases[a][t] # NoEntry => a = account[r]
    BY <1>0, <1>3, <2>1 DEF Own
  <2>3. CASE Released(r)
    <3>1. CASE t = Current(r)
      <4>1. /\ globalLeases' = Drop(globalLeases, t)
            /\ accountLeases' = [accountLeases EXCEPT ![account[r]] = Drop(@, t)]
        BY <2>3, <3>1 DEF Released, Release
      <4>2. \A z \in Zset : Drop(z, t)[t] = NoEntry
        BY DEF Drop, Zset
      <4>3. globalLeases'[t] = NoEntry /\ \A a \in Account : accountLeases'[a][t] = NoEntry
        BY <1>0, <2>2, <4>1, <4>2
      <4> QED
        BY <2>2, <4>3 DEF Own, Stored
    <3>2. CASE t # Current(r)
      <4>1. ~Stored(t)'
        BY <1>0, <1>1, <1>3, <2>2, <3>2 DEF Stored, NoNew
      <4> QED
        BY <2>2, <4>1 DEF Own, Stored
    <3> QED
      BY <3>1, <3>2
  <2>4. ASSUME NEW a \in Account, NEW visited \in SUBSET Account, Runs(a, visited) PROVE Own(t)'
    <3>1. /\ pc[r] = "acquire" /\ pc'[r] = "granted" /\ account'[r] = a /\ attempt' = attempt
      BY <1>0, <2>4 DEF AcquireRuns, Goto, triesVars
    <3>2. ~Stored(t)
      BY <2>2, <3>1 DEF Leasing, Holding, Forwarding, Body, Observing, Releasing
    <3>3. CASE t # Current(r)
      <4>1. ~Stored(t)'
        BY <1>1, <3>2, <3>3 DEF Stored, NoNew
      <4> QED
        BY <2>2, <4>1 DEF Own, Stored
    <3>4. CASE t = Current(r)
      <4>1. Now(t)'
        BY <1>0, <3>1, <3>4 DEF Now
      <4>2. \A b \in Account \ {a} :
              accountLeases'[b] \in {accountLeases[b], Prune(accountLeases[b])}
        BY <1>0, <2>4 DEF AcquireRuns, AcquireFor, Acquire
      <4>3. \A z \in Zset : z[t] = NoEntry => Prune(z)[t] = NoEntry
        BY DEF Zset, Prune, NoEntry
      <4>4. \A b \in Account : accountLeases'[b][t] # NoEntry => b = a
        BY <1>0, <3>2, <4>2, <4>3 DEF Stored
      <4> QED
        BY <1>3, <2>2, <3>1, <4>1, <4>4 DEF Own, Leasing
    <3> QED
      BY <3>3, <3>4
  <2>5. CASE /\ attempt'[r] = attempt[r] /\ account'[r] = account[r]
             /\ pc[r] \in Leasing => pc'[r] \in Leasing
             /\ \A u \in Token : NoNew(u)
    BY <1>0, <1>3, <2>1, <2>5, OwnFrame
  <2> QED
    BY <1>3, <2>3, <2>4, <2>5, KeepsEntries
<1>4. CASE t[1] = r /\ faults'[r] # 0
  BY <1>4 DEF Own
<1> QED
  BY <1>2, <1>3, <1>4

\* Every step keeps the entries with their owners.
LEMMA OwnEntriesStep ==
  ASSUME GatewayTypeOK, Placed, Addressed, OwnEntries, [GatewayNext]_vars
  PROVE  OwnEntries'
<1>0. TypeOK /\ \A t \in Token : Own(t)
  BY DEF OwnEntries, GatewayTypeOK
<1>1. ASSUME NEW r \in Request, Act(r) PROVE \A t \in Token : Own(t)'
  BY <1>0, <1>1, OwnStep
<1>2. ASSUME NEW t \in Token, NoNew(t), UNCHANGED <<pc, triesVars, faults>>,
             Acquiring(t) \in msgs' => Acquiring(t) \in msgs
      PROVE  Own(t)'
  BY <1>0, <1>2, OwnFrame DEF triesVars
<1>3. ASSUME NEW m \in msgs, RenewRuns(m), NEW t \in Token PROVE Own(t)'
  <2>1. m.token \in Token /\ m.account \in Account
    BY <1>3, MessageKinds DEF RenewRuns, GatewayTypeOK, Message
  <2>2. NoNew(t)
    BY <1>0, <1>3, <2>1, OnlyAcquireStores DEF RenewRuns
  <2> DEFINE y == Renewable(m.token, m.account)
  <2>3. y \in BOOLEAN /\ \A n \in msgs' : n \in msgs \/ \E u : n = Reply(u, y)
    BY <1>3 DEF RenewRuns, Renewable
  <2> HIDE DEF y
  <2>4. Acquiring(t) \in msgs' => Acquiring(t) \in msgs
    BY <2>3, Messages
  <2> QED
    BY <1>2, <1>3, <2>2, <2>4 DEF RenewRuns
<1>4. ASSUME NEW u \in Token, StrayAcquire(u), NEW t \in Token PROVE Own(t)'
  <2>1. CASE t = u
    BY <1>0, <1>4, <2>1 DEF StrayAcquire, Own
  <2>2. CASE t # u
    <3>1. NoNew(t)
      BY <1>0, <1>4, <2>2, OnlyAcquireStores DEF StrayAcquire, RefuseFor, AcquireFor
    <3> QED
      BY <1>2, <1>4, <3>1 DEF StrayAcquire
  <2> QED
    BY <2>1, <2>2
<1>5. ASSUME NEW s \in Session, Expire(s), NEW t \in Token PROVE Own(t)'
  BY <1>2, <1>5 DEF Expire, AffinityExpires, NoNew, worldVars
<1>6. ASSUME Tick, NEW t \in Token PROVE Own(t)'
  <2>1. NoNew(t)
    BY <1>0, <1>6, OnlyAcquireStores DEF Tick
  <2> QED
    BY <1>2, <1>6, <2>1 DEF Tick, worldVars
<1>7. ASSUME UNCHANGED vars, NEW t \in Token PROVE Own(t)'
  BY <1>2, <1>7 DEF vars, leaseVars, NoNew, worldVars
<1> QED
  BY <1>1, <1>3, <1>4, <1>5, <1>6, <1>7 DEF GatewayNext, Act, OwnEntries
-----------------------------------------------------------------------------
(* Answers and attempts. *)

\* A request's own steps.
LEMMA AnswerOwn ==
  ASSUME GatewayTypeOK, Placed, NEW r \in Request, OneAnswer(r), Act(r)
  PROVE  OneAnswer(r)'
<1>0. /\ pc \in [Request -> Listening \cup Finished \cup {"idle", "log"}]
      /\ streaming \in [Request -> BOOLEAN] /\ attempt \in [Request -> 1 .. MaxAttempts]
      /\ response \in [Request -> {"open", "sending", "ended", "destroyed"}]
      /\ sent \in [Request -> SUBSET (1 .. MaxAttempts)]
  BY DEF GatewayTypeOK
<1> USE DEF inputVars, triesVars, callVars, answerVars, worldVars, Goto, Move, EndResponse, LeaveAttempt,
            OneAnswer, Reserving, Holding, Forwarding, Body, Observing, Releasing, Finished, MaxAttempts
<1>1. ASSUME Reserve(r) PROVE OneAnswer(r)'
  BY <1>0, <1>1 DEF Reserve, ListCandidates, ListFails, LoopAborted, TryAcquire, NoAccounts, AcquireRuns,
            AcquireRefused, Granted, AnswerError
<1>2. ASSUME RenewalStep(r) PROVE OneAnswer(r)'
  BY <1>0, <1>2 DEF RenewalStep, RenewFires, Renewed, LeaseLost
<1>3. ASSUME Touch(r) \/ AbortThrows(r) \/ IdleTimeout(r) PROVE OneAnswer(r)'
  BY <1>0, <1>3 DEF Touch, AbortThrows, IdleTimeout, Throws
<1>4. ASSUME NEW f \in Failure, RetryElsewhere(r, f) PROVE OneAnswer(r)'
  BY <1>0, <1>4 DEF RetryElsewhere, MayRetry, ResponseStarted
<1>5. ASSUME NEW f \in Failure, ReturnError(r, f) PROVE OneAnswer(r)'
  BY <1>0, <1>5 DEF ReturnError
<1>6. ASSUME Inspect(r) PROVE OneAnswer(r)'
  BY <1>0, <1>6 DEF Inspect
<1>7. ASSUME Released(r) \/ ReleaseFails(r) PROVE OneAnswer(r)'
  <2>1. AfterRelease(r)
    BY <1>7 DEF Released, ReleaseFails
  <2> QED
    BY <1>0, <2>1 DEF AfterRelease
<1>8. ASSUME Catch(r) \/ Log(r) PROVE OneAnswer(r)'
  BY <1>0, <1>8 DEF Catch, Log
<1>9. ASSUME Reject(r) \/ Disconnect(r) \/ UpstreamAnswers(r) \/ Write(r) \/ Stalls(r) PROVE OneAnswer(r)'
  BY <1>0, <1>9 DEF Reject, Disconnect, UpstreamAnswers, Write, Stalls
<1>10. ASSUME EndOfBody(r) \/ FlushEnds(r) \/ Breaks(r) PROVE OneAnswer(r)'
  BY <1>0, <1>10 DEF EndOfBody, FlushEnds, Breaks, Throws
<1>11. ASSUME NEW limit \in 1 .. MaxGlobal, NEW isStream \in StreamModes, NEW gone \in BOOLEAN,
              Begin(r, limit, isStream, gone)
       PROVE  OneAnswer(r)'
  BY <1>0, <1>11 DEF Begin
<1>12. ASSUME AcquireResent(r) \/ RenewResent(r) PROVE OneAnswer(r)'
  BY <1>0, <1>12 DEF AcquireResent, RenewResent
<1>13. ASSUME NEW may \in BOOLEAN, AcquireFails(r, may) \/ RenewError(r, may) \/ Crash(r, may)
       PROVE  OneAnswer(r)'
  BY <1>0, <1>13 DEF AcquireFails, RenewError, Crash
<1> QED
  BY <1>1, <1>2, <1>3, <1>4, <1>5, <1>6, <1>7, <1>8, <1>9, <1>10, <1>11, <1>12, <1>13
     DEF Act, Forward, Leave, Others, Faulty

\* The account that ACQUIRE chooses was not tried before; each attempt adds one at most.
LEMMA FreshOwn ==
  ASSUME GatewayTypeOK, NEW r \in Request, Fresh(r), Act(r)
  PROVE  Fresh(r)'
<1>0. /\ pc \in [Request -> Listening \cup Finished \cup {"idle", "log"}]
      /\ attempt \in [Request -> 1 .. MaxAttempts] /\ attempted \in [Request -> SUBSET Account]
      /\ account \in [Request -> Account \cup {NoAccount}]
      /\ Cardinality(attempted[r]) \in Nat /\ IsFiniteSet(attempted[r])
  <2>1. attempted \in [Request -> SUBSET Account] /\ IsFiniteSet(Account)
    BY LeasesAssumption DEF GatewayTypeOK
  <2>2. IsFiniteSet(attempted[r])
    BY <2>1, FS_Subset
  <2> QED
    BY <2>1, <2>2, FS_CardinalityType DEF GatewayTypeOK
<1> USE DEF inputVars, triesVars, callVars, answerVars, worldVars, Goto, Move, LeaveAttempt,
            Reserving, Holding, Forwarding, Body, Observing, Releasing, Finished, MaxAttempts
<1>1. ASSUME attempt' = attempt, attempted' = attempted, pc[r] \in Reserving \cup {"granted"}
                 \/ pc'[r] \notin Reserving \cup {"granted"}, pc'[r] # "granted" \/ pc' = pc,
             account' = account
      PROVE  Fresh(r)'
  BY <1>1 DEF Fresh
<1>2. ASSUME NEW a \in Account, NEW visited \in SUBSET Account, AcquireRuns(r, a, visited)
      PROVE  Fresh(r)'
  <2>1. a \in DOMAIN Remaining(r)
    BY <1>2, Tokens, ChosenHasRoom DEF AcquireRuns, AcquireFor, Acquire
  <2>2. a \notin attempted[r]
    BY <2>1, RemainingCandidates
  <2>3. /\ pc[r] = "acquire" /\ attempt' = attempt /\ attempted' = attempted /\ account'[r] = a
    BY <1>0, <1>2 DEF AcquireRuns
  <2> QED
    BY <2>2, <2>3 DEF Fresh
<1>3. ASSUME Granted(r) PROVE Fresh(r)'
  <2>1. /\ attempted'[r] = attempted[r] \cup {account[r]} /\ account[r] \notin attempted[r]
        /\ attempt' = attempt /\ pc'[r] = "touch" /\ Cardinality(attempted[r]) < attempt[r]
    BY <1>0, <1>3 DEF Granted, Fresh
  <2>2. Cardinality(attempted'[r]) = Cardinality(attempted[r]) + 1
    BY <1>0, <2>1, FS_AddElement
  <2> QED
    BY <1>0, <2>1, <2>2 DEF Fresh
<1>4. ASSUME Released(r) \/ ReleaseFails(r) PROVE Fresh(r)'
  <2>1. AfterRelease(r)
    BY <1>4 DEF Released, ReleaseFails
  <2> QED
    BY <1>0, <2>1 DEF AfterRelease, Fresh
<1>5. CASE Reserve(r)
  BY <1>0, <1>1, <1>2, <1>3, <1>5 DEF Reserve, ListCandidates, ListFails, LoopAborted, TryAcquire,
     NoAccounts, AcquireRefused, AnswerError
<1>6. CASE RenewalStep(r)
  BY <1>0, <1>1, <1>6 DEF RenewalStep, RenewFires, Renewed, LeaseLost
<1>7. CASE Forward(r)
  BY <1>0, <1>1, <1>7 DEF Forward, Touch, AbortThrows, IdleTimeout, Inspect, RetryElsewhere, ReturnError,
     Throws
<1>8. CASE Leave(r)
  BY <1>0, <1>1, <1>4, <1>8 DEF Leave, Catch, Log
<1>9. CASE Others(r)
  BY <1>0, <1>1, <1>9 DEF Others, Reject, Disconnect, UpstreamAnswers, Write, EndOfBody, FlushEnds,
     Breaks, Flows, Stalls, Begin, Throws
<1>10. CASE Faulty(r)
  BY <1>0, <1>1, <1>4, <1>10 DEF Faulty, AcquireResent, RenewResent, AcquireFails, RenewError, Crash
<1> QED
  BY <1>5, <1>6, <1>7, <1>8, <1>9, <1>10 DEF Act

\* Every step keeps what a request has answered and tried.
LEMMA AnswersStep ==
  ASSUME GatewayTypeOK, Placed, \A r \in Request : OneAnswer(r) /\ Fresh(r), [GatewayNext]_vars
  PROVE  \A r \in Request : OneAnswer(r)' /\ Fresh(r)'
<1> TAKE q \in Request
<1>1. ASSUME Same(q) PROVE OneAnswer(q)' /\ Fresh(q)'
  BY <1>1 DEF Same, OneAnswer, Fresh
<1>2. ASSUME NEW r \in Request, Act(r) PROVE OneAnswer(q)' /\ Fresh(q)'
  BY <1>1, <1>2, Apart, AnswerOwn, FreshOwn
<1>3. ASSUME UNCHANGED <<pc, streaming, triesVars, answerVars>> PROVE OneAnswer(q)' /\ Fresh(q)'
  BY <1>3 DEF OneAnswer, Fresh, triesVars, answerVars
<1>4. ASSUME NEW m \in msgs, RenewRuns(m) PROVE OneAnswer(q)' /\ Fresh(q)'
  BY <1>3, <1>4 DEF RenewRuns, inputVars
<1>5. ASSUME NEW t \in Token, StrayAcquire(t) PROVE OneAnswer(q)' /\ Fresh(q)'
  BY <1>3, <1>5 DEF StrayAcquire, inputVars
<1>6. ASSUME NEW s \in Session, Expire(s) PROVE OneAnswer(q)' /\ Fresh(q)'
  BY <1>3, <1>6 DEF Expire, inputVars
<1>7. CASE Tick \/ UNCHANGED vars
  BY <1>3, <1>7 DEF Tick, inputVars, vars
<1> QED
  BY <1>2, <1>4, <1>5, <1>6, <1>7 DEF GatewayNext, Act
-----------------------------------------------------------------------------
(* The invariant. *)

\* The invariant holds initially ...
LEMMA Initially == GatewayInit => IInv
<1> SUFFICES ASSUME GatewayInit PROVE IInv
  OBVIOUS
<1>0. Init
  BY DEF GatewayInit
<1>1. TypeOK
  BY <1>0, LeasesAssumption DEF Init, TypeOK, Zset, NoEntry
<1>2. [a \in {} |-> 0] \in Candidates
  <2>1. {} \in SUBSET Account /\ [a \in {} |-> 0] \in [{} -> UNION {1 .. MaxLimit[a] : a \in {}}]
    OBVIOUS
  <2> QED
    BY <2>1 DEF Candidates
<1>3. MaxGlobal \in Nat \ {0}
  BY LeasesAssumption
<1>4. GatewayTypeOK
  BY <1>1, <1>2, <1>3 DEF GatewayInit, GatewayTypeOK, MaxAttempts
<1>5. Cardinality({}) = 0
  BY FS_EmptySet
<1> USE DEF GatewayInit, Reserving, Holding, Forwarding, Body, Observing, Releasing, Finished
<1>6. Placed /\ Addressed
  BY DEF Placed, Addressed
<1>7. OwnEntries
  BY Tokens, <1>4 DEF OwnEntries, Own, Stored, Init
<1>8. \A r \in Request : Aged(r) /\ Even(r)
  BY DEF Aged, Even
<1>9. \A r \in Request : OneAnswer(r) /\ Fresh(r)
  BY <1>5 DEF OneAnswer, Fresh
<1> QED
  BY <1>4, <1>6, <1>7, <1>8, <1>9 DEF IInv

\* ... every step keeps it, and is a step of the leases or leaves them alone ...
LEMMA Inductive == IInv /\ [GatewayNext]_vars => IInv' /\ [Next]_leaseVars
<1> SUFFICES ASSUME IInv, [GatewayNext]_vars PROVE IInv' /\ [Next]_leaseVars
  OBVIOUS
<1> USE DEF IInv
<1>1. TypeOK /\ [Next]_leaseVars
  BY LeaseStep DEF GatewayTypeOK
<1>2. TypeOK'
  BY <1>1, TypeStep
<1>3. GatewayTypeOK' /\ Placed'
  BY <1>2, GatewayTypeStep
<1>4. Addressed'
  BY AddressedStep
<1>5. \A r \in Request : Aged(r)' /\ Even(r)'
  BY FitStep DEF Fit
<1>6. OwnEntries'
  BY OwnEntriesStep
<1>7. \A r \in Request : OneAnswer(r)' /\ Fresh(r)'
  BY AnswersStep
<1> QED
  BY <1>1, <1>3, <1>4, <1>5, <1>6, <1>7

\* ... and it always holds.
LEMMA Invariant == GatewaySpec => []IInv
BY Initially, Inductive, PTL DEF GatewaySpec

\* The types of the handler and of the leases it holds.
THEOREM GatewayTypeCorrect == GatewaySpec => []GatewayTypeOK
<1>1. IInv => GatewayTypeOK
  BY DEF IInv
<1> QED
  BY <1>1, Invariant, PTL

\* What handlers do to the leases is a behaviour of Leases with its most general
\* client: the four scripts are all the handlers use.
THEOREM LeasesImplemented == GatewaySpec => Spec
<1>1. GatewayInit => Init
  BY DEF GatewayInit
<1> QED
  BY <1>1, Inductive, Invariant, PTL DEF GatewaySpec, Spec

\* Hence the sorted sets never exceed the limits under the gateway either.
LEMMA CapacityOfGateway == GatewaySpec => []Capacity
BY LeasesImplemented, CapacityHolds, PTL
-----------------------------------------------------------------------------
(* What the invariant says of requests that run upstream. *)

\* A request that has been granted a lease, or runs on it, holds both halves.
LEMMA Holder ==
  ASSUME IInv, NEW r \in Request, pc[r] = "granted" \/ (pc[r] \in Forwarding /\ ~aborted[r])
  PROVE  account[r] \in Account /\ Holds(r)
<1>0. /\ globalLeases \in Zset /\ accountLeases \in [Account -> Zset] /\ timer[r] \in 0 .. RenewTicks
      /\ renewal[r] \in {"off", "idle", "busy"} /\ Current(r) \in Token /\ Aged(r)
      /\ account[r] \in Account
  BY Tokens DEF IInv, GatewayTypeOK, TypeOK, Placed, Holding
<1>1. globalLeases[Current(r)] \in Int /\ accountLeases[account[r]][Current(r)] \in Int
  BY <1>0 DEF Zset
<1>2. PICK n \in Int : n > 0 /\ AtLeast(r, n)
  <2>1. CASE pc[r] = "granted"
    BY <1>0, <2>1, Margins DEF Aged
  <2>2. CASE pc[r] \in Holding /\ ~aborted[r]
    <3>1. CASE renewal[r] = "idle"
      BY <1>0, <2>2, <3>1, Margins DEF Aged
    <3>2. CASE renewal[r] = "busy"
      BY <1>0, <2>2, <3>2, Margins DEF Aged
    <3> QED
      BY <1>0, <2>2, <3>1, <3>2 DEF Aged
  <2> QED
    BY <2>1, <2>2 DEF Holding
<1> QED
  BY <1>0, <1>1, <1>2 DEF AtLeast, Holds

\* The lease of a request is live for as long as it may run upstream (startRenewal).
THEOREM LeaseIsHeld == GatewaySpec => []HeldLeaseIsLive
<1>1. IInv => HeldLeaseIsLive
  BY Holder DEF HeldLeaseIsLive
<1> QED
  BY <1>1, Invariant, PTL

\* Its age keeps to the margins of the interval and the timeouts (startRenewal).
THEOREM LeaseKeepsAge == GatewaySpec => []LeaseAge
<1>1. IInv => LeaseAge
  BY DEF IInv, LeaseAge
<1> QED
  BY <1>1, Invariant, PTL

\* Requests whose current tokens are live in one sorted set are no more than its members.
LEMMA OneTokenEach ==
  ASSUME GatewayTypeOK, NEW z, NEW n \in Nat, Cardinality(Members(z)) <= n,
         NEW S \in SUBSET Request, \A r \in S : z[Current(r)] # NoEntry
  PROVE  IsFiniteSet(S) /\ Cardinality(S) \in Nat /\ Cardinality(S) <= n
<1> DEFINE f == [r \in S |-> Current(r)]
<1>1. IsFiniteSet(Members(z)) /\ IsFiniteSet(S)
  BY MembersFinite, FS_Subset
<1>2. f \in Injection(S, Members(z))
  <2>1. \A r \in S : Current(r) \in Members(z)
    BY Tokens DEF Members
  <2>2. \A r, q \in S : Current(r) = Current(q) => r = q
    BY DEF Current
  <2> QED
    BY <2>1, <2>2 DEF Injection, IsInjective
<1>3. Cardinality(S) <= Cardinality(Members(z))
  BY <1>1, <1>2, FS_Injection
<1>4. Cardinality(S) \in Nat /\ Cardinality(Members(z)) \in Nat
  BY <1>1, FS_CardinalityType
<1> QED
  BY <1>1, <1>3, <1>4

\* Requests that hold a lease fit the limits of their accounts, and the global one.
LEMMA HoldersFit ==
  ASSUME IInv, Capacity, NEW S \in SUBSET Request,
         \A r \in S : pc[r] = "granted" \/ (pc[r] \in Forwarding /\ ~aborted[r])
  PROVE  /\ IsFiniteSet(S) /\ Cardinality(S) <= MaxGlobal
         /\ \A a \in Account : (\A r \in S : account[r] = a) => Cardinality(S) <= MaxLimit[a]
<1>1. GatewayTypeOK /\ \A r \in S : account[r] \in Account /\ Holds(r)
  BY Holder DEF IInv
<1>2. MaxGlobal \in Nat /\ \A a \in Account : MaxLimit[a] \in Nat
  BY LeasesAssumption
<1>3. \A r \in S : globalLeases[Current(r)] # NoEntry
  BY <1>1 DEF Holds, NoEntry
<1>4. IsFiniteSet(S) /\ Cardinality(S) <= MaxGlobal
  BY <1>1, <1>2, <1>3, OneTokenEach DEF Capacity
<1>5. ASSUME NEW a \in Account, \A r \in S : account[r] = a PROVE Cardinality(S) <= MaxLimit[a]
  <2>1. \A r \in S : accountLeases[a][Current(r)] # NoEntry
    BY <1>1, <1>5 DEF Holds, NoEntry
  <2> QED
    BY <1>1, <1>2, <2>1, OneTokenEach DEF Capacity
<1> QED
  BY <1>4, <1>5

\* The kernel never runs more requests on an account, or in all, than the limits
\* allow: the leases that ACQUIRE counts are those of the requests that run.
THEOREM ConcurrencyLimited == GatewaySpec => []UpstreamConcurrency
<1>1. IInv /\ Capacity => UpstreamConcurrency
  <2> SUFFICES ASSUME IInv, Capacity PROVE UpstreamConcurrency
    OBVIOUS
  <2>1. \A a \in Account : Upstream(a) \in SUBSET Request
                           /\ \A r \in Upstream(a) : pc[r] \in Forwarding /\ ~aborted[r] /\ account[r] = a
    BY DEF Upstream
  <2>2. \A a \in Account : Cardinality(Upstream(a)) <= MaxLimit[a]
    BY <2>1, HoldersFit
  <2>3. Cardinality(UNION {Upstream(a) : a \in Account}) <= MaxGlobal
    <3> DEFINE S == UNION {Upstream(a) : a \in Account}
    <3>1. S \in SUBSET Request /\ \A r \in S : pc[r] \in Forwarding /\ ~aborted[r]
      BY <2>1
    <3> HIDE DEF S
    <3>2. Cardinality(S) <= MaxGlobal
      BY <3>1, HoldersFit
    <3> QED
      BY <3>2 DEF S
  <2> QED
    BY <2>2, <2>3 DEF UpstreamConcurrency
<1> QED
  BY <1>1, Invariant, CapacityOfGateway, PTL

\* A request that met no fault leaves no lease behind: every way out of the attempt
\* passes releaseLease, and no RENEW that comes late brings the lease back.
THEOREM NothingLeaks == GatewaySpec => []NoLeaseLeak
<1>1. IInv => NoLeaseLeak
  <2> SUFFICES ASSUME IInv, NEW r \in Request, pc[r] \in {"log", "done"}, faults[r] = 0,
                      NEW i \in 1 .. MaxAttempts
               PROVE  /\ globalLeases[<<r, i>>] = NoEntry
                      /\ \A a \in Account : accountLeases[a][<<r, i>>] = NoEntry
    BY DEF NoLeaseLeak
  <2>1. <<r, i>> \in Token /\ <<r, i>>[1] = r
    OBVIOUS
  <2>2. ~Stored(<<r, i>>)
    BY <2>1 DEF IInv, OwnEntries, Own, Leasing, Holding, Forwarding, Body, Observing, Releasing
  <2> QED
    BY <2>2 DEF Stored
<1> QED
  BY <1>1, Invariant, PTL

\* The client gets bytes of one upstream answer at most (the guards of the retry).
THEOREM OneAnswerOnly == GatewaySpec => []ResponseIntegrity
<1>1. IInv => ResponseIntegrity
  <2> SUFFICES ASSUME IInv, NEW r \in Request
               PROVE  /\ Cardinality(sent[r]) <= 1
                      /\ attempt[r] > 1 => ~streaming[r] /\ sent[r] \subseteq {attempt[r]}
                      /\ pc[r] \in {"log"} \cup Finished => response[r] \in {"ended", "destroyed"}
    BY DEF ResponseIntegrity
  <2>1. OneAnswer(r) /\ (sent[r] = {} \/ sent[r] = {attempt[r]})
    BY DEF IInv, OneAnswer
  <2>2. Cardinality(sent[r]) <= 1
    <3>1. Cardinality({}) = 0
      BY FS_EmptySet
    <3>2. Cardinality({attempt[r]}) = 1
      BY FS_Singleton
    <3>3. Cardinality(sent[r]) = 0 \/ Cardinality(sent[r]) = 1
      BY <2>1, <3>1, <3>2, Zenon
    <3> QED
      BY <3>3
  <2> QED
    BY <2>1, <2>2 DEF OneAnswer
<1> QED
  BY <1>1, Invariant, PTL

\* A response with bytes of an answer ends in good order only after the whole answer
\* was read: the catch breaks the connection, whatever threw.
THEOREM EndsAreWhole == GatewaySpec => NoTruncatedEnd
<1>1. ASSUME IInv, [GatewayNext]_vars, NEW q \in Request, response[q] = "sending", response'[q] = "ended"
      PROVE  pc[q] \in Observing
  <2>0. response \in [Request -> {"open", "sending", "ended", "destroyed"}] /\ OneAnswer(q) /\ GatewayTypeOK
    BY <1>1 DEF IInv, GatewayTypeOK
  <2>1. response' # response
    BY <1>1
  <2>2. PICK r \in Request : Act(r)
    BY <1>1, <2>1 DEF GatewayNext, Act, RenewRuns, StrayAcquire, Expire, Tick, vars, answerVars
  <2>3. r = q
    BY <1>1, <2>0, <2>2, Apart DEF Same
  <2>4. Act(q) /\ sent[q] # {}
    BY <1>1, <2>0, <2>2, <2>3 DEF OneAnswer
  <2> USE DEF answerVars, Goto, Move, EndResponse, LeaveAttempt, OneAnswer, Reserving
  <2>5. CASE Reserve(q)
    BY <1>1, <2>0, <2>4, <2>5 DEF Reserve, ListCandidates, ListFails, LoopAborted, TryAcquire, NoAccounts,
       AcquireRuns, AcquireRefused, Granted, AnswerError
  <2>6. CASE RenewalStep(q)
    BY <1>1, <2>6 DEF RenewalStep, RenewFires, Renewed, LeaseLost
  <2>7. CASE Forward(q)
    BY <1>1, <2>7 DEF Forward, Touch, AbortThrows, IdleTimeout, Inspect, RetryElsewhere, ReturnError,
       Throws, Observing
  <2>8. CASE Leave(q)
    BY <1>1, <2>0, <2>8 DEF Leave, Released, AfterRelease, Catch, Log
  <2>9. CASE Others(q)
    BY <1>1, <2>0, <2>4, <2>9 DEF Others, Reject, Disconnect, UpstreamAnswers, Write, EndOfBody,
       FlushEnds, Breaks, Flows, Stalls, Begin, Throws, Observing
  <2>10. CASE Faulty(q)
    BY <1>1, <2>0, <2>10 DEF Faulty, AcquireResent, RenewResent, ReleaseFails, AfterRelease, AcquireFails,
       RenewError, Crash
  <2> QED
    BY <2>4, <2>5, <2>6, <2>7, <2>8, <2>9, <2>10 DEF Act
<1>2. IInv /\ [GatewayNext]_vars =>
        \A r \in Request : response[r] = "sending" /\ response'[r] = "ended" => pc[r] \in Observing
  BY <1>1
<1> QED
  BY <1>2, Invariant, PTL DEF GatewaySpec, NoTruncatedEnd
-----------------------------------------------------------------------------
(* The refinement of Dispatch. *)

Ran(r)  == IF pc[r] \in Forwarding /\ ~aborted[r] THEN account[r] ELSE NoAccount
Said(r) == sent[r] # {} \/ response[r] = "ended"

\* But for the granting of a lease, a step of a request stops its upstream request, or
\* has something sent, or neither, and never both.
LEMMA Effects ==
  ASSUME GatewayTypeOK, NEW r \in Request, OneAnswer(r), Act(r), ~Granted(r)
  PROVE  /\ attempted' = attempted
         /\ \/ (Said(r)' <=> Said(r)) /\ Ran(r)' \in {Ran(r), NoAccount}
            \/ Said(r)' /\ Ran(r)' = Ran(r)
<1>0. /\ pc \in [Request -> Listening \cup Finished \cup {"idle", "log"}]
      /\ aborted \in [Request -> BOOLEAN] /\ account \in [Request -> Account \cup {NoAccount}]
      /\ response \in [Request -> {"open", "sending", "ended", "destroyed"}]
      /\ sent \in [Request -> SUBSET (1 .. MaxAttempts)]
  BY DEF GatewayTypeOK
<1> DEFINE Goal == /\ attempted' = attempted
                   /\ \/ (Said(r)' <=> Said(r)) /\ Ran(r)' \in {Ran(r), NoAccount}
                      \/ Said(r)' /\ Ran(r)' = Ran(r)
<1> USE DEF inputVars, triesVars, callVars, answerVars, Goto, Move, EndResponse, LeaveAttempt, Abort,
            StopTimers, OneAnswer, Reserving, Forwarding, Body, Observing, Releasing, Finished, Ran, Said
<1>1. ASSUME Reserve(r) PROVE Goal
  BY <1>0, <1>1 DEF Reserve, ListCandidates, ListFails, LoopAborted, TryAcquire, NoAccounts, AcquireRuns,
            AcquireRefused, AnswerError
<1>2. ASSUME RenewalStep(r) PROVE Goal
  BY <1>0, <1>2 DEF RenewalStep, RenewFires, Renewed, LeaseLost
<1>3. ASSUME Touch(r) \/ AbortThrows(r) \/ IdleTimeout(r) \/ Inspect(r) PROVE Goal
  BY <1>0, <1>3 DEF Touch, AbortThrows, IdleTimeout, Inspect, Throws
<1>4. ASSUME NEW f \in Failure, RetryElsewhere(r, f) \/ ReturnError(r, f) PROVE Goal
  BY <1>0, <1>4 DEF RetryElsewhere, ReturnError
<1>5. ASSUME Leave(r) PROVE Goal
  BY <1>0, <1>5 DEF Leave, Released, AfterRelease, Catch, Log
<1>6. ASSUME Reject(r) \/ Disconnect(r) \/ UpstreamAnswers(r) \/ Write(r) \/ Stalls(r) PROVE Goal
  BY <1>0, <1>6 DEF Reject, Disconnect, UpstreamAnswers, Write, Stalls
<1>7. ASSUME EndOfBody(r) \/ FlushEnds(r) \/ Breaks(r) PROVE Goal
  BY <1>0, <1>7 DEF EndOfBody, FlushEnds, Breaks, Throws
<1>8. ASSUME NEW limit \in 1 .. MaxGlobal, NEW isStream \in StreamModes, NEW gone \in BOOLEAN,
             Begin(r, limit, isStream, gone)
      PROVE  Goal
  BY <1>0, <1>8 DEF Begin
<1>9. ASSUME Faulty(r) PROVE Goal
  BY <1>0, <1>9 DEF Faulty, AcquireResent, RenewResent, ReleaseFails, AfterRelease, AcquireFails,
     RenewError, Crash
<1> HIDE DEF Goal
<1>10. ASSUME Forward(r) PROVE Goal
  BY <1>3, <1>4, <1>10 DEF Forward
<1>11. ASSUME Others(r) PROVE Goal
  BY <1>6, <1>7, <1>8, <1>11 DEF Others
<1>12. Goal
  BY <1>1, <1>2, <1>5, <1>9, <1>10, <1>11 DEF Act
<1> QED
  BY <1>12 DEF Goal

\* A step of a request that is granted no lease.
LEMMA StopsOrAnswers ==
  ASSUME IInv, NEW r \in Request, Act(r), ~Granted(r)
  PROVE  [Abstract!Next]_(Abstract!dispatchVars)
<1>1. GatewayTypeOK /\ OneAnswer(r)
  BY DEF IInv
<1> DEFINE run == [q \in Request |-> Ran(q)]
           ans == {q \in Request : Said(q)}
<1>2. \A q \in Request \ {r} : Ran(q)' = Ran(q) /\ (Said(q)' <=> Said(q))
  BY <1>1, Apart DEF Same, Ran, Said
<1>3. attempted' = attempted
  BY <1>1, Effects
<1>4. CASE (Said(r)' <=> Said(r)) /\ Ran(r)' \in {Ran(r), NoAccount}
  <2>1. ans' = ans
    BY <1>2, <1>4
  <2>2. run' = run \/ run' = [run EXCEPT ![r] = NoAccount]
    BY <1>2, <1>4
  <2>3. CASE run' = run
    BY <1>3, <2>1, <2>3 DEF Abstract!dispatchVars, Ran, Said
  <2>4. CASE run' = [run EXCEPT ![r] = NoAccount]
    <3>1. Abstract!Stop(r)
      BY <1>3, <2>1, <2>4 DEF Abstract!Stop, Ran, Said
    <3> QED
      BY <3>1 DEF Abstract!Next
  <2> QED
    BY <2>2, <2>3, <2>4
<1>5. CASE Said(r)' /\ Ran(r)' = Ran(r)
  <2>1. ans' = ans \cup {r}
    BY <1>2, <1>5
  <2>2. run' = run
    BY <1>2, <1>5
  <2>3. Abstract!Answer(r)
    BY <1>3, <2>1, <2>2 DEF Abstract!Answer, Ran, Said
  <2> QED
    BY <2>3 DEF Abstract!Next
<1> QED
  BY <1>1, <1>4, <1>5, Effects

\* Dispatch counts as this module does.
LEMMA SameCount == \A S : Abstract!Cardinality(S) = Cardinality(S)
BY DEF Abstract!Cardinality, Cardinality

\* The granting of a lease starts an upstream request where the limits leave room for
\* one, since it has a live lease already; or it uses the account up, the client gone.
LEMMA StartsOrSkips ==
  ASSUME IInv, Capacity, NEW r \in Request, Granted(r), NEW a \in Account, account[r] = a
  PROVE  Abstract!Next
<1> DEFINE run == [q \in Request |-> Ran(q)]
           ans == {q \in Request : Said(q)}
<1>0. /\ GatewayTypeOK /\ OneAnswer(r) /\ Fresh(r) /\ a # NoAccount
      /\ pc[r] = "granted"
  BY LeasesAssumption DEF IInv, Granted
<1>1. /\ pc \in [Request -> Listening \cup Finished \cup {"idle", "log"}]
      /\ attempted \in [Request -> SUBSET Account]
      /\ pc' = [pc EXCEPT ![r] = "touch"] /\ attempted' = [attempted EXCEPT ![r] = @ \cup {a}]
      /\ UNCHANGED <<aborted, account, sent, response>>
  BY <1>0 DEF Granted, Goto, answerVars, GatewayTypeOK
<1>2. Ran(r) = NoAccount /\ Ran(r)' = IF aborted[r] THEN NoAccount ELSE a
  BY <1>0, <1>1 DEF Ran, Forwarding, Body
<1>3. \A q \in Request \ {r} : Ran(q)' = Ran(q)
  BY <1>1 DEF Ran
<1>4. ans' = ans /\ ~Said(r)
  BY <1>0, <1>1 DEF Said, OneAnswer
<1>5. a \notin attempted[r] /\ Cardinality(attempted[r]) < MaxAttempts
  <2>1. /\ a \notin attempted[r] /\ Cardinality(attempted[r]) < attempt[r]
        /\ attempt[r] \in 1 .. MaxAttempts
    BY <1>0 DEF Fresh, GatewayTypeOK
  <2>2. Cardinality(attempted[r]) \in Nat
    BY <1>0, LeasesAssumption, FS_Subset, FS_CardinalityType DEF GatewayTypeOK
  <2> QED
    BY <2>1, <2>2 DEF MaxAttempts
<1>6. CASE aborted[r]
  <2>1. run' = run
    BY <1>2, <1>3, <1>6
  <2>2. Abstract!Skip(r, a)
    BY <1>1, <1>2, <1>4, <1>5, <2>1, SameCount DEF Abstract!Skip, Ran, Said
  <2> QED
    BY <2>2 DEF Abstract!Next
<1>7. CASE ~aborted[r]
  <2>1. run' = [run EXCEPT ![r] = a]
    BY <1>2, <1>3, <1>7
  <2>2. ASSUME NEW S \in SUBSET Request, r \notin S,
               \A q \in S : Ran(q) # NoAccount
        PROVE  /\ Cardinality(S) < MaxGlobal
               /\ (\A q \in S : account[q] = a) => Cardinality(S) < MaxLimit[a]
    <3> DEFINE T == S \cup {r}
    <3>1. T \in SUBSET Request
      OBVIOUS
    <3>2. \A q \in T : pc[q] = "granted" \/ (pc[q] \in Forwarding /\ ~aborted[q])
      BY <1>0, <2>2 DEF Ran
    <3>3. (\A q \in S : account[q] = a) => \A q \in T : account[q] = a
      OBVIOUS
    <3>4. IsFiniteSet(S)
      BY GatewayAssumption, FS_Subset
    <3>5. Cardinality(T) = Cardinality(S) + 1 /\ Cardinality(S) \in Nat
      BY <2>2, <3>4, FS_AddElement, FS_CardinalityType
    <3> HIDE DEF T
    <3>6. /\ Cardinality(T) <= MaxGlobal
          /\ (\A q \in T : account[q] = a) => Cardinality(T) <= MaxLimit[a]
      BY <1>0, <3>1, <3>2, HoldersFit
    <3> QED
      BY <1>0, <3>3, <3>5, <3>6, LeasesAssumption
  <2>3. Cardinality(Abstract!On(a)) < MaxLimit[a]
    <3> DEFINE S == {q \in Request : Ran(q) = a}
    <3>1. S \in SUBSET Request /\ r \notin S /\ \A q \in S : Ran(q) # NoAccount /\ account[q] = a
      BY <1>0, <1>2 DEF Ran
    <3>2. Abstract!On(a) = S
      BY DEF Abstract!On, Ran
    <3> HIDE DEF S
    <3> QED
      BY <2>2, <3>1, <3>2
  <2>4. Cardinality(Abstract!Running) < MaxGlobal
    <3> DEFINE S == {q \in Request : Ran(q) # NoAccount}
    <3>1. S \in SUBSET Request /\ r \notin S /\ \A q \in S : Ran(q) # NoAccount
      BY <1>2
    <3>2. Abstract!Running = S
      BY DEF Abstract!Running, Ran
    <3> HIDE DEF S
    <3> QED
      BY <2>2, <3>1, <3>2
  <2>5. Abstract!Start(r, a)
    BY <1>1, <1>2, <1>4, <1>5, <2>1, <2>3, <2>4, SameCount DEF Abstract!Start, Ran, Said
  <2> QED
    BY <2>5 DEF Abstract!Next
<1> QED
  BY <1>6, <1>7

\* The gateway implements Dispatch: an upstream request starts only within the limits
\* in force, MaxAttempts times at most and each time on another account, and never
\* once the client has been sent anything.
THEOREM DispatchImplemented == GatewaySpec => ImplementsDispatch
<1>1. GatewayInit => Abstract!Init
  BY DEF GatewayInit, Abstract!Init, Forwarding, Body
<1>2. IInv /\ Capacity /\ [GatewayNext]_vars => [Abstract!Next]_(Abstract!dispatchVars)
  <2> SUFFICES ASSUME IInv, Capacity, [GatewayNext]_vars
               PROVE  [Abstract!Next]_(Abstract!dispatchVars)
    OBVIOUS
  <2>1. ASSUME NEW r \in Request, Act(r) PROVE [Abstract!Next]_(Abstract!dispatchVars)
    <3>1. CASE Granted(r)
      <4>1. account[r] \in Account
        BY <3>1, Holder DEF Granted
      <4> QED
        BY <3>1, <4>1, StartsOrSkips
    <3> QED
      BY <2>1, <3>1, StopsOrAnswers
  <2>2. ASSUME UNCHANGED <<pc, account, attempted, aborted, answerVars>>
        PROVE  UNCHANGED Abstract!dispatchVars
    BY <2>2 DEF Abstract!dispatchVars, answerVars
  <2>3. ASSUME NEW m \in msgs, RenewRuns(m) PROVE UNCHANGED Abstract!dispatchVars
    BY <2>2, <2>3 DEF RenewRuns, triesVars, callVars
  <2>4. ASSUME NEW t \in Token, StrayAcquire(t) PROVE UNCHANGED Abstract!dispatchVars
    BY <2>2, <2>4 DEF StrayAcquire, triesVars, callVars
  <2>5. ASSUME NEW s \in Session, Expire(s) PROVE UNCHANGED Abstract!dispatchVars
    BY <2>2, <2>5 DEF Expire, triesVars, callVars
  <2>6. ASSUME Tick \/ UNCHANGED vars PROVE UNCHANGED Abstract!dispatchVars
    BY <2>2, <2>6 DEF Tick, triesVars, callVars, vars
  <2> QED
    BY <2>1, <2>3, <2>4, <2>5, <2>6 DEF GatewayNext, Act
<1> QED
  BY <1>1, <1>2, Invariant, CapacityOfGateway, PTL DEF GatewaySpec, ImplementsDispatch, Abstract!Spec
=============================================================================
