---------------------------- MODULE RefreshQueue ----------------------------
(***************************************************************************)
(* How the refreshes of one account are queued: enqueueAccountRefresh of   *)
(* server/lib/queues.ts, called by the gateway, the administrator and the  *)
(* periodic scheduler; processRefresh of worker/tasks.ts, which runs the   *)
(* job; and the handler of completed jobs in worker/index.ts.  Accounts    *)
(* share nothing here, so the module is about one.                         *)
(*                                                                         *)
(* The job's identifier is made of the account, so BullMQ holds one job at *)
(* most.  The dirty counter is kept as two facts: the key exists, and it   *)
(* was not incremented since the worker read its version.                  *)
(***************************************************************************)
EXTENDS Integers

CONSTANTS
  Caller,      \* concurrent executions of enqueueAccountRefresh
  NoCaller,
  MaxTries,    \* attempts of a job: 3
  MaxEvents,   \* bound: completed jobs whose handler has not run yet
  MaxCrashes   \* bound: processes that die

ASSUME RefreshAssumption ==
  /\ NoCaller \notin Caller
  /\ MaxTries \in Nat \ {0} /\ MaxEvents \in Nat \ {0} /\ MaxCrashes \in Nat

VARIABLES
  job,       \* the BullMQ job: its state, priority, data.reason and attemptsMade
  dirty,     \* the key ccm:refresh:dirty exists
  fresh,     \* dirty and not incremented since the worker read it
  lock,      \* the caller that holds the enqueue lock
  backoff,   \* the key ccm:refresh:backoff exists
  expired,   \* the account's status is credential_expired
  call,      \* of each caller: where it is, its reason, what it saw of the job
  worker,    \* where processRefresh stands, and whether its job heeds a backoff
  events,    \* completed jobs whose handler is still to look at the dirty key
  crashes,
  unserved,  \* a request was recorded and no sync has started since
  owed       \* so was one that was forced and whose call has returned, "promoted"
             \* when the call made a delayed job run at once

ghostVars == <<unserved, owed>>
keyVars   == <<dirty, fresh, backoff, expired>>
vars == <<job, keyVars, lock, call, worker, events, crashes, ghostVars>>
-----------------------------------------------------------------------------
Reason == {"manual", "request", "scheduled"}
Priority(x) == CASE x = "manual" -> 1 [] x = "request" -> 2 [] x = "scheduled" -> 20

NoJob    == [state |-> "none", priority |-> 20, reason |-> "scheduled", tries |-> 0]
NoCall   == [at |-> "idle", reason |-> "scheduled", seen |-> "none", priority |-> 20]
NoWorker == [at |-> "idle", patient |-> FALSE]
Pending  == {"waiting", "delayed"}

At(c, l) == call[c].at = l
Forced(c) == call[c].reason = "manual"
Goto(c, l) == call' = [call EXCEPT ![c].at = l]

\* The call returns or throws; the lock's release is part of its last step.
Leave(c) == call' = [call EXCEPT ![c] = NoCall] /\ lock' = NoCaller
Return(c, kept) ==
  /\ Leave(c)
  /\ owed' = IF Forced(c) /\ unserved' /\ owed # "promoted" THEN kept ELSE owed

Call(c, x) ==
  /\ At(c, "idle")
  /\ call' = [call EXCEPT ![c] = [NoCall EXCEPT !.at = "lock", !.reason = x]]
  /\ UNCHANGED <<job, keyVars, lock, worker, crashes, ghostVars>>

\* The administrator and the gateway may call at any time; the periodic
\* scheduler does when the account is due and has no backoff.
Request(c, x) == x # "scheduled" /\ Call(c, x) /\ UNCHANGED events
Periodic(c)   == ~backoff /\ ~expired /\ Call(c, "scheduled") /\ UNCHANGED events

\* The handler of 'completed' finds requests recorded, or nothing to do.
Completed(c)  == events > 0 /\ dirty /\ events' = events - 1 /\ Call(c, "request")
CompletedIdle ==
  /\ events > 0 /\ ~dirty /\ events' = events - 1
  /\ UNCHANGED <<job, keyVars, lock, call, worker, crashes, ghostVars>>

\* Mutant: nobody waits for the lock.
LockNone(c) ==
  /\ At(c, "lock") /\ Goto(c, "job") /\ lock' = c
  /\ UNCHANGED <<job, keyVars, worker, events, crashes, ghostVars>>

Lock(c) ==
  /\ At(c, "lock") /\ lock = NoCaller
  /\ Goto(c, "job") /\ lock' = c
  /\ UNCHANGED <<job, keyVars, worker, events, crashes, ghostVars>>

\* Two seconds without the lock: the call throws.
LockTimeout(c) ==
  /\ At(c, "lock") /\ lock # NoCaller
  /\ call' = [call EXCEPT ![c] = NoCall]
  /\ UNCHANGED <<job, keyVars, lock, worker, events, crashes, ghostVars>>

GetJob(c) ==
  /\ At(c, "job")
  /\ call' = [call EXCEPT ![c] =
                 [@ EXCEPT !.at = "state", !.seen = job.state, !.priority = job.priority]]
  /\ UNCHANGED <<job, keyVars, lock, worker, events, crashes, ghostVars>>

\* getState of a job that is gone is 'unknown'.
StateSeen(c) == IF call[c].seen = "none" THEN "none"
                ELSE IF job.state = "none" THEN "unknown" ELSE job.state

\* A periodic request leaves a job that will run, or runs, alone.
GetState(c) ==
  /\ At(c, "state")
  /\ IF call[c].reason = "scheduled" /\ StateSeen(c) \notin {"none", "failed"}
     THEN Leave(c)
     ELSE /\ call' = [call EXCEPT ![c] = [@ EXCEPT !.at = "record", !.seen = StateSeen(c)]]
          /\ UNCHANGED lock
  /\ UNCHANGED <<job, keyVars, worker, events, crashes, ghostVars>>

\* INCR of the dirty counter; a job seen active is left to the completed handler.
Record(c) ==
  /\ At(c, "record")
  /\ dirty' = TRUE /\ fresh' = FALSE /\ unserved' = TRUE
  /\ IF call[c].seen = "active"
     THEN Return(c, "returned") ELSE Goto(c, "apply") /\ UNCHANGED <<lock, owed>>
  /\ UNCHANGED <<job, backoff, expired, worker, events, crashes>>

\* The delay a new job gets: none, the ten seconds, or what is left of the backoff.
DelayOf(c) ==
  IF ~Forced(c) /\ (backoff \/ call[c].reason = "request") THEN "delayed" ELSE "waiting"

NewJob(c) == [state |-> DelayOf(c), priority |-> Priority(call[c].reason),
              reason |-> call[c].reason, tries |-> 0]

\* Mutant: a failed job is not removed first.
AddOnly(c) ==
  /\ At(c, "apply") /\ call[c].seen \in {"none", "failed"}
  /\ job' = IF job.state = "none" THEN NewJob(c) ELSE job
  /\ UNCHANGED unserved /\ Return(c, "returned")
  /\ UNCHANGED <<keyVars, worker, events, crashes>>

\* Add, after removing a failed job.  BullMQ ignores an add while the job exists.
Add(c) ==
  /\ At(c, "apply") /\ call[c].seen \in {"none", "failed"}
  /\ job' = IF job.state \in {"none", "failed"} THEN NewJob(c) ELSE job
  /\ UNCHANGED unserved /\ Return(c, "returned")
  /\ UNCHANGED <<keyVars, worker, events, crashes>>

Coalesces(c) == At(c, "apply") /\ call[c].seen \in Pending \cup {"unknown"}
Raises(c) == Priority(call[c].reason) < call[c].priority

\* Only a job seen delayed has its time looked at.
ThenExpedite(c) ==
  IF call[c].seen = "delayed" THEN Goto(c, "expedite") /\ UNCHANGED <<lock, owed>> ELSE Return(c, "returned")

Coalesce(c) ==
  /\ Coalesces(c) /\ ~Raises(c)
  /\ UNCHANGED unserved /\ ThenExpedite(c)
  /\ UNCHANGED <<job, keyVars, worker, events, crashes>>

ChangePriority(c) ==
  /\ Coalesces(c) /\ Raises(c) /\ job.state # "none"
  /\ job' = [job EXCEPT !.priority = Priority(call[c].reason)]
  /\ Goto(c, "data")
  /\ UNCHANGED <<keyVars, lock, worker, events, crashes, ghostVars>>

UpdateData(c) ==
  /\ At(c, "data") /\ job.state # "none"
  /\ job' = [job EXCEPT !.reason = call[c].reason]
  /\ UNCHANGED unserved /\ ThenExpedite(c)
  /\ UNCHANGED <<keyVars, worker, events, crashes>>

\* Both throw when the job is gone.
JobMissing(c) ==
  /\ (Coalesces(c) /\ Raises(c)) \/ At(c, "data")
  /\ job.state = "none" /\ Leave(c)
  /\ UNCHANGED <<job, keyVars, worker, events, crashes, ghostVars>>

\* A forced request makes a delayed job run at once; another may bring its time
\* forward, which leaves it delayed.
Expedite(c) ==
  /\ At(c, "expedite")
  /\ job' = IF job.state = "delayed" /\ DelayOf(c) = "waiting"
            THEN [job EXCEPT !.state = "waiting"] ELSE job
  /\ UNCHANGED unserved /\ Return(c, IF job' # job THEN "promoted" ELSE "returned")
  /\ UNCHANGED <<keyVars, worker, events, crashes>>
-----------------------------------------------------------------------------
\* BullMQ hands the job to processRefresh, which keeps the data it had then.
Take ==
  /\ worker.at = "idle" /\ job.state = "waiting" /\ events < MaxEvents
  /\ worker' = [at |-> "version", patient |-> job.tries > 0 \/ job.reason # "manual"]
  /\ job' = [job EXCEPT !.state = "active"]
  /\ UNCHANGED <<keyVars, lock, call, events, crashes, ghostVars>>

ReadVersion ==
  /\ worker.at = "version" /\ worker' = [worker EXCEPT !.at = "backoff"]
  /\ fresh' = dirty
  /\ UNCHANGED <<job, dirty, backoff, expired, lock, call, events, crashes, ghostVars>>

MustWait == backoff /\ worker.patient

PutOff ==
  /\ worker.at = "backoff" /\ MustWait
  /\ worker' = NoWorker /\ fresh' = FALSE
  /\ job' = [job EXCEPT !.state = "delayed"]
  /\ UNCHANGED <<dirty, backoff, expired, lock, call, events, crashes, ghostVars>>

SyncStarts ==
  /\ worker.at = "backoff" /\ ~MustWait
  /\ worker' = [at |-> "sync", patient |-> FALSE]
  /\ unserved' = FALSE /\ owed' = "none"
  /\ UNCHANGED <<job, keyVars, lock, call, events, crashes>>

\* syncAccount returns; unless its snapshot was refused it deletes the backoff.
SyncSucceeds(saved) ==
  /\ worker.at = "sync" /\ worker' = [worker EXCEPT !.at = "clear"]
  /\ backoff' = (backoff /\ ~saved) /\ expired' = (expired /\ ~saved)
  /\ UNCHANGED <<job, dirty, fresh, lock, call, events, crashes, ghostVars>>

\* Mutant: one attempt too many.
ExhaustedLate(outcome) == outcome = "expired" \/ job.tries >= MaxTries
Exhausted(outcome) == outcome = "expired" \/ job.tries + 1 >= MaxTries

\* It throws: markSyncFailure has run, or not when the account's lock was busy or
\* lost.  An expired credential is not retried.
SyncFails(outcome) ==
  /\ worker.at = "sync" /\ worker' = NoWorker /\ fresh' = FALSE
  /\ backoff' = (backoff \/ outcome # "unmarked")
  /\ expired' = IF outcome = "unmarked" THEN expired ELSE outcome = "expired"
  /\ job' = [job EXCEPT !.tries = @ + 1,
               !.state = IF Exhausted(outcome) THEN "failed" ELSE "delayed"]
  /\ UNCHANGED <<dirty, lock, call, events, crashes, ghostVars>>

\* Mutant: the dirty key is deleted whatever its version.
ClearAlways ==
  /\ worker.at = "clear" /\ worker' = [worker EXCEPT !.at = "finish"]
  /\ dirty' = FALSE /\ fresh' = FALSE
  /\ UNCHANGED <<job, backoff, expired, lock, call, events, crashes, ghostVars>>

Clear ==
  /\ worker.at = "clear" /\ worker' = [worker EXCEPT !.at = "finish"]
  /\ dirty' = (dirty /\ ~fresh) /\ fresh' = FALSE
  /\ UNCHANGED <<job, backoff, expired, lock, call, events, crashes, ghostVars>>

Finish ==
  /\ worker.at = "finish" /\ worker' = NoWorker
  /\ job' = NoJob /\ events' = events + 1
  /\ UNCHANGED <<keyVars, lock, call, crashes, ghostVars>>

DelayElapses ==
  /\ job.state = "delayed" /\ job' = [job EXCEPT !.state = "waiting"]
  /\ UNCHANGED <<keyVars, lock, call, worker, events, crashes, ghostVars>>

BackoffExpires ==
  /\ backoff /\ backoff' = FALSE
  /\ UNCHANGED <<job, dirty, fresh, expired, lock, call, worker, events, crashes, ghostVars>>
-----------------------------------------------------------------------------
\* The worker process dies: the job is found stalled and run again, or fails;
\* handlers that have not run are lost.
WorkerCrashes ==
  /\ crashes < MaxCrashes /\ crashes' = crashes + 1
  /\ worker' = NoWorker /\ fresh' = FALSE /\ events' = 0
  /\ IF job.state = "active"
     THEN \E s \in {"waiting", "failed"} : job' = [job EXCEPT !.state = s] ELSE UNCHANGED job
  /\ UNCHANGED <<dirty, backoff, expired, lock, call, ghostVars>>

CallerCrashes(c) ==
  /\ crashes < MaxCrashes /\ crashes' = crashes + 1
  /\ ~At(c, "idle") /\ call' = [call EXCEPT ![c] = NoCall]
  /\ UNCHANGED <<job, keyVars, lock, worker, events, ghostVars>>

\* The lock of a dead caller runs out.
LockExpires ==
  /\ lock # NoCaller /\ call[lock].at \in {"idle", "lock"} /\ lock' = NoCaller
  /\ UNCHANGED <<job, keyVars, call, worker, events, crashes, ghostVars>>
-----------------------------------------------------------------------------
Init ==
  /\ job = NoJob /\ dirty = FALSE /\ fresh = FALSE
  /\ lock = NoCaller /\ backoff = FALSE /\ expired = FALSE
  /\ call = [c \in Caller |-> NoCall]
  /\ worker = NoWorker /\ events = 0 /\ crashes = 0
  /\ unserved = FALSE /\ owed = "none"

Enqueue(c) ==
  \/ GetJob(c) \/ GetState(c) \/ Record(c) \/ Add(c) \/ Coalesce(c)
  \/ ChangePriority(c) \/ UpdateData(c) \/ JobMissing(c) \/ Expedite(c)

Process ==
  \/ Take \/ ReadVersion \/ PutOff \/ SyncStarts \/ Clear \/ Finish
  \/ \E saved \in BOOLEAN : SyncSucceeds(saved)
  \/ \E outcome \in {"marked", "expired", "unmarked"} : SyncFails(outcome)

CompletedHandler == CompletedIdle \/ \E c \in Caller : Completed(c)

Next ==
  \/ \E c \in Caller :
       \/ \E x \in Reason : Request(c, x)
       \/ Periodic(c) \/ Lock(c) \/ LockTimeout(c)
       \/ Enqueue(c) \/ CallerCrashes(c)
  \/ CompletedHandler \/ Process \/ DelayElapses \/ BackoffExpires
  \/ WorkerCrashes \/ LockExpires

Spec == Init /\ [][Next]_vars

\* The processes run, keys expire, the periodic scheduler comes back and some
\* caller that waits gets the lock.
LiveSpec ==
  /\ Spec
  /\ WF_vars(\E c \in Caller : Enqueue(c)) /\ SF_vars(\E c \in Caller : Lock(c))
  /\ SF_vars(\E c \in Caller : Periodic(c)) /\ SF_vars(CompletedHandler)
  /\ WF_vars(Process) /\ WF_vars(DelayElapses) /\ WF_vars(BackoffExpires) /\ WF_vars(LockExpires)
-----------------------------------------------------------------------------
JobState == {"none", "failed", "active"} \cup Pending

TypeOK ==
  /\ job \in [state : JobState, priority : {1, 2, 20}, reason : Reason, tries : 0 .. MaxTries]
  /\ {dirty, fresh, backoff, expired, unserved} \subseteq BOOLEAN /\ owed \in {"none", "returned", "promoted"}
  /\ lock \in Caller \cup {NoCaller}
  /\ call \in [Caller -> [at : {"idle", "lock", "job", "state", "record", "apply", "data",
                                "expedite"},
                          reason : Reason, seen : JobState \cup {"unknown"},
                          priority : {1, 2, 20}]]
  /\ worker \in [at : {"idle", "version", "backoff", "sync", "clear", "finish"},
                 patient : BOOLEAN]
  /\ events \in 0 .. MaxEvents /\ crashes \in 0 .. MaxCrashes

(***************************************************************************)
(* A sync clears only the requests recorded before it started.             *)
(***************************************************************************)
ClearsOnlySeen == [][dirty /\ ~dirty' => ~unserved]_vars

(***************************************************************************)
(* Coalescing never lowers the priority of a job that waits to run.        *)
(***************************************************************************)
PriorityNeverLowered ==
  [][job.state \in Pending /\ job'.state \in Pending => job'.priority <= job.priority]_vars

(***************************************************************************)
(* Every recorded request is followed by a sync that starts after it, even *)
(* when its wake-up is lost or a process dies: the periodic scheduler is   *)
(* the safety net, except for an account whose credential has expired.     *)
(***************************************************************************)
RequestServed == unserved ~> (~unserved \/ expired)

(***************************************************************************)
(* docs/api-contract.md:76: "enabling a quota-paused account requests an   *)
(* immediate refresh".  A forced request that has returned has a job to    *)
(* run it, a run that will look at the dirty key, or was served.           *)
(***************************************************************************)
ForcedHasJob ==
  owed # "none" /\ worker.at = "idle" /\ events = 0 /\ (\A c \in Caller : At(c, "idle"))
    /\ crashes = 0 => job.state # "none"

(***************************************************************************)
(* tests/accounts-queues.test.ts:77: "promotes an existing delayed job     *)
(* immediately for a forced manual refresh": the job so promoted is not    *)
(* delayed again before it has synced.                                     *)
(***************************************************************************)
ForcedNotPutOff ==
  [][owed = "promoted" => ~(worker.at = "backoff" /\ job'.state = "delayed")]_vars
=============================================================================
