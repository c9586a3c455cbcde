------------------------- MODULE RefreshQueueProofs -------------------------
(***************************************************************************)
(* Proofs about the refresh queue of an account, for any number of         *)
(* callers, attempts, pending completions and crashes: a sync clears only  *)
(* the requests it has seen, and coalescing lowers no priority.            *)
(***************************************************************************)
EXTENDS RefreshQueue, TLAPS

USE RefreshAssumption
-----------------------------------------------------------------------------
(* The inductive invariant, by what it is about. *)

\* The job is active exactly while processRefresh runs, and then an attempt and a
\* place among the completed are left for it.
Running ==
  /\ worker.at # "idle" <=> job.state = "active"
  /\ worker.at # "idle" => events < MaxEvents
  /\ job.state \in {"active"} \cup Pending => job.tries < MaxTries

\* A caller past its wait for the lock has it.
Exclusive == \A c \in Caller : call[c].at \notin {"idle", "lock"} => lock = c

\* What a caller read of the job's priority is true until it acts upon it, or the job
\* is gone.
Informed ==
  \A c \in Caller : call[c].at \in {"state", "record", "apply"} =>
    job.state = "none" \/ job.priority = call[c].priority

\* A version the worker read is current only if no request came after the sync began.
Seen == fresh /\ worker.at \in {"sync", "clear"} => ~unserved

Calls == [Caller -> [at : {"idle", "lock", "job", "state", "record", "apply", "data", "expedite"},
                     reason : Reason, seen : JobState \cup {"unknown"}, priority : {1, 2, 20}]]

IInv == TypeOK /\ Running /\ Exclusive /\ Informed /\ Seen
-----------------------------------------------------------------------------
\* The records, by their fields.
LEMMA Fields ==
  ASSUME TypeOK
  PROVE  /\ job.state \in JobState /\ job.priority \in {1, 2, 20} /\ job.reason \in Reason
         /\ job.tries \in 0 .. MaxTries
         /\ worker.at \in {"idle", "version", "backoff", "sync", "clear", "finish"}
         /\ worker.patient \in BOOLEAN
         /\ \A c \in Caller :
              /\ call[c].at \in {"idle", "lock", "job", "state", "record", "apply", "data", "expedite"}
              /\ call[c].reason \in Reason /\ call[c].seen \in JobState \cup {"unknown"}
              /\ call[c].priority \in {1, 2, 20}
BY DEF TypeOK

\* The invariant holds initially ...
LEMMA Initially == Init => IInv
<1> SUFFICES ASSUME Init PROVE IInv
  OBVIOUS
<1>1. NoCall \in [at : {"idle"}, reason : Reason, seen : JobState, priority : {1, 2, 20}]
  BY DEF NoCall, Reason, JobState
<1>2. NoJob \in [state : JobState, priority : {1, 2, 20}, reason : Reason, tries : 0 .. MaxTries]
  BY DEF NoJob, Reason, JobState
<1>3. TypeOK
  <2>1. call \in Calls
    BY <1>1 DEF Init, Calls
  <2>2. worker \in [at : {"idle"}, patient : BOOLEAN]
    BY DEF Init, NoWorker
  <2>3. events \in 0 .. MaxEvents /\ crashes \in 0 .. MaxCrashes
    BY DEF Init
  <2> QED
    BY <1>2, <2>1, <2>2, <2>3 DEF Init, TypeOK, Calls
<1>4. Running /\ Exclusive /\ Informed /\ Seen
  BY DEF Init, Running, Exclusive, Informed, Seen, NoJob, NoCall, NoWorker, Pending
<1> QED
  BY <1>3, <1>4 DEF IInv

\* A request's priority, and the job it makes.
LEMMA NewJobs ==
  ASSUME TypeOK, NEW c \in Caller
  PROVE  /\ \A x \in Reason : Priority(x) \in {1, 2, 20}
         /\ NewJob(c) \in [state : JobState, priority : {1, 2, 20}, reason : Reason, tries : 0 .. MaxTries]
         /\ NewJob(c).state \in Pending /\ NewJob(c).tries = 0
<1>1. \A x \in Reason : Priority(x) \in {1, 2, 20}
  BY DEF Reason, Priority
<1> QED
  BY <1>1, Fields DEF NewJob, DelayOf, Pending, JobState

-----------------------------------------------------------------------------
(* Types. *)

\* Every step keeps the types.
LEMMA TypeStep ==
  ASSUME TypeOK, Running, [Next]_vars
  PROVE  TypeOK'
<1> DEFINE Jobs == [state : JobState, priority : {1, 2, 20}, reason : Reason, tries : 0 .. MaxTries]
           Workers == [at : {"idle", "version", "backoff", "sync", "clear", "finish"}, patient : BOOLEAN]
           Flags == {dirty', fresh', backoff', expired', unserved'} \subseteq BOOLEAN
                      /\ owed' \in {"none", "returned", "promoted"}
<1>1. /\ job \in Jobs /\ worker \in Workers /\ call \in Calls
      /\ {dirty, fresh, backoff, expired, unserved} \subseteq BOOLEAN
      /\ owed \in {"none", "returned", "promoted"} /\ lock \in Caller \cup {NoCaller}
      /\ events \in 0 .. MaxEvents /\ crashes \in 0 .. MaxCrashes
  BY DEF TypeOK, Calls
<1>2. ASSUME job' \in Jobs, worker' \in Workers, call' \in Calls, Flags, lock' \in Caller \cup {NoCaller},
             events' \in 0 .. MaxEvents, crashes' \in 0 .. MaxCrashes
      PROVE  TypeOK'
  BY <1>2 DEF TypeOK, Calls
<1>3. ASSUME NEW c \in Caller
      PROVE  /\ [call EXCEPT ![c] = NoCall] \in Calls
             /\ \A x \in Reason :
                  [call EXCEPT ![c] = [NoCall EXCEPT !.at = "lock", !.reason = x]] \in Calls
             /\ \A l \in {"job", "record", "apply", "data", "expedite"} :
                  [call EXCEPT ![c].at = l] \in Calls
             /\ [call EXCEPT ![c] = [@ EXCEPT !.at = "state", !.seen = job.state, !.priority = job.priority]]
                  \in Calls
             /\ [call EXCEPT ![c] = [@ EXCEPT !.at = "record", !.seen = StateSeen(c)]] \in Calls
  <2>1. [call EXCEPT ![c] = NoCall] \in Calls
    BY <1>1 DEF Calls, NoCall, Reason, JobState
  <2>2. \A x \in Reason : [call EXCEPT ![c] = [NoCall EXCEPT !.at = "lock", !.reason = x]] \in Calls
    BY <1>1 DEF Calls, NoCall, Reason, JobState
  <2>3. \A l \in {"job", "record", "apply", "data", "expedite"} : [call EXCEPT ![c].at = l] \in Calls
    BY <1>1 DEF Calls
  <2>4. [call EXCEPT ![c] = [@ EXCEPT !.at = "state", !.seen = job.state, !.priority = job.priority]]
          \in Calls
    BY <1>1 DEF Calls
  <2>5. StateSeen(c) \in JobState \cup {"unknown"}
    BY <1>1 DEF StateSeen, JobState
  <2>6. [call EXCEPT ![c] = [@ EXCEPT !.at = "record", !.seen = StateSeen(c)]] \in Calls
    BY <1>1, <2>5 DEF Calls
  <2> QED
    BY <2>1, <2>2, <2>3, <2>4, <2>6
<1> USE <1>1, <1>2 DEF keyVars, ghostVars, Goto, Leave, At
<1>4. ASSUME NEW c \in Caller, NEW x \in Reason, Call(c, x), events' \in 0 .. MaxEvents PROVE TypeOK'
  BY <1>3, <1>4 DEF Call
<1>5. ASSUME NEW c \in Caller, Lock(c) \/ LockTimeout(c) PROVE TypeOK'
  BY <1>3, <1>5 DEF Lock, LockTimeout
<1>6. ASSUME NEW c \in Caller, GetJob(c) \/ GetState(c) PROVE TypeOK'
  BY <1>3, <1>6 DEF GetJob, GetState
<1>7. ASSUME NEW c \in Caller, NEW kept \in {"returned", "promoted"}, Return(c, kept)
      PROVE  call' \in Calls /\ lock' \in Caller \cup {NoCaller} /\ owed' \in {"none", "returned", "promoted"}
  BY <1>3, <1>7 DEF Return
<1>8. ASSUME NEW c \in Caller, Record(c) PROVE TypeOK'
  BY <1>3, <1>7, <1>8 DEF Record
<1>9. ASSUME NEW c \in Caller, Add(c) PROVE TypeOK'
  <2>1. job' \in Jobs
    BY <1>9, NewJobs DEF Add
  <2> QED
    BY <1>7, <1>9, <2>1 DEF Add
<1>10. ASSUME NEW c \in Caller, ThenExpedite(c)
       PROVE  call' \in Calls /\ lock' \in Caller \cup {NoCaller} /\ owed' \in {"none", "returned", "promoted"}
  BY <1>3, <1>7, <1>10 DEF ThenExpedite
<1>11. ASSUME NEW c \in Caller, Coalesce(c) PROVE TypeOK'
  BY <1>10, <1>11 DEF Coalesce
<1>12. ASSUME NEW c \in Caller, ChangePriority(c) \/ UpdateData(c) PROVE job' \in Jobs
  <2>1. call[c].reason \in Reason /\ Priority(call[c].reason) \in {1, 2, 20}
    BY Fields, NewJobs
  <2> QED
    BY <1>12, <2>1 DEF ChangePriority, UpdateData
<1>13. ASSUME NEW c \in Caller, ChangePriority(c) PROVE TypeOK'
  BY <1>3, <1>12, <1>13 DEF ChangePriority
<1>14. ASSUME NEW c \in Caller, UpdateData(c) PROVE TypeOK'
  BY <1>10, <1>12, <1>14 DEF UpdateData
<1>15. ASSUME NEW c \in Caller, JobMissing(c) PROVE TypeOK'
  BY <1>3, <1>15 DEF JobMissing
<1>29. ASSUME NEW c \in Caller, CallerCrashes(c) PROVE TypeOK'
  <2>1. crashes' \in 0 .. MaxCrashes
    BY <1>29 DEF CallerCrashes
  <2> QED
    BY <1>3, <1>29, <2>1 DEF CallerCrashes
<1>16. ASSUME NEW c \in Caller, Expedite(c) PROVE TypeOK'
  <2>1. job' \in Jobs
    BY <1>16 DEF Expedite, JobState, Pending
  <2>2. \E kept \in {"returned", "promoted"} : Return(c, kept)
    BY <1>16 DEF Expedite
  <2> QED
    BY <1>7, <1>16, <2>1, <2>2 DEF Expedite
<1>17. CASE Take
  BY <1>17 DEF Take, JobState
<1>18. CASE ReadVersion
  BY <1>18 DEF ReadVersion
<1>30. CASE SyncStarts
  <2>1. worker' \in Workers
    BY <1>30 DEF SyncStarts
  <2> QED
    BY <1>30, <2>1 DEF SyncStarts
<1>19. CASE PutOff
  BY <1>19 DEF PutOff, JobState, Pending, NoWorker
<1>20. ASSUME NEW saved \in BOOLEAN, SyncSucceeds(saved) PROVE TypeOK'
  BY <1>20 DEF SyncSucceeds
<1>21. ASSUME NEW outcome \in {"marked", "expired", "unmarked"}, SyncFails(outcome) PROVE TypeOK'
  <2>1. job.tries + 1 \in 0 .. MaxTries
    BY <1>21 DEF SyncFails, Running
  <2>2. job' \in Jobs
    BY <1>21, <2>1 DEF SyncFails, JobState, Pending
  <2> QED
    BY <1>21, <2>2 DEF SyncFails, NoWorker
<1>22. CASE Clear
  BY <1>22 DEF Clear
<1>23. CASE Finish
  BY <1>23 DEF Finish, Running, NoWorker, NoJob, JobState, Reason
<1>24. CASE CompletedIdle
  BY <1>24 DEF CompletedIdle
<1>25. CASE DelayElapses \/ BackoffExpires
  BY <1>25 DEF DelayElapses, BackoffExpires, JobState, Pending
<1>26. CASE WorkerCrashes
  <2>1. crashes' \in 0 .. MaxCrashes /\ events' \in 0 .. MaxEvents
    BY <1>26 DEF WorkerCrashes
  <2>2. job' \in Jobs
    BY <1>26 DEF WorkerCrashes, JobState, Pending
  <2>3. worker' \in Workers
    BY <1>26 DEF WorkerCrashes, NoWorker
  <2> QED
    BY <1>26, <2>1, <2>2, <2>3 DEF WorkerCrashes
<1>27. CASE LockExpires \/ UNCHANGED vars
  BY <1>27 DEF LockExpires, vars
<1>28. ASSUME NEW c \in Caller, (\E x \in Reason : Request(c, x)) \/ Periodic(c) \/ Completed(c)
       PROVE  TypeOK'
  BY <1>4, <1>28 DEF Request, Periodic, Completed, Reason
<1> QED
  BY <1>5, <1>6, <1>8, <1>9, <1>11, <1>13, <1>14, <1>15, <1>16, <1>17, <1>18, <1>19, <1>20, <1>21, <1>22,
     <1>23, <1>24, <1>25, <1>26, <1>27, <1>28, <1>29, <1>30 DEF Next, Enqueue, Process, CompletedHandler
-----------------------------------------------------------------------------
(* The rest of the invariant. *)

\* Only the worker starts and ends an active job, and callers leave its attempts alone.
LEMMA RunningStep ==
  ASSUME TypeOK, Running, [Next]_vars
  PROVE  Running'
<1>0. /\ job \in [state : JobState, priority : {1, 2, 20}, reason : Reason, tries : 0 .. MaxTries]
      /\ worker \in [at : {"idle", "version", "backoff", "sync", "clear", "finish"}, patient : BOOLEAN]
      /\ events \in 0 .. MaxEvents
  BY DEF TypeOK
<1> USE DEF keyVars, ghostVars, Running, JobState, Pending
<1>1. ASSUME UNCHANGED <<job, worker>>, events' <= events, events' \in Nat PROVE Running'
  BY <1>0, <1>1
<1>2. ASSUME NEW c \in Caller,
             \/ \E x \in Reason : Request(c, x)
             \/ Periodic(c) \/ Lock(c) \/ LockTimeout(c) \/ GetJob(c) \/ GetState(c) \/ Record(c)
             \/ Coalesce(c) \/ JobMissing(c) \/ CallerCrashes(c)
      PROVE  Running'
  BY <1>0, <1>1, <1>2 DEF Request, Periodic, Call, Lock, LockTimeout, GetJob, GetState, Record, Coalesce,
     JobMissing, CallerCrashes
<1>3. CASE CompletedHandler
  BY <1>0, <1>1, <1>3 DEF CompletedHandler, Completed, CompletedIdle, Call
<1>4. ASSUME NEW c \in Caller, Add(c) PROVE Running'
  BY <1>0, <1>4, NewJobs DEF Add
<1>5. ASSUME NEW c \in Caller, ChangePriority(c) \/ UpdateData(c) \/ Expedite(c) PROVE Running'
  BY <1>0, <1>5 DEF ChangePriority, UpdateData, Expedite
<1>6. CASE Take \/ ReadVersion \/ PutOff \/ SyncStarts \/ Clear
  BY <1>0, <1>6 DEF Take, ReadVersion, PutOff, SyncStarts, Clear, NoWorker
<1>7. CASE Finish
  BY <1>0, <1>7 DEF Finish, NoWorker, NoJob
<1>8. ASSUME NEW saved \in BOOLEAN, SyncSucceeds(saved) PROVE Running'
  BY <1>0, <1>8 DEF SyncSucceeds
<1>9. ASSUME NEW outcome \in {"marked", "expired", "unmarked"}, SyncFails(outcome) PROVE Running'
  <2>1. job.tries + 1 \in Nat /\ job.tries < MaxTries
    BY <1>0, <1>9 DEF SyncFails
  <2> QED
    BY <1>0, <1>9, <2>1 DEF SyncFails, NoWorker, Exhausted
<1>10. CASE DelayElapses \/ BackoffExpires \/ LockExpires \/ UNCHANGED vars
  BY <1>0, <1>10 DEF DelayElapses, BackoffExpires, LockExpires, vars
<1>11. CASE WorkerCrashes
  BY <1>0, <1>11 DEF WorkerCrashes, NoWorker
<1> QED
  BY <1>2, <1>3, <1>4, <1>5, <1>6, <1>7, <1>8, <1>9, <1>10, <1>11 DEF Next, Enqueue, Process

\* The lock is taken only when it is free, and freed by its holder or once that died.
LEMMA ExclusiveStep ==
  ASSUME TypeOK, Exclusive, [Next]_vars
  PROVE  Exclusive'
<1>0. call \in Calls
  BY DEF TypeOK, Calls
<1> USE DEF Exclusive, Calls, keyVars, ghostVars, Goto, At
<1>1. ASSUME UNCHANGED <<call, lock>> PROVE Exclusive'
  BY <1>1
<1>2. ASSUME NEW c \in Caller, call[c].at \notin {"idle", "lock"}, \A d \in Caller \ {c} : call'[d] = call[d],
             UNCHANGED lock \/ call'[c].at = "idle"
      PROVE  Exclusive'
  BY <1>0, <1>2
<1>3. ASSUME NEW c \in Caller, Leave(c), call[c].at \notin {"idle", "lock"} PROVE Exclusive'
  BY <1>0, <1>2, <1>3 DEF Leave, NoCall
<1>4. ASSUME NEW c \in Caller, NEW x, Call(c, x) PROVE Exclusive'
  <2>1. call' = [call EXCEPT ![c] = [NoCall EXCEPT !.at = "lock", !.reason = x]] /\ lock' = lock
    BY <1>4 DEF Call
  <2>2. [NoCall EXCEPT !.at = "lock", !.reason = x].at = "lock"
    BY DEF NoCall
  <2> QED
    BY <1>0, <2>1, <2>2
<1>11. ASSUME NEW c \in Caller, Lock(c) PROVE Exclusive'
  <2>1. \A d \in Caller : call[d].at \in {"idle", "lock"}
    BY <1>11 DEF Lock
  <2> QED
    BY <1>0, <1>11, <2>1 DEF Lock
<1>12. ASSUME NEW c \in Caller, LockTimeout(c) PROVE Exclusive'
  BY <1>0, <1>12 DEF LockTimeout, NoCall
<1>5. ASSUME NEW c \in Caller, GetJob(c) \/ GetState(c) \/ JobMissing(c) PROVE Exclusive'
  BY <1>0, <1>2, <1>3, <1>5 DEF GetJob, GetState, JobMissing, Coalesces
<1>6. ASSUME NEW c \in Caller, Record(c) \/ Add(c) \/ Coalesce(c) \/ ChangePriority(c) PROVE Exclusive'
  BY <1>0, <1>2, <1>3, <1>6 DEF Record, Add, Coalesce, ChangePriority, Coalesces, ThenExpedite, Return
<1>7. ASSUME NEW c \in Caller, UpdateData(c) \/ Expedite(c) PROVE Exclusive'
  BY <1>0, <1>2, <1>3, <1>7 DEF UpdateData, Expedite, ThenExpedite, Return
<1>8. ASSUME NEW c \in Caller, CallerCrashes(c) PROVE Exclusive'
  BY <1>0, <1>8 DEF CallerCrashes, NoCall
<1>9. CASE LockExpires
  BY <1>0, <1>9 DEF LockExpires
<1>10. CASE Process \/ CompletedIdle \/ DelayElapses \/ BackoffExpires \/ WorkerCrashes \/ UNCHANGED vars
  BY <1>1, <1>10 DEF Process, Take, ReadVersion, PutOff, SyncStarts, Clear, Finish, SyncSucceeds,
     SyncFails, CompletedIdle, DelayElapses, BackoffExpires, WorkerCrashes, vars
<1> QED
  BY <1>4, <1>5, <1>6, <1>7, <1>8, <1>9, <1>10, <1>11, <1>12
     DEF Next, Enqueue, CompletedHandler, Request, Periodic, Completed

\* Between what a caller reads of the job and what it does to it, nobody else but the
\* worker touches it, and the worker changes no priority but by removing the job.
LEMMA InformedStep ==
  ASSUME TypeOK, Running, Exclusive, Informed, [Next]_vars
  PROVE  Informed'
<1>0. call \in Calls
      /\ job \in [state : JobState, priority : {1, 2, 20}, reason : Reason, tries : 0 .. MaxTries]
  BY DEF TypeOK, Calls
<1> USE DEF Informed, Calls, keyVars, ghostVars, Goto, At
<1>1. ASSUME UNCHANGED call,
             job'.state = "none" \/ (job.state # "none" /\ job'.priority = job.priority)
      PROVE  Informed'
  BY <1>1
<1>2. ASSUME NEW c \in Caller, \A d \in Caller \ {c} : call'[d] = call[d] /\ call[d].at \in {"idle", "lock"},
             call'[c].at \notin {"state", "record", "apply"}
      PROVE  Informed'
  BY <1>0, <1>2
<1>3. ASSUME NEW c \in Caller, call[c].at \notin {"idle", "lock"}
      PROVE  \A d \in Caller \ {c} : call[d].at \in {"idle", "lock"}
  BY <1>3 DEF Exclusive
<1>4. ASSUME NEW c \in Caller, \A d \in Caller \ {c} : call'[d] = call[d], UNCHANGED job,
             call'[c].at \notin {"state", "record", "apply"} \/ (call'[c].priority = job.priority)
                \/ (call[c].at \in {"state", "record", "apply"} /\ call'[c].priority = call[c].priority)
      PROVE  Informed'
  BY <1>0, <1>4
<1>5. ASSUME NEW c \in Caller, NEW x, Call(c, x) PROVE Informed'
  <2>1. call' = [call EXCEPT ![c] = [NoCall EXCEPT !.at = "lock", !.reason = x]] /\ job' = job
    BY <1>5 DEF Call
  <2>2. [NoCall EXCEPT !.at = "lock", !.reason = x].at = "lock"
    BY DEF NoCall
  <2> QED
    BY <1>0, <1>4, <2>1, <2>2
<1>6. ASSUME NEW c \in Caller, Lock(c) \/ LockTimeout(c) \/ CallerCrashes(c) \/ JobMissing(c) PROVE Informed'
  BY <1>0, <1>4, <1>6 DEF Lock, LockTimeout, CallerCrashes, JobMissing, NoCall, Leave
<1>7. ASSUME NEW c \in Caller, GetJob(c) PROVE Informed'
  <2>1. call'[c].priority = job.priority /\ \A d \in Caller \ {c} : call'[d] = call[d]
    BY <1>0, <1>7 DEF GetJob
  <2> QED
    BY <1>4, <1>7, <2>1 DEF GetJob
<1>8. ASSUME NEW c \in Caller, GetState(c) \/ Record(c) PROVE Informed'
  <2>1. /\ \A d \in Caller \ {c} : call'[d] = call[d]
        /\ call'[c].at = "idle" \/ call'[c].priority = call[c].priority
    <3>1. CASE GetState(c)
      <4>1. call' = [call EXCEPT ![c] = NoCall]
              \/ call' = [call EXCEPT ![c] = [@ EXCEPT !.at = "record", !.seen = StateSeen(c)]]
        BY <3>1 DEF GetState, Leave
      <4>2. NoCall.at = "idle"
            /\ [call[c] EXCEPT !.at = "record", !.seen = StateSeen(c)].priority = call[c].priority
        BY <1>0 DEF NoCall
      <4> QED
        BY <1>0, <4>1, <4>2
    <3>2. CASE Record(c)
      BY <1>0, <3>2 DEF Record, Leave, Return, NoCall
    <3> QED
      BY <1>8, <3>1, <3>2
  <2> QED
    BY <1>4, <1>8, <2>1 DEF GetState, Record
<1>9. ASSUME NEW c \in Caller, Add(c) \/ Coalesce(c) \/ ChangePriority(c) PROVE Informed'
  <2>1. call[c].at = "apply"
    BY <1>9 DEF Add, Coalesce, ChangePriority, Coalesces
  <2>2. \A d \in Caller \ {c} : call'[d] = call[d] /\ call'[c].at \in {"idle", "expedite", "data"}
    BY <1>0, <1>9 DEF Add, Coalesce, ChangePriority, ThenExpedite, Return, Leave, NoCall
  <2>3. call'[c].at \in {"idle", "expedite", "data"}
    BY <1>0, <1>9 DEF Add, Coalesce, ChangePriority, ThenExpedite, Return, Leave, NoCall
  <2> QED
    BY <1>2, <1>3, <2>1, <2>2, <2>3
<1>10. ASSUME NEW c \in Caller, UpdateData(c) \/ Expedite(c) PROVE Informed'
  <2>1. call[c].at \in {"data", "expedite"}
    BY <1>10 DEF UpdateData, Expedite
  <2>2. \A d \in Caller \ {c} : call'[d] = call[d]
    BY <1>0, <1>10 DEF UpdateData, Expedite, ThenExpedite, Return, Leave
  <2>3. call'[c].at \in {"idle", "expedite"}
    BY <1>0, <1>10 DEF UpdateData, Expedite, ThenExpedite, Return, Leave, NoCall
  <2> QED
    BY <1>2, <1>3, <2>1, <2>2, <2>3
<1>11. CASE Process
  <2>1. ASSUME NEW outcome, SyncFails(outcome) PROVE Informed'
    <3>1. job'.priority = job.priority /\ call' = call
      BY <1>0, <2>1 DEF SyncFails
    <3>2. job.state # "none"
      BY <2>1 DEF SyncFails, Running
    <3> QED
      BY <1>1, <3>1, <3>2
  <2>2. CASE Finish
    BY <1>1, <2>2 DEF Finish, NoJob
  <2>3. CASE Take \/ PutOff
    <3>1. job.state # "none" /\ job'.priority = job.priority /\ call' = call
      BY <1>0, <2>3 DEF Take, PutOff, Running
    <3> QED
      BY <1>1, <3>1
  <2>4. CASE ReadVersion \/ SyncStarts \/ Clear \/ \E saved \in BOOLEAN : SyncSucceeds(saved)
    BY <1>1, <2>4 DEF ReadVersion, SyncStarts, Clear, SyncSucceeds
  <2> QED
    BY <1>11, <2>1, <2>2, <2>3, <2>4 DEF Process
<1>12. CASE CompletedIdle \/ DelayElapses \/ BackoffExpires \/ LockExpires \/ UNCHANGED vars
  BY <1>0, <1>1, <1>12 DEF CompletedIdle, DelayElapses, BackoffExpires, LockExpires, vars
<1>13. CASE WorkerCrashes
  BY <1>0, <1>1, <1>13 DEF WorkerCrashes
<1> QED
  BY <1>5, <1>6, <1>7, <1>8, <1>9, <1>10, <1>11, <1>12, <1>13
     DEF Next, Enqueue, CompletedHandler, Request, Periodic, Completed

\* A request that comes while a sync runs makes the version it read stale.
LEMMA SeenStep ==
  ASSUME TypeOK, Seen, [Next]_vars
  PROVE  Seen'
<1>0. fresh \in BOOLEAN /\ unserved \in BOOLEAN
      /\ worker \in [at : {"idle", "version", "backoff", "sync", "clear", "finish"}, patient : BOOLEAN]
  BY DEF TypeOK
<1> USE DEF Seen, keyVars, ghostVars
<1>1. ASSUME UNCHANGED <<worker, fresh, unserved>> PROVE Seen'
  BY <1>1
<1>2. ASSUME NEW c \in Caller, Record(c) PROVE Seen'
  BY <1>2 DEF Record
<1>3. ASSUME NEW c \in Caller, NEW x, Call(c, x) PROVE Seen'
  BY <1>1, <1>3 DEF Call
<1>4. ASSUME NEW c \in Caller, Enqueue(c), ~Record(c) PROVE Seen'
  BY <1>1, <1>4 DEF Enqueue, GetJob, GetState, Add, Coalesce, ChangePriority, UpdateData, JobMissing, Expedite
<1>5. ASSUME NEW c \in Caller, Lock(c) \/ LockTimeout(c) \/ CallerCrashes(c) PROVE Seen'
  BY <1>1, <1>5 DEF Lock, LockTimeout, CallerCrashes
<1>6. CASE Take \/ ReadVersion \/ PutOff \/ Clear \/ Finish
  <2>1. CASE Take \/ ReadVersion
    <3>1. worker'.at \in {"version", "backoff"}
      BY <1>0, <2>1 DEF Take, ReadVersion
    <3> QED
      BY <3>1
  <2>2. CASE PutOff \/ Clear \/ Finish
    BY <1>0, <2>2 DEF PutOff, Clear, Finish, NoWorker
  <2> QED
    BY <1>6, <2>1, <2>2
<1>7. ASSUME SyncStarts \/ (\E saved \in BOOLEAN : SyncSucceeds(saved))
                \/ \E outcome \in {"marked", "expired", "unmarked"} : SyncFails(outcome)
      PROVE  Seen'
  BY <1>0, <1>7 DEF SyncStarts, SyncSucceeds, SyncFails, NoWorker
<1>8. CASE CompletedIdle \/ DelayElapses \/ BackoffExpires \/ LockExpires \/ UNCHANGED vars
  BY <1>1, <1>8 DEF CompletedIdle, DelayElapses, BackoffExpires, LockExpires, vars
<1>9. CASE WorkerCrashes
  BY <1>9 DEF WorkerCrashes
<1> QED
  BY <1>2, <1>3, <1>4, <1>5, <1>6, <1>7, <1>8, <1>9
     DEF Next, Process, CompletedHandler, Request, Periodic, Completed

\* ... every step keeps it ...
LEMMA Inductive == IInv /\ [Next]_vars => IInv'
BY TypeStep, RunningStep, ExclusiveStep, InformedStep, SeenStep DEF IInv

\* ... and it always holds.
LEMMA Invariant == Spec => []IInv
BY Initially, Inductive, PTL DEF Spec
-----------------------------------------------------------------------------
(* What it is good for. *)

\* The job, the keys and the calls are well typed; a job is tried MaxTries times at most.
THEOREM TypeCorrect == Spec => []TypeOK
<1>1. IInv => TypeOK
  BY DEF IInv
<1> QED
  BY <1>1, Invariant, PTL

\* The compare-and-delete of the dirty key (processRefresh) clears no request that was
\* recorded after the sync began.
THEOREM Clearing == Spec => ClearsOnlySeen
<1>1. IInv /\ [Next]_vars => (dirty /\ ~dirty' => ~unserved)
  <2> SUFFICES ASSUME IInv, [Next]_vars, dirty, ~dirty' PROVE ~unserved
    OBVIOUS
  <2>1. CASE Clear
    BY <2>1 DEF Clear, IInv, Seen
  <2>2. CASE ~Clear
    <3>1. \A c \in Caller : ~Enqueue(c)
      BY DEF Enqueue, GetJob, GetState, Record, Add, Coalesce, ChangePriority, UpdateData, JobMissing,
             Expedite, keyVars
    <3> QED
      BY <2>2, <3>1 DEF Next, Process, CompletedHandler, Request, Periodic, Completed, Call, Lock,
         LockTimeout, CallerCrashes, Take, ReadVersion, PutOff, SyncStarts, Finish, SyncSucceeds,
         SyncFails, CompletedIdle, DelayElapses, BackoffExpires, WorkerCrashes, LockExpires, keyVars, vars
  <2> QED
    BY <2>1, <2>2
<1> QED
  BY <1>1, Invariant, PTL DEF Spec, ClearsOnlySeen

\* Coalescing never lowers the priority of a job that waits: the priority compared is
\* the one the job has, for nobody else changes it under the lock.
THEOREM Priorities == Spec => PriorityNeverLowered
<1>1. IInv /\ [Next]_vars =>
        (job.state \in Pending /\ job'.state \in Pending => job'.priority <= job.priority)
  <2> SUFFICES ASSUME IInv, [Next]_vars, job.state \in Pending, job'.state \in Pending
               PROVE  job'.priority <= job.priority
    OBVIOUS
  <2>0. /\ job \in [state : JobState, priority : {1, 2, 20}, reason : Reason, tries : 0 .. MaxTries]
        /\ job.state \notin {"none", "failed", "active"} /\ job'.state # "none"
    BY DEF IInv, TypeOK, Pending
  <2>1. ASSUME NEW c \in Caller, ChangePriority(c) PROVE job'.priority <= job.priority
    <3>1. /\ Priority(call[c].reason) < call[c].priority /\ call[c].at = "apply"
          /\ job'.priority = Priority(call[c].reason)
      BY <2>0, <2>1 DEF ChangePriority, Coalesces, Raises, At
    <3>2. call[c].priority = job.priority
      BY <2>0, <3>1 DEF IInv, Informed
    <3>3. Priority(call[c].reason) \in {1, 2, 20}
      BY Fields, NewJobs DEF IInv
    <3> QED
      BY <2>0, <3>1, <3>2, <3>3
  <2>2. ASSUME job'.priority = job.priority PROVE job'.priority <= job.priority
    BY <2>0, <2>2
  <2>3. ASSUME NEW c \in Caller, Enqueue(c) PROVE job'.priority <= job.priority
    BY <2>0, <2>1, <2>2, <2>3 DEF Enqueue, GetJob, GetState, Record, Add, Coalesce, UpdateData, JobMissing,
       Expedite
  <2>4. CASE Process
    <3>1. ASSUME NEW outcome, SyncFails(outcome) PROVE job'.priority = job.priority
      BY <2>0, <3>1 DEF SyncFails
    <3>2. CASE Take \/ PutOff \/ Finish
      BY <2>0, <2>2, <3>2 DEF Take, PutOff, Finish, NoJob
    <3>3. CASE ReadVersion \/ SyncStarts \/ Clear \/ \E saved \in BOOLEAN : SyncSucceeds(saved)
      BY <2>2, <3>3 DEF ReadVersion, SyncStarts, Clear, SyncSucceeds
    <3> QED
      BY <2>2, <2>4, <3>1, <3>2, <3>3 DEF Process
  <2> QED
    BY <2>0, <2>2, <2>3, <2>4 DEF Next, CompletedHandler, Request, Periodic, Completed, Call, Lock,
       LockTimeout, CallerCrashes, CompletedIdle, DelayElapses, BackoffExpires, WorkerCrashes, LockExpires,
       vars
<1> QED
  BY <1>1, Invariant, PTL DEF Spec, PriorityNeverLowered
=============================================================================
