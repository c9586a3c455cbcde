----------------------------- MODULE Scheduler -----------------------------
(***************************************************************************)
(* Keeping accounts in sync: schedulerTick of worker/scheduler.ts, which   *)
(* scans the accounts page by page under a lock and enqueues those that    *)
(* are due, and the syncs that pause an account when a quota is used up    *)
(* and bring it back (account-quota.ts), in time.                          *)
(*                                                                         *)
(* The queue is a set here (RefreshQueue has how it works), and a sync one *)
(* step that saves and completes, or saves and then fails (AccountSync has *)
(* overlapping ones).  Accounts are not disabled by hand here: they are in *)
(* use, or paused.  An account's quotas are used up only through the       *)
(* gateway, so not while it is paused.  Times are counted down to, and the *)
(* refresh interval with its spread is one constant.                       *)
(***************************************************************************)
EXTENDS Quota

CONSTANTS
  Process,     \* worker processes
  NoProcess,
  Account,     \* accounts, by the order of their ids
  QuotasOf,    \* the quotas that each account can use up
  PageSize,    \* the LIMIT of the scan
  Interval,    \* how long a snapshot is fresh
  MaxReset,    \* bound: how long a used-up quota takes to reset
  MaxFaults    \* bound: crashed, failed and lapsed scans, and expired credentials

Quotas == {"weekly", "monthly"}

ASSUME SchedulerAssumption ==
  /\ NoProcess \notin Process
  /\ Account \subseteq Nat \ {0} /\ IsFiniteSet(Account)
  /\ QuotasOf \in [Account -> SUBSET Quotas]
  /\ {PageSize, Interval} \subseteq Nat \ {0} /\ {MaxReset, MaxFaults} \subseteq Nat

VARIABLES
  account,  \* the rows of managed_accounts, and the backoff of each
  left,     \* the upstream: the time until each quota is full again, 0 while it is not used up
  queue,    \* accounts that wait for a sync
  lock,     \* ccm:worker:scheduler-lock
  cursor,   \* ccm:worker:scheduler-cursor, 0 if there is none
  scan,     \* the tick of each process
  faults

workVars == <<account, left, queue>>
scanVars == <<lock, cursor, scan, faults>>
vars == <<workVars, scanVars>>
-----------------------------------------------------------------------------
(* schedulerTick *)

Idle == [at |-> "idle", due |-> {}, last |-> 0, lapsed |-> FALSE]
At(p, l) == scan[p].at = l
Scanning(p) == scan[p].at # "idle"
Set(p, s) == scan' = [scan EXCEPT ![p] = s]
Finally(p) == Set(p, [scan[p] EXCEPT !.at = "finally", !.due = {}, !.last = 0])

Due(r) ==
  /\ \A t \in r.resume : t = 0
  /\ r.age = Interval \/ r.resume = {0}

PageAfter(c) ==
  LET rows == {a \in Account : a > c /\ ~account[a].expired} IN
  {a \in rows : Cardinality({b \in rows : b < a}) < PageSize}

\* Mutant: the cursor stays where it is at the end of the accounts.
LastOfEach(page) == IF page # {} THEN CHOOSE a \in page : \A b \in page : b <= a ELSE cursor

\* After a full page the next scan goes on behind it, and otherwise it starts again.
LastOf(page) ==
  IF Cardinality(page) = PageSize THEN CHOOSE a \in page : \A b \in page : b <= a ELSE 0

Begin(p) ==
  /\ ~Scanning(p) /\ lock = NoProcess /\ lock' = p
  /\ Set(p, [Idle EXCEPT !.at = "read"])
  /\ UNCHANGED <<workVars, cursor, faults>>

ReadPage(p) ==
  LET page == PageAfter(cursor) IN
  /\ At(p, "read")
  /\ Set(p, [scan[p] EXCEPT !.at = "visit", !.due = {a \in page : Due(account[a])},
                            !.last = LastOf(page)])
  /\ UNCHANGED <<workVars, lock, cursor, faults>>

Visit(p, a) ==
  /\ At(p, "visit") /\ a \in scan[p].due /\ \A b \in scan[p].due : a <= b
  /\ queue' = IF account[a].backoff THEN queue ELSE queue \cup {a}
  /\ Set(p, [scan[p] EXCEPT !.due = @ \ {a}])
  /\ UNCHANGED <<account, left, lock, cursor, faults>>

Advance(p) ==
  /\ At(p, "visit") /\ scan[p].due = {}
  /\ cursor' = scan[p].last /\ Finally(p)
  /\ UNCHANGED <<workVars, lock, faults>>

\* Mutant: the lock is deleted whoever holds it.
UnlockAnyones(p) == lock' = NoProcess

Unlock(p) == lock' = IF lock = p THEN NoProcess ELSE lock

End(p) ==
  /\ At(p, "finally") /\ Unlock(p) /\ Set(p, Idle)
  /\ UNCHANGED <<workVars, cursor, faults>>

\* A query or an enqueue throws: the cursor stays.
Fails(p) ==
  /\ scan[p].at \in {"read", "visit"} /\ Finally(p)
  /\ faults < MaxFaults /\ faults' = faults + 1
  /\ UNCHANGED <<workVars, lock, cursor>>

Crash(p) ==
  /\ Scanning(p) /\ Set(p, Idle)
  /\ faults < MaxFaults /\ faults' = faults + 1
  /\ UNCHANGED <<workVars, lock, cursor>>

\* The lock of a dead process runs out, or that of a scan that takes too long.
LockExpires ==
  /\ lock # NoProcess /\ lock' = NoProcess
  /\ \/ ~Scanning(lock) /\ UNCHANGED <<scan, faults>>
     \/ /\ Scanning(lock) /\ Set(lock, [scan[lock] EXCEPT !.lapsed = TRUE])
        /\ faults < MaxFaults /\ faults' = faults + 1
  /\ UNCHANGED <<workVars, cursor>>
-----------------------------------------------------------------------------
(* The snapshots that the upstream may give of an account with l left: true, but a reset may *)
(* be unknown, the weekly window malformed, and grant, balance and summary missing.          *)

Used(l, k) == k \in DOMAIN l /\ l[k] > 0
Left(l, k) == IF k \in DOMAIN l THEN {0, l[k]} ELSE {0}

WeeklyWindows(l) ==
  {[used |-> u, cap |-> 1, exceeded |-> FALSE, resetAt |-> t] :
     u \in {-1, IF Used(l, "weekly") THEN 1 ELSE 0}, t \in Left(l, "weekly")}

Summaries(l) ==
  IF \E k \in WindowKey : Used(l, k)
  THEN {{k} : k \in {"unknown"} \cup {j \in WindowKey : Used(l, j)}}
  ELSE {{"none"}}

Reports(l) ==
  {[windows |-> [k \in WindowKey |-> If(k = "weekly", w)], limited |-> TRUE,
    grant |-> g, credits |-> c, periodEnd |-> t, summary |-> e] :
     w \in WeeklyWindows(l), g \in Optional({1}),
     c \in Optional(IF Used(l, "monthly") THEN {0} ELSE {1, 2}),
     t \in Left(l, "monthly"), e \in Summaries(l) \cup {{}}}

\* One that leaves out nothing but the resets and the grant.
IsFull(s) == Valid(s.windows["weekly"]) # {} /\ s.credits # {} /\ s.summary # {}

\* What the code makes of them, together with what is left and whether they were full.
Verdicts ==
  UNION {{[of |-> l, full |-> IsFull(s), says |-> Verdict(s)] : s \in Reports(l)} :
           l \in UNION {[Q -> 0 .. MaxReset] : Q \in SUBSET Quotas}}
VerdictsOn(a) == {v \in Verdicts : v.of = left[a]}
-----------------------------------------------------------------------------
(* Syncs: saveAccountSnapshot, completeAccountSync, markSyncFailure *)

Blocks(v) == v.full # {}

Saved(r, v) ==
  [r EXCEPT
     !.paused = @ \/ Blocks(v),
     !.reasons = IF Blocks(v) THEN @ \cup v.full ELSE @,
     !.resume = IF r.paused /\ ~(r.reasons \subseteq v.seen) THEN {} ELSE v.resumeAt,
     !.age = 0]

\* Mutant: a snapshot that does not block is enough.
RecoversUnseen(r, v) == r.paused /\ ~Blocks(v)

Recovers(r, v) == r.paused /\ ~Blocks(v) /\ r.reasons \subseteq v.seen

\* Mutant: the reasons stay.
CompletedKeeping(r, v) ==
  IF Recovers(r, v) THEN [r EXCEPT !.paused = FALSE, !.resume = {}] ELSE r

Completed(r, v) ==
  IF Recovers(r, v) THEN [r EXCEPT !.paused = FALSE, !.resume = {}, !.reasons = {}] ELSE r

Sync(a, r) ==
  /\ a \in queue /\ queue' = queue \ {a}
  /\ account' = [account EXCEPT ![a] = r]
  /\ UNCHANGED <<left, scanVars>>

SyncDone(a, v) == Sync(a, [Completed(Saved(account[a], v), v) EXCEPT !.backoff = FALSE])

\* No key can be had after the snapshot is saved.
SyncIncomplete(a, v) == Sync(a, [Saved(account[a], v) EXCEPT !.backoff = TRUE])

SyncFails(a) == Sync(a, [account[a] EXCEPT !.backoff = TRUE])

\* The credential has expired: only an import brings the account back to the scan.
SyncExpires(a) ==
  /\ a \in queue /\ queue' = queue \ {a}
  /\ account' = [account EXCEPT ![a] = [@ EXCEPT !.backoff = TRUE, !.expired = TRUE]]
  /\ faults < MaxFaults /\ faults' = faults + 1
  /\ UNCHANGED <<left, lock, cursor, scan>>

\* The backoff of a failed sync.
BackoffEnds(a) ==
  /\ account[a].backoff /\ account' = [account EXCEPT ![a].backoff = FALSE]
  /\ UNCHANGED <<left, queue, scanVars>>
-----------------------------------------------------------------------------
(* Requests use up a quota, and time passes. *)

UseUp(a, k, t) ==
  /\ ~account[a].paused /\ left[a][k] = 0
  /\ left' = [left EXCEPT ![a][k] = t]
  /\ UNCHANGED <<account, queue, scanVars>>

Less(n) == IF n > 0 THEN n - 1 ELSE 0

Pass ==
  /\ account' = [a \in Account |->
       [account[a] EXCEPT !.age = IF @ < Interval THEN @ + 1 ELSE @,
                          !.resume = {Less(t) : t \in @}]]
  /\ left' = [a \in Account |-> [k \in QuotasOf[a] |-> Less(left[a][k])]]
  /\ <<account, left>>' # <<account, left>>
  /\ UNCHANGED <<queue, scanVars>>
-----------------------------------------------------------------------------
Init ==
  /\ account = [a \in Account |->
       [paused |-> FALSE, reasons |-> {}, resume |-> {}, age |-> Interval,
        backoff |-> FALSE, expired |-> FALSE]]
  /\ left = [a \in Account |-> [k \in QuotasOf[a] |-> 0]]
  /\ queue = {} /\ lock = NoProcess /\ cursor = 0
  /\ scan = [p \in Process |-> Idle] /\ faults = 0

Scan(p) == Begin(p) \/ ReadPage(p) \/ (\E a \in Account : Visit(p, a)) \/ Advance(p) \/ End(p)

SyncFully(a) == \E v \in VerdictsOn(a) : v.full /\ SyncDone(a, v.says)

Next ==
  \/ \E p \in Process : Scan(p) \/ Fails(p) \/ Crash(p)
  \/ LockExpires
  \/ \E a \in Account :
       \/ \E v \in {w.says : w \in VerdictsOn(a)} : SyncDone(a, v) \/ SyncIncomplete(a, v)
       \/ SyncFails(a) \/ SyncExpires(a) \/ BackoffEnds(a)
       \/ \E k \in QuotasOf[a], t \in 1 .. MaxReset : UseUp(a, k, t)
  \/ Pass

Spec == Init /\ [][Next]_vars

(***************************************************************************)
(* Ticks come every ten seconds and go on, locks and backoffs run out, and *)
(* the upstream, asked again and again, once answers in full.  It need not *)
(* be asked: that is for the scheduler to show.                            *)
(***************************************************************************)
LiveSpec ==
  /\ Spec
  /\ \A p \in Process : WF_vars(Scan(p))
  /\ WF_vars(LockExpires) /\ WF_vars(Pass)
  /\ \A a \in Account : WF_vars(BackoffEnds(a)) /\ SF_vars(SyncFully(a))
-----------------------------------------------------------------------------
Row ==
  [paused : BOOLEAN, reasons : SUBSET Reason, resume : Optional(0 .. MaxReset),
   age : 0 .. Interval, backoff : BOOLEAN, expired : BOOLEAN]

Tick ==
  [at : {"idle", "read", "visit", "finally"}, due : SUBSET Account, last : Account \cup {0},
   lapsed : BOOLEAN]

(***************************************************************************)
(* Types; and the columns of a pause belong together.                      *)
(***************************************************************************)
TypeOK ==
  /\ account \in [Account -> Row]
  /\ \A a \in Account :
       /\ account[a].paused <=> account[a].reasons # {}
       /\ account[a].resume # {} => account[a].paused
       /\ left[a] \in [QuotasOf[a] -> 0 .. MaxReset]
  /\ DOMAIN left = Account /\ queue \subseteq Account
  /\ lock \in Process \cup {NoProcess} /\ cursor \in Account \cup {0}
  /\ scan \in [Process -> Tick]
  /\ faults \in 0 .. MaxFaults

(***************************************************************************)
(* Two scans overlap only when one of them has outlived its own lock: a    *)
(* scan that did so does not open the door to a third.                     *)
(***************************************************************************)
ScanExclusive ==
  \A p, q \in Process :
    p # q /\ Scanning(p) /\ Scanning(q) => scan[p].lapsed \/ scan[q].lapsed

(***************************************************************************)
(* Every account that is due is enqueued, whatever pages, failing accounts *)
(* and overlapping scans there are: none is hidden for good by those ahead *)
(* of it (scheduler.ts:19-20).                                             *)
(***************************************************************************)
DueIsServed ==
  \A a \in Account : ~account[a].expired /\ Due(account[a]) ~> a \in queue

(***************************************************************************)
(* An account that is paused comes back by itself, whichever snapshots     *)
(* have paused it and whatever they left out, unless its credential        *)
(* expires.                                                                *)
(***************************************************************************)
PauseEnds ==
  \A a \in Account : account[a].paused ~> ~account[a].paused \/ account[a].expired

(***************************************************************************)
(* An account comes back only when each quota that paused it really is     *)
(* full again upstream: a snapshot that leaves it out is no evidence.      *)
(***************************************************************************)
RecoveryIsReal ==
  [][\A a \in Account :
       (account[a].paused /\ ~account'[a].paused) =>
         \A k \in account[a].reasons : ~Used(left[a], k)]_vars
=============================================================================
