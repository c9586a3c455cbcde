--------------------------- MODULE SchedulerProofs ---------------------------
(***************************************************************************)
(* Proofs about the scheduler and the pauses, for any number of processes  *)
(* and accounts and any quotas: scans overlap only when one has outlived   *)
(* its lock, the columns of a pause belong together, and a pause ends only *)
(* when the quotas behind it really are full again.                        *)
(***************************************************************************)
EXTENDS Scheduler, FiniteSetTheorems, TLAPS

USE SchedulerAssumption

\* The numbers that are numbers.
LEMMA Bounds ==
  /\ PageSize \in Nat \ {0} /\ Interval \in Nat \ {0} /\ MaxReset \in Nat /\ MaxFaults \in Nat
  /\ 0 \in 0 .. Interval /\ 0 \in 0 .. MaxReset /\ 0 \in 0 .. MaxFaults
OBVIOUS
-----------------------------------------------------------------------------
(* Pages. *)

\* A set of rows that is not empty has a last one.
LEMMA HasLast ==
  ASSUME NEW S \in SUBSET Nat, IsFiniteSet(S), S # {}
  PROVE  \E a \in S : \A b \in S : b <= a
<1>. DEFINE Above(a) == {b \in S : b > a}
            T == {Above(a) : a \in S}
<1>1. \A a \in S : Above(a) \in FiniteSubsetsOf(S)
  BY FS_Subset DEF FiniteSubsetsOf
<1>2. PICK t \in T : \A u \in T : ~(<<u, t>> \in StrictSubsetOrdering(S))
  <2>1. T \subseteq FiniteSubsetsOf(S) /\ T # {}
    <3>. HIDE DEF Above
    <3>. QED
      BY <1>1
  <2>2. IsWellFoundedOn(StrictSubsetOrdering(S), FiniteSubsetsOf(S))
    BY FS_StrictSubsetOrderingWellFounded
  <2>. HIDE DEF T
  <2>. QED
    BY <2>1, <2>2, WFMin
<1>3. PICK a \in S : t = Above(a)
  BY <1>2
<1>4. ASSUME NEW b \in S, b > a PROVE FALSE
  <2>1. Above(b) \subseteq Above(a) /\ Above(b) # Above(a)
    <3>1. a \in Nat /\ b \in Nat /\ \A c \in S : c \in Nat
      OBVIOUS
    <3>2. b \in Above(a) /\ b \notin Above(b)
      BY <1>4, <3>1
    <3>3. \A c \in S : c > b => c > a
      BY <1>4, <3>1
    <3>. QED
      BY <3>2, <3>3
  <2>2. <<Above(b), t>> \in StrictSubsetOrdering(S)
    BY <2>1, <1>3 DEF StrictSubsetOrdering
  <2>. QED
    BY <1>2, <2>2
<1>. QED
  BY <1>4

\* The next scan goes on behind an account, or starts again.
LEMMA LastIsRow == ASSUME NEW c PROVE LastOf(PageAfter(c)) \in Account \cup {0}
<1>. DEFINE page == PageAfter(c)
<1>1. page \subseteq Account /\ IsFiniteSet(page)
  BY FS_Subset DEF PageAfter
<1>2. CASE Cardinality(page) = PageSize
  <2>1. page # {}
    BY <1>2, FS_EmptySet
  <2>2. \E a \in page : \A b \in page : b <= a
    BY <1>1, <2>1, HasLast
  <2>. HIDE DEF page
  <2>3. (CHOOSE a \in page : \A b \in page : b <= a) \in page
    BY <2>2
  <2>. QED
    BY <1>1, <1>2, <2>3 DEF LastOf, page
<1>3. CASE Cardinality(page) # PageSize
  BY <1>3 DEF LastOf
<1>. QED
  BY <1>2, <1>3
-----------------------------------------------------------------------------
(* Verdicts: what Quota makes of a report of an account with l left. *)

\* What a sync is given is the verdict on a report of what is left of the account.
LEMMA VerdictIsReported ==
  ASSUME NEW a \in Account, NEW v \in {w.says : w \in VerdictsOn(a)}
  PROVE  \E Q \in SUBSET Quotas : \E l \in [Q -> 0 .. MaxReset] : \E s \in Reports(l) :
           l = left[a] /\ v = Verdict(s)
<1>1. PICK w \in Verdicts : w.of = left[a] /\ v = w.says
  BY DEF VerdictsOn
<1>2. PICK Q \in SUBSET Quotas :
        \E l \in [Q -> 0 .. MaxReset] : \E s \in Reports(l) :
          w = [of |-> l, full |-> IsFull(s), says |-> Verdict(s)]
  BY <1>1 DEF Verdicts
<1>. QED
  BY <1>1, <1>2

\* The fields of a report.
LEMMA ReportShape ==
  ASSUME NEW l, NEW s \in Reports(l)
  PROVE  /\ \E w \in WeeklyWindows(l) : s.windows = [k \in WindowKey |-> If(k = "weekly", w)]
         /\ s.grant \in Optional({1})
         /\ s.credits \in Optional(IF Used(l, "monthly") THEN {0} ELSE {1, 2})
         /\ s.periodEnd \in Left(l, "monthly")
         /\ s.summary \in Summaries(l) \cup {{}}
<1>1. PICK w \in WeeklyWindows(l), g \in Optional({1}),
           c \in Optional(IF Used(l, "monthly") THEN {0} ELSE {1, 2}),
           t \in Left(l, "monthly"), e \in Summaries(l) \cup {{}} :
        s = [windows |-> [k \in WindowKey |-> If(k = "weekly", w)], limited |-> TRUE,
             grant |-> g, credits |-> c, periodEnd |-> t, summary |-> e]
  BY DEF Reports
<1>. QED
  BY <1>1

\* The windows that are seen in it: the weekly one, and the month by its balance.
LEMMA ReportWindows ==
  ASSUME NEW l, NEW s \in Reports(l)
  PROVE  /\ Windows(s)["fiveHour"] = {}
         /\ \E w \in WeeklyWindows(l) : Windows(s)["weekly"] = Valid({w})
         /\ Windows(s)["monthly"] = MonthlyWindow(s)
<1>1. PICK w \in WeeklyWindows(l) : s.windows = [k \in WindowKey |-> If(k = "weekly", w)]
  BY ReportShape
<1>2. s.windows["fiveHour"] = {} /\ s.windows["monthly"] = {} /\ s.windows["weekly"] = {w}
  BY <1>1 DEF If, WindowKey
<1>3. Valid(s.windows["fiveHour"]) = {} /\ Valid(s.windows["monthly"]) = {}
  BY <1>2 DEF Valid
<1>. QED
  BY <1>2, <1>3 DEF Windows, WindowKey

\* A summary gives reasons that there are.
LEMMA ReportedReasons ==
  ASSUME NEW l, NEW s \in Reports(l)
  PROVE  Reasons(s) \subseteq Reason
<1>1. s.summary \subseteq Reason \cup {"none"}
  BY ReportShape DEF Summaries, Reason
<1>. QED
  BY <1>1 DEF Reasons, If, Reason, WindowKey

\* A pause is given an end at most once, within the bound on resets, and only for a reason.
LEMMA ReportedReset ==
  ASSUME NEW Q \in SUBSET Quotas, NEW l \in [Q -> 0 .. MaxReset], NEW s \in Reports(l)
  PROVE  /\ ResumeAt(s, 0) \in Optional(0 .. MaxReset)
         /\ Reasons(s) = {} => ResumeAt(s, 0) = {}
<1>. DEFINE resets == UNION {FutureReset(s, k, 0) : k \in Reasons(s)}
<1>1. \A k : Left(l, k) \subseteq 0 .. MaxReset
  BY DEF Left
<1>2. \A w \in WeeklyWindows(l) : w.resetAt \in 0 .. MaxReset
  BY <1>1 DEF WeeklyWindows
<1>3. s.periodEnd \in 0 .. MaxReset
  BY <1>1, ReportShape
<1>4. \A u \in MonthlyWindow(s) : u.resetAt = s.periodEnd
  BY DEF MonthlyWindow
<1>5. \A k \in WindowKey : \A u \in Windows(s)[k] : u.resetAt \in 0 .. MaxReset
  BY <1>2, <1>3, <1>4, ReportWindows DEF WindowKey, Valid
<1>6. \A k \in Reasons(s) : FutureReset(s, k, 0) \subseteq 0 .. MaxReset
  BY <1>3, <1>5, ReportedReasons DEF FutureReset, Reason
<1>7. resets \subseteq 0 .. MaxReset
  BY <1>6
<1>8. ResumeAt(s, 0) \subseteq {t \in resets : \A u \in resets : u <= t}
  BY DEF ResumeAt
<1>. HIDE DEF resets
<1>9. \A t, u \in ResumeAt(s, 0) : t = u /\ t \in 0 .. MaxReset
  <2>1. \A t \in ResumeAt(s, 0) : t \in resets /\ \A u \in resets : u <= t
    BY <1>8
  <2>2. \A t \in resets : t \in 0 .. MaxReset /\ t \in Int
    BY <1>7
  <2>. QED
    BY <2>1, <2>2
<1>10. ResumeAt(s, 0) \in Optional(0 .. MaxReset)
  <2>1. CASE ResumeAt(s, 0) = {}
    BY <2>1 DEF Optional
  <2>2. CASE ResumeAt(s, 0) # {}
    <3>1. PICK t \in ResumeAt(s, 0) : TRUE
      BY <2>2
    <3>2. ResumeAt(s, 0) = {t} /\ t \in 0 .. MaxReset
      BY <1>9, <3>1
    <3>. QED
      BY <3>2 DEF Optional
  <2>. QED
    BY <2>1, <2>2
<1>11. Reasons(s) = {} => resets = {}
  BY DEF resets
<1>. QED
  BY <1>8, <1>10, <1>11

\* What a snapshot has seen of a quota, and does not give as a reason, is not used up.
LEMMA SeenIsFree ==
  ASSUME NEW Q \in SUBSET Quotas, NEW l \in [Q -> 0 .. MaxReset], NEW s \in Reports(l),
         NEW k \in Confirmed(s), k \notin Reasons(s)
  PROVE  ~Used(l, k)
<1>. SUFFICES ASSUME Used(l, k) PROVE FALSE
  OBVIOUS
<1>1. k \in {"weekly", "monthly"} /\ k \in WindowKey
  BY DEF Used, Quotas, WindowKey
<1>2. Windows(s)[k] # {} \/ (k = "monthly" /\ \E r \in MonthlyRemaining(s) : r > 0)
  BY <1>1 DEF Confirmed, If
<1>3. \A u \in Windows(s)[k] : ~Exhausted(u)
  BY <1>1 DEF Reasons
<1>4. CASE k = "weekly"
  <2>1. PICK w \in WeeklyWindows(l) : Windows(s)[k] = Valid({w})
    BY <1>4, ReportWindows
  <2>2. w \in Windows(s)[k] /\ w.used >= 0
    BY <1>2, <1>4, <2>1 DEF Valid
  <2>3. w.used \in {-1, 1} /\ w.cap = 1
    BY <1>4 DEF WeeklyWindows
  <2>. QED
    BY <1>3, <2>2, <2>3 DEF Exhausted
<1>5. CASE k = "monthly"
  <2>1. s.credits \subseteq {0}
    BY <1>5, ReportShape DEF Optional
  <2>2. ~ \E r \in MonthlyRemaining(s) : r > 0
    BY <2>1 DEF MonthlyRemaining
  <2>3. PICK u \in MonthlyWindow(s) : ~Exhausted(u)
    BY <1>2, <1>3, <1>5, <2>2, ReportWindows
  <2>4. PICK p \in s.grant \X s.credits :
          u = [used |-> p[1] - p[2], cap |-> p[1], exceeded |-> p[2] <= 0, resetAt |-> s.periodEnd]
    BY <2>3 DEF MonthlyWindow
  <2>5. p[2] <= 0
    BY <2>1
  <2>6. u.exceeded
    BY ONLY <2>4, <2>5, Zenon
  <2>. QED
    BY <2>3, <2>6 DEF Exhausted
<1>. QED
  BY <1>1, <1>4, <1>5
-----------------------------------------------------------------------------
(* Rows. *)

\* The columns of a pause belong together.
Legal(r) ==
  /\ r \in Row
  /\ r.paused <=> r.reasons # {}
  /\ r.resume # {} => r.paused

\* A verdict that there may be.
Sound(v) ==
  /\ v.full \subseteq Reason
  /\ v.resumeAt \in Optional(0 .. MaxReset)
  /\ v.full = {} => v.resumeAt = {}

\* The verdicts that syncs are given are sound.
LEMMA VerdictsAreSound ==
  ASSUME NEW a \in Account, NEW v \in {w.says : w \in VerdictsOn(a)}
  PROVE  Sound(v)
<1>1. PICK Q \in SUBSET Quotas : \E l \in [Q -> 0 .. MaxReset] : \E s \in Reports(l) : v = Verdict(s)
  BY VerdictIsReported
<1>2. PICK l \in [Q -> 0 .. MaxReset] : \E s \in Reports(l) : v = Verdict(s)
  BY <1>1
<1>3. PICK s \in Reports(l) : v = Verdict(s)
  BY <1>2
<1>4. v.full = Reasons(s) /\ v.resumeAt = ResumeAt(s, 0)
  BY <1>3 DEF Verdict
<1>. QED
  BY <1>4, ReportedReasons, ReportedReset DEF Sound

\* A row stays legal when a snapshot is saved, and when the sync is completed.
LEMMA SyncKeepsLegal ==
  ASSUME NEW r, NEW v, Legal(r), Sound(v)
  PROVE  Legal(Saved(r, v)) /\ Legal(Completed(Saved(r, v), v))
<1>1. /\ r \in Row /\ (r.paused <=> r.reasons # {})
      /\ v.full \subseteq Reason /\ v.resumeAt \in Optional(0 .. MaxReset) /\ {} \in Optional(0 .. MaxReset)
      /\ v.full = {} => v.resumeAt = {}
  BY DEF Legal, Sound, Optional
<1>. DEFINE q == Saved(r, v)
<1>2. /\ q \in Row
      /\ q.paused <=> r.paused \/ v.full # {}
      /\ q.reasons = r.reasons \cup v.full
      /\ q.resume \in {{}, v.resumeAt}
  <2>1. PICK p \in BOOLEAN : p = (r.paused \/ Blocks(v))
    BY Zenon
  <2>2. PICK e \in SUBSET Reason : e = IF Blocks(v) THEN r.reasons \cup v.full ELSE r.reasons
    BY <1>1 DEF Row
  <2>3. PICK t \in {{}, v.resumeAt} : t = IF r.paused /\ ~(r.reasons \subseteq v.seen) THEN {} ELSE v.resumeAt
    OBVIOUS
  <2>4. q = [r EXCEPT !.paused = p, !.reasons = e, !.resume = t, !.age = 0]
    BY ONLY <2>1, <2>2, <2>3, Zenon DEF Saved, q
  <2>5. q \in Row /\ (q.paused <=> p) /\ q.reasons = e /\ q.resume = t
    <3>1. t \in Optional(0 .. MaxReset)
      BY <1>1
    <3>2. r \in Row /\ 0 \in 0 .. Interval
      BY <1>1, Bounds
    <3>. HIDE DEF q
    <3>. QED
      BY ONLY p \in BOOLEAN, e \in SUBSET Reason, <2>4, <3>1, <3>2 DEF Row
  <2>6. e = r.reasons \cup v.full
    BY <2>2 DEF Blocks
  <2>7. p <=> r.paused \/ v.full # {}
    BY <2>1, Zenon DEF Blocks
  <2>. QED
    BY <2>3, <2>5, <2>6, <2>7
<1>. HIDE DEF q
<1>3. Legal(q)
  BY <1>1, <1>2 DEF Legal
<1>4. Legal(Completed(q, v))
  <2>1. CASE Recovers(q, v)
    <3>1. Completed(q, v) = [q EXCEPT !.paused = FALSE, !.resume = {}, !.reasons = {}]
      BY <2>1 DEF Completed
    <3>. QED
      BY <1>1, <1>2, <3>1 DEF Legal, Row
  <2>2. CASE ~Recovers(q, v)
    BY <1>3, <2>2 DEF Completed
  <2>. QED
    BY <2>1, <2>2
<1>. QED
  BY <1>3, <1>4 DEF q

-----------------------------------------------------------------------------
(* The inductive invariant. *)

\* A scan that has not outlived its lock holds it.
Held == \A p \in Process : Scanning(p) /\ ~scan[p].lapsed => lock = p

IInv == TypeOK /\ Held

\* The initial states satisfy it.
LEMMA Initially == ASSUME Init PROVE IInv
<1>1. \A a \in Account : account[a] =
        [paused |-> FALSE, reasons |-> {}, resume |-> {}, age |-> Interval, backoff |-> FALSE, expired |-> FALSE]
  BY DEF Init
<1>2. account \in [Account -> Row]
  BY DEF Init, Row, Optional
<1>3. \A a \in Account : left[a] = [k \in QuotasOf[a] |-> 0]
  BY DEF Init
<1>4. \A a \in Account : left[a] \in [QuotasOf[a] -> 0 .. MaxReset]
  <2>1. 0 \in 0 .. MaxReset /\ 0 \in 0 .. MaxFaults
    OBVIOUS
  <2>2. \A Q : [k \in Q |-> 0] \in [Q -> 0 .. MaxReset]
    BY <2>1
  <2>. QED
    <3>. TAKE a \in Account
    <3>2. left[a] = [k \in QuotasOf[a] |-> 0]
      BY <1>3
    <3>3. [k \in QuotasOf[a] |-> 0] \in [QuotasOf[a] -> 0 .. MaxReset]
      BY <2>2
    <3>. QED
      BY ONLY <3>2, <3>3
<1>5. Idle \in Tick
  BY DEF Idle, Tick
<1>6. scan \in [Process -> Tick] /\ DOMAIN left = Account
  BY <1>5 DEF Init
<1>7. TypeOK
  <2>1. \A a \in Account : /\ account[a].paused <=> account[a].reasons # {}
                           /\ account[a].resume # {} => account[a].paused
    BY <1>1
  <2>2. faults \in 0 .. MaxFaults /\ queue = {} /\ lock = NoProcess /\ cursor = 0
    BY DEF Init
  <2>. QED
    BY <1>2, <1>4, <1>6, <2>1, <2>2 DEF TypeOK
<1>8. Held
  BY DEF Init, Held, Scanning, Idle
<1>. QED
  BY <1>7, <1>8 DEF IInv

\* The parts of the type invariant about the accounts and about the scans.
Work ==
  /\ account \in [Account -> Row]
  /\ \A a \in Account : Legal(account[a]) /\ left[a] \in [QuotasOf[a] -> 0 .. MaxReset]
  /\ DOMAIN left = Account /\ queue \subseteq Account

Scans ==
  /\ lock \in Process \cup {NoProcess} /\ cursor \in Account \cup {0}
  /\ scan \in [Process -> Tick] /\ faults \in 0 .. MaxFaults

\* Together they are the type invariant.
LEMMA TypeParts == TypeOK <=> Work /\ Scans
BY DEF TypeOK, Work, Scans, Legal, Tick

\* The rows, what is left upstream and the queue keep their types.
LEMMA WorkStep == ASSUME Work, [Next]_vars PROVE Work'
<1>0. /\ account \in [Account -> Row]
      /\ \A a \in Account : Legal(account[a]) /\ left[a] \in [QuotasOf[a] -> 0 .. MaxReset]
      /\ DOMAIN left = Account /\ queue \subseteq Account
  BY DEF Work
<1>. USE DEF workVars, scanVars
<1>1. ASSUME UNCHANGED workVars PROVE Work'
  BY <1>0, <1>1 DEF Work
<1>2. ASSUME NEW p \in Process, Begin(p) \/ ReadPage(p) \/ Advance(p) \/ End(p) \/ Fails(p) \/ Crash(p)
      PROVE  Work'
  BY <1>1, <1>2 DEF Begin, ReadPage, Advance, End, Fails, Crash
<1>3. ASSUME NEW p \in Process, NEW a \in Account, Visit(p, a) PROVE Work'
  BY <1>0, <1>3 DEF Visit, Work
<1>4. ASSUME NEW a \in Account, NEW r, Legal(r), account' = [account EXCEPT ![a] = r],
             queue' \subseteq queue, UNCHANGED left
      PROVE  Work'
  BY <1>0, <1>4 DEF Work, Legal
<1>5. ASSUME NEW a \in Account, NEW v \in {w.says : w \in VerdictsOn(a)},
             SyncDone(a, v) \/ SyncIncomplete(a, v)
      PROVE  Work'
  <2>1. Sound(v)
    BY VerdictsAreSound
  <2>2. PICK r : Legal(r) /\ r = account[a]
    BY <1>0
  <2>3. PICK q : /\ Legal(q) /\ q \in {Saved(r, v), Completed(Saved(r, v), v)}
                 /\ \E b \in BOOLEAN : account' = [account EXCEPT ![a] = [q EXCEPT !.backoff = b]]
    BY <1>5, <2>1, <2>2, SyncKeepsLegal DEF SyncDone, SyncIncomplete, Sync
  <2>4. \A b \in BOOLEAN : Legal([q EXCEPT !.backoff = b])
    BY <2>3 DEF Legal, Row
  <2>5. queue' \subseteq queue /\ UNCHANGED left
    BY <1>5 DEF SyncDone, SyncIncomplete, Sync
  <2>. QED
    BY <1>4, <2>3, <2>4, <2>5
<1>6. ASSUME NEW a \in Account, SyncFails(a) \/ SyncExpires(a) \/ BackoffEnds(a) PROVE Work'
  <2>1. PICK r : Legal(r) /\ r = account[a]
    BY <1>0
  <2>2. Legal([r EXCEPT !.backoff = TRUE]) /\ Legal([r EXCEPT !.backoff = FALSE])
        /\ Legal([r EXCEPT !.backoff = TRUE, !.expired = TRUE])
    BY <2>1 DEF Legal, Row
  <2>3. /\ queue' \subseteq queue /\ UNCHANGED left
        /\ \/ account' = [account EXCEPT ![a] = [r EXCEPT !.backoff = TRUE]]
           \/ account' = [account EXCEPT ![a] = [r EXCEPT !.backoff = TRUE, !.expired = TRUE]]
           \/ account' = [account EXCEPT ![a] = [r EXCEPT !.backoff = FALSE]]
    BY <1>6, <2>1 DEF SyncFails, Sync, SyncExpires, BackoffEnds
  <2>. QED
    BY <1>4, <2>2, <2>3
<1>7. ASSUME NEW a \in Account, NEW k \in QuotasOf[a], NEW t \in 1 .. MaxReset, UseUp(a, k, t) PROVE Work'
  <2>1. t \in 0 .. MaxReset
    BY Bounds
  <2>2. left' = [left EXCEPT ![a] = [left[a] EXCEPT ![k] = t]] /\ UNCHANGED <<account, queue>>
    BY <1>7 DEF UseUp
  <2>3. [left[a] EXCEPT ![k] = t] \in [QuotasOf[a] -> 0 .. MaxReset]
    BY <1>0, <2>1
  <2>4. \A b \in Account : left'[b] = IF b = a THEN [left[a] EXCEPT ![k] = t] ELSE left[b]
    BY <1>0, <2>2
  <2>5. DOMAIN left' = Account
    BY <1>0, <2>2
  <2>. QED
    BY <1>0, <2>2, <2>3, <2>4, <2>5 DEF Work
<1>8. ASSUME Pass PROVE Work'
  <2>1. \A t \in 0 .. MaxReset : Less(t) \in 0 .. MaxReset
    BY Bounds DEF Less
  <2>2. ASSUME NEW a \in Account
        PROVE  Legal([account[a] EXCEPT !.age = IF @ < Interval THEN @ + 1 ELSE @, !.resume = {Less(t) : t \in @}])
    <3>1. PICK r : Legal(r) /\ r = account[a]
      BY <1>0
    <3>2. PICK g \in 0 .. Interval : g = IF r.age < Interval THEN r.age + 1 ELSE r.age
      BY <3>1, Bounds DEF Legal, Row
    <3>3. PICK e \in Optional(0 .. MaxReset) : e = {Less(t) : t \in r.resume} /\ (e # {} => r.resume # {})
      <4>1. CASE r.resume = {}
        BY <4>1 DEF Optional
      <4>2. CASE \E x \in 0 .. MaxReset : r.resume = {x}
        <5>1. PICK x \in 0 .. MaxReset : r.resume = {x}
          BY <4>2
        <5>2. {Less(t) : t \in r.resume} = {Less(x)} /\ Less(x) \in 0 .. MaxReset
          BY <2>1, <5>1
        <5>. QED
          BY <5>1, <5>2 DEF Optional
      <4>. QED
        BY <3>1, <4>1, <4>2 DEF Legal, Row, Optional
    <3>4. Legal([r EXCEPT !.age = g, !.resume = e])
      BY <3>1, <3>3 DEF Legal, Row
    <3>. QED
      BY <3>1, <3>2, <3>3, <3>4
  <2>3. \A a \in Account : account'[a] = [account[a] EXCEPT !.age = IF @ < Interval THEN @ + 1 ELSE @, !.resume = {Less(t) : t \in @}]
    BY <1>8 DEF Pass
  <2>4. account' \in [Account -> Row] /\ \A a \in Account : Legal(account'[a])
    <3>1. DOMAIN account' = Account /\ \A a \in Account : Legal(account'[a])
      BY <1>8, <2>2, <2>3 DEF Pass
    <3>. QED
      BY <1>8, <3>1 DEF Pass, Legal
  <2>5. \A a \in Account : left'[a] \in [QuotasOf[a] -> 0 .. MaxReset]
    BY <1>0, <1>8, <2>1 DEF Pass
  <2>6. DOMAIN left' = Account /\ queue' = queue
    BY <1>8 DEF Pass
  <2>. QED
    BY <1>0, <2>4, <2>5, <2>6 DEF Work
<1>9. ASSUME LockExpires \/ UNCHANGED vars PROVE Work'
  BY <1>1, <1>9 DEF LockExpires, vars
<1>. QED
  BY <1>2, <1>3, <1>5, <1>6, <1>7, <1>8, <1>9 DEF Next, Scan

\* The lock, the cursor and the ticks keep theirs, and a scan that has not outlived its
\* lock still holds it.
LEMMA ScansStep == ASSUME Scans, Held, [Next]_vars PROVE Scans' /\ Held'
<1>0. /\ lock \in Process \cup {NoProcess} /\ cursor \in Account \cup {0}
      /\ scan \in [Process -> Tick] /\ faults \in 0 .. MaxFaults
      /\ \A p \in Process : scan[p].at # "idle" /\ ~scan[p].lapsed => lock = p
  BY DEF Scans, Held, Scanning
<1>a. faults < MaxFaults => faults + 1 \in 0 .. MaxFaults
  BY <1>0, Bounds
<1>. USE DEF workVars, scanVars, Scans, Held, Scanning, Set, At, Finally
<1>b. ASSUME NEW p \in Process, NEW t \in Tick, scan' = [scan EXCEPT ![p] = t],
             t.lapsed <=> scan[p].lapsed, scan[p].at # "idle", UNCHANGED lock,
             cursor' \in Account \cup {0}, faults' \in 0 .. MaxFaults
      PROVE  Scans' /\ Held'
  BY <1>0, <1>b
<1>c. \A t \in Tick :
        /\ [t EXCEPT !.at = "finally", !.due = {}, !.last = 0] \in Tick
        /\ [t EXCEPT !.at = "finally", !.due = {}, !.last = 0].lapsed <=> t.lapsed
  BY DEF Tick
<1>1. ASSUME UNCHANGED scanVars PROVE Scans' /\ Held'
  BY <1>0, <1>1
<1>2. ASSUME NEW p \in Process, Begin(p) PROVE Scans' /\ Held'
  <2>1. PICK i \in Tick : i = [Idle EXCEPT !.at = "read"] /\ i.at = "read" /\ ~i.lapsed
    <3>1. Idle \in Tick /\ ~Idle.lapsed
      BY DEF Idle, Tick
    <3>2. \A t \in Tick : LET q == [t EXCEPT !.at = "read"]
                          IN  q \in Tick /\ q.at = "read" /\ (q.lapsed <=> t.lapsed)
      BY DEF Tick
    <3>. QED
      BY <3>1, <3>2
  <2>. QED
    BY <1>0, <1>2, <2>1 DEF Begin
<1>3. ASSUME NEW p \in Process, ReadPage(p) PROVE Scans' /\ Held'
  <2>1. LastOf(PageAfter(cursor)) \in Account \cup {0}
    BY LastIsRow
  <2>2. PICK due \in SUBSET Account, last \in Account \cup {0} :
          scan' = [scan EXCEPT ![p] = [scan[p] EXCEPT !.at = "visit", !.due = due, !.last = last]]
    <3>1. {a \in PageAfter(cursor) : Due(account[a])} \in SUBSET Account
      BY DEF PageAfter
    <3>. QED
      BY <1>3, <2>1, <3>1 DEF ReadPage
  <2>. QED
    <3>1. PICK t \in Tick : t = scan[p]
      BY <1>0
    <3>2. /\ [t EXCEPT !.at = "visit", !.due = due, !.last = last] \in Tick
          /\ [t EXCEPT !.at = "visit", !.due = due, !.last = last].lapsed <=> t.lapsed
      BY DEF Tick
    <3>3. scan[p].at # "idle" /\ UNCHANGED <<lock, cursor, faults>>
      BY <1>3 DEF ReadPage
    <3>. QED
      BY <1>0, <1>b, <2>2, <3>1, <3>2, <3>3
<1>4. ASSUME NEW p \in Process, NEW a \in Account, Visit(p, a) PROVE Scans' /\ Held'
  BY <1>0, <1>4 DEF Visit, Tick
<1>5. ASSUME NEW p \in Process, Advance(p) PROVE Scans' /\ Held'
  <2>1. PICK t \in Tick : t = scan[p]
    BY <1>0
  <2>2. /\ scan' = [scan EXCEPT ![p] = [t EXCEPT !.at = "finally", !.due = {}, !.last = 0]]
        /\ scan[p].at # "idle" /\ cursor' = t.last /\ UNCHANGED <<lock, faults>>
    BY <1>5, <2>1 DEF Advance
  <2>3. t.last \in Account \cup {0}
    BY DEF Tick
  <2>. QED
    BY <1>0, <1>b, <1>c, <2>1, <2>2, <2>3
<1>6. ASSUME NEW p \in Process, End(p) PROVE Scans' /\ Held'
  BY <1>0, <1>6 DEF End, Unlock, Idle, Tick
<1>7. ASSUME NEW p \in Process, Fails(p) PROVE Scans' /\ Held'
  <2>1. PICK t \in Tick : t = scan[p]
    BY <1>0
  <2>2. /\ scan' = [scan EXCEPT ![p] = [t EXCEPT !.at = "finally", !.due = {}, !.last = 0]]
        /\ scan[p].at # "idle" /\ UNCHANGED <<lock, cursor>> /\ faults' \in 0 .. MaxFaults
    BY <1>7, <2>1, <1>a DEF Fails
  <2>. QED
    BY <1>0, <1>b, <1>c, <2>1, <2>2
<1>8. ASSUME NEW p \in Process, Crash(p) PROVE Scans' /\ Held'
  BY <1>0, <1>8, <1>a DEF Crash, Idle, Tick
<1>9. ASSUME LockExpires PROVE Scans' /\ Held'
  <2>1. lock \in Process /\ lock' = NoProcess /\ UNCHANGED cursor
    BY <1>0, <1>9 DEF LockExpires
  <2>2. CASE scan[lock].at = "idle" /\ UNCHANGED <<scan, faults>>
    BY <1>0, <2>1, <2>2
  <2>3. CASE scan' = [scan EXCEPT ![lock] = [scan[lock] EXCEPT !.lapsed = TRUE]] /\ faults' \in 0 .. MaxFaults
    BY <1>0, <2>1, <2>3 DEF Tick
  <2>. QED
    BY <1>9, <1>a, <2>2, <2>3 DEF LockExpires
<1>10. ASSUME NEW a \in Account, SyncExpires(a) PROVE Scans' /\ Held'
  BY <1>0, <1>10, <1>a DEF SyncExpires
<1>11. ASSUME NEW a \in Account, NEW v, SyncDone(a, v) \/ SyncIncomplete(a, v) \/ SyncFails(a) \/ BackoffEnds(a)
       PROVE  Scans' /\ Held'
  BY <1>1, <1>11 DEF SyncDone, SyncIncomplete, SyncFails, BackoffEnds, Sync
<1>12. ASSUME Pass \/ (\E a \in Account : \E k \in QuotasOf[a], t \in 1 .. MaxReset : UseUp(a, k, t)) PROVE Scans' /\ Held'
  BY <1>1, <1>12 DEF Pass, UseUp
<1>13. ASSUME UNCHANGED vars PROVE Scans' /\ Held'
  BY <1>1, <1>13 DEF vars
<1>. QED
  BY <1>2, <1>3, <1>4, <1>5, <1>6, <1>7, <1>8, <1>9, <1>10, <1>11, <1>12, <1>13 DEF Next, Scan

\* The invariant is inductive.
LEMMA Inductive == IInv /\ [Next]_vars => IInv'
<1>1. TypeOK' <=> Work' /\ Scans'
  BY DEF TypeOK, Work, Scans, Legal
<1>. QED
  BY <1>1, TypeParts, WorkStep, ScansStep DEF IInv

\* The invariant holds in every reachable state.
LEMMA Invariant == Spec => []IInv
<1>1. Init => IInv
  BY Initially
<1>. QED
  BY <1>1, Inductive, PTL DEF Spec

(***************************************************************************)
(* Type correctness; with it, that the columns of a pause belong together: *)
(* an account has reasons exactly while it is paused, and an end only then.*)
(***************************************************************************)
THEOREM TypeCorrect == Spec => []TypeOK
<1>1. IInv => TypeOK
  BY DEF IInv
<1>. QED
  BY <1>1, Invariant, PTL

(***************************************************************************)
(* Two scans of schedulerTick overlap only when one of them has outlived   *)
(* its own lock: unlocking compares the holder, so a third is kept out.    *)
(***************************************************************************)
THEOREM Exclusion == Spec => []ScanExclusive
<1>1. IInv => ScanExclusive
  BY DEF IInv, Held, ScanExclusive
<1>. QED
  BY <1>1, Invariant, PTL

\* Only a sync that is done ends a pause, and it has seen every quota behind it.
LEMMA PauseStep ==
  ASSUME TypeOK, [Next]_vars, NEW a \in Account, account[a].paused, ~account'[a].paused,
         NEW k \in account[a].reasons
  PROVE  ~Used(left[a], k)
<1>0. account \in [Account -> Row]
  BY DEF TypeOK
<1>1. ASSUME NEW b \in Account, NEW r, account' = [account EXCEPT ![b] = r]
      PROVE  b = a /\ ~r.paused
  BY <1>0, <1>1
<1>2. PICK v \in {w.says : w \in VerdictsOn(a)} : SyncDone(a, v)
  <2>1. account' # account
    OBVIOUS
  <2>2. \A p \in Process : ~Scan(p) /\ ~Fails(p) /\ ~Crash(p)
    BY <2>1 DEF Scan, Begin, ReadPage, Visit, Advance, End, Fails, Crash, workVars
  <2>3. ~LockExpires /\ ~UNCHANGED vars /\ \A b, k0, t : ~UseUp(b, k0, t)
    BY <2>1 DEF LockExpires, UseUp, vars, workVars
  <2>4. ~Pass
    <3>1. PICK r \in Row : r = account[a]
      BY <1>0
    <3>2. Pass => account'[a] = [r EXCEPT !.age = IF @ < Interval THEN @ + 1 ELSE @, !.resume = {Less(t) : t \in @}]
      BY <3>1 DEF Pass
    <3>3. \A g, e : [r EXCEPT !.age = g, !.resume = e].paused <=> r.paused
      BY DEF Row
    <3>. QED
      BY <3>1, <3>2, <3>3
  <2>5. ASSUME NEW b \in Account, SyncFails(b) \/ SyncExpires(b) \/ BackoffEnds(b) PROVE FALSE
    <3>1. PICK r \in Row : r = account[b]
      BY <1>0
    <3>2. \/ account' = [account EXCEPT ![b] = [r EXCEPT !.backoff = TRUE]]
          \/ account' = [account EXCEPT ![b] = [r EXCEPT !.backoff = TRUE, !.expired = TRUE]]
          \/ account' = [account EXCEPT ![b] = [r EXCEPT !.backoff = FALSE]]
      BY <2>5, <3>1 DEF SyncFails, Sync, SyncExpires, BackoffEnds
    <3>. QED
      <4>1. /\ [r EXCEPT !.backoff = TRUE].paused <=> r.paused
            /\ [r EXCEPT !.backoff = TRUE, !.expired = TRUE].paused <=> r.paused
            /\ [r EXCEPT !.backoff = FALSE].paused <=> r.paused
        BY DEF Row
      <4>2. b = a /\ ~r.paused
        BY <1>1, <3>2, <4>1
      <4>. QED
        BY <3>1, <4>2
  <2>6. ASSUME NEW b \in Account, NEW v, SyncIncomplete(b, v) PROVE FALSE
    <3>1. PICK r \in Row : r = account[b]
      BY <1>0
    <3>2. b = a /\ ~[Saved(r, v) EXCEPT !.backoff = TRUE].paused
      BY <1>1, <2>6, <3>1 DEF SyncIncomplete, Sync
    <3>. QED
      BY <3>1, <3>2 DEF Saved, Row
  <2>7. PICK b \in Account : \E v \in {w.says : w \in VerdictsOn(b)} : SyncDone(b, v)
    BY <2>2, <2>3, <2>4, <2>5, <2>6 DEF Next
  <2>8. b = a
    BY <1>1, <2>7 DEF SyncDone, Sync
  <2>. QED
    BY <2>7, <2>8
<1>3. k \in v.seen /\ v.full = {}
  <2>1. PICK r \in Row : r = account[a]
    BY <1>0
  <2>2. PICK q : q = Saved(r, v)
    OBVIOUS
  <2>3. ~[Completed(q, v) EXCEPT !.backoff = FALSE].paused
    BY <1>1, <1>2, <2>1, <2>2 DEF SyncDone, Sync
  <2>4. r.paused /\ r.reasons \subseteq q.reasons /\ q.paused /\ DOMAIN q = DOMAIN r
    BY <2>1, <2>2 DEF Saved, Row
  <2>5. Recovers(q, v)
    BY <2>1, <2>3, <2>4 DEF Completed, Row
  <2>. QED
    BY <2>1, <2>4, <2>5 DEF Recovers, Blocks
<1>4. PICK Q \in SUBSET Quotas : \E l \in [Q -> 0 .. MaxReset] : \E s \in Reports(l) : l = left[a] /\ v = Verdict(s)
  BY <1>2, VerdictIsReported
<1>5. PICK l \in [Q -> 0 .. MaxReset] : \E s \in Reports(l) : l = left[a] /\ v = Verdict(s)
  BY <1>4
<1>6. PICK s \in Reports(l) : l = left[a] /\ v = Verdict(s)
  BY <1>5
<1>7. k \in Confirmed(s) /\ Reasons(s) = {}
  BY <1>3, <1>6 DEF Verdict
<1>. QED
  BY <1>6, <1>7, SeenIsFree

(***************************************************************************)
(* An account comes back only when each quota that paused it really is     *)
(* full again upstream, whatever its reports leave out                     *)
(* (confirmedQuotaReasons and completeAccountSync of account-quota.ts).    *)
(***************************************************************************)
THEOREM Recovery == Spec => RecoveryIsReal
<1>1. IInv /\ [Next]_vars =>
        [\A a \in Account :
           (account[a].paused /\ ~account'[a].paused) =>
             \A k \in account[a].reasons : ~Used(left[a], k)]_vars
  BY PauseStep DEF IInv
<1>. QED
  BY <1>1, Invariant, PTL DEF Spec, RecoveryIsReal
=============================================================================
