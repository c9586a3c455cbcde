------------------------------- MODULE Quota -------------------------------
(***************************************************************************)
(* What a snapshot of the upstream's usage says about an account's quotas: *)
(* shared/quota.ts, and confirmedQuotaReasons of account-quota.ts.  A      *)
(* field that is missing, or of a wrong type, is {}, and any other is the  *)
(* set of its value: windows[k] of one window, grant and credits of a      *)
(* number, summary of a reason, or of "none" where the upstream says null. *)
(* Times are in one unit, and an end of the period that is no date is 0.   *)
(***************************************************************************)
EXTENDS Integers, FiniteSets

WindowKey == {"fiveHour", "weekly", "monthly"}
Reason == WindowKey \cup {"unknown"}

Usage == [used : Int, cap : Int, exceeded : BOOLEAN, resetAt : Int]
Optional(S) == {{}} \cup {{x} : x \in S}
Snapshot ==
  [windows : [WindowKey -> Optional(Usage)], grant : Optional(Int), credits : Optional(Int),
   limited : BOOLEAN, periodEnd : Int, summary : Optional(Reason \cup {"none"})]

If(P, x) == IF P THEN {x} ELSE {}
-----------------------------------------------------------------------------
Valid(w) == {u \in w : u.used >= 0 /\ u.cap >= 0}

\* A balance of purchased credits above the grant says nothing about the month.
MonthlyWindow(s) ==
  {[used |-> p[1] - p[2], cap |-> p[1], exceeded |-> p[2] <= 0, resetAt |-> s.periodEnd] :
     p \in {q \in s.grant \X s.credits : q[1] > 0 /\ q[2] <= q[1]}}

Windows(s) ==
  [k \in WindowKey |->
     IF k = "monthly" /\ Valid(s.windows[k]) = {} THEN MonthlyWindow(s)
     ELSE Valid(s.windows[k])]

\* Without an allowance a balance of zero is one of an account that pays as it goes.
HasAllowance(s) ==
  \/ \E g \in s.grant : g > 0
  \/ s.limited
  \/ Valid(s.windows["monthly"]) # {}
  \/ \E k \in {"fiveHour", "weekly"} : \E u \in Valid(s.windows[k]) : u.cap > 0

MonthlyRemaining(s) == IF HasAllowance(s) THEN s.credits ELSE {}

Exhausted(u) == u.exceeded \/ u.used >= u.cap

\* getQuotaBlock, for a fresh snapshot (respectReset = false): why it blocks the account.
Reasons(s) ==
  {k \in WindowKey : \E u \in Windows(s)[k] : Exhausted(u)}
  \cup If(Windows(s)["monthly"] = {} /\ \E r \in MonthlyRemaining(s) : r <= 0, "monthly")
  \cup (s.summary \ {"none"})

\* A past reset in a fresh snapshot is not a promise of recovery.
FutureReset(s, k, now) ==
  {t \in IF k = "unknown" THEN {}
         ELSE IF k = "monthly" /\ Windows(s)[k] = {} THEN {s.periodEnd}
         ELSE {u.resetAt : u \in Windows(s)[k]} :
     t > 0 /\ t > now}

\* The last of the resets, where each of them is known.
ResumeAt(s, now) ==
  LET resets == UNION {FutureReset(s, k, now) : k \in Reasons(s)} IN
  IF \A k \in Reasons(s) : FutureReset(s, k, now) # {}
  THEN {t \in resets : \A u \in resets : u <= t}
  ELSE {}

\* Mutant: only a window confirms.
ConfirmedWindows(s) ==
  LET seen == {k \in WindowKey : Windows(s)[k] # {}} IN
  seen \cup If(s.summary = {"none"} /\ seen # {}, "unknown")

\* confirmedQuotaReasons: what the snapshot has an observation of.
Confirmed(s) ==
  LET seen == {k \in WindowKey : Windows(s)[k] # {}}
              \cup If(\E r \in MonthlyRemaining(s) : r > 0, "monthly")
  IN seen \cup If(s.summary = {"none"} /\ seen # {}, "unknown")

\* What the decisions about an account need of a snapshot; its times count from now.
Verdict(s) == [full |-> Reasons(s), seen |-> Confirmed(s), resumeAt |-> ResumeAt(s, 0)]

\* What holds of any snapshot's confirmed reasons and blocking ones.  A reason can be given
\* without a window that is seen: one by the summary, and monthly by the balance.  A summary
\* of null confirms "unknown" if anything else is seen.
Coherent(seen, full) ==
  LET unseen == (full \ seen) \ {"monthly"} IN
  /\ Cardinality(unseen) <= 1
  /\ "unknown" \in seen => unseen = {} /\ "unknown" \notin full /\ seen # {"unknown"}
=============================================================================
