---------------------------- MODULE QuotaProofs ----------------------------
(***************************************************************************)
(* What saveAccountSnapshot and completeAccountSync may rely on in any     *)
(* snapshot of the upstream: the reasons that Quota reads from it agree.   *)
(***************************************************************************)
EXTENDS Quota, FiniteSetTheorems, TLAPS

\* A summary names one reason at most (snapshot.windowLimits.exceeded is one string or null).
LEMMA SummaryIsOne ==
  ASSUME NEW s \in Snapshot
  PROVE  \E r : s.summary \subseteq {r}
<1>1. s.summary \in Optional(Reason \cup {"none"})
  BY DEF Snapshot
<1>2. CASE s.summary = {}
  BY <1>2
<1>3. CASE \E x \in Reason \cup {"none"} : s.summary = {x}
  BY <1>3
<1> QED BY <1>1, <1>2, <1>3 DEF Optional

\* A window that is exhausted is there, so only the summary and the monthly balance
\* block without a window that confirmedQuotaReasons counts as seen.
LEMMA UnseenIsSummary ==
  ASSUME NEW s
  PROVE  (Reasons(s) \ Confirmed(s)) \ {"monthly"} \subseteq s.summary \ {"none"}
<1> SUFFICES ASSUME NEW k \in Reasons(s), k \notin Confirmed(s), k # "monthly"
             PROVE  k \in s.summary \ {"none"}
  OBVIOUS
<1>1. ~(k \in WindowKey /\ \E u \in Windows(s)[k] : Exhausted(u))
  BY DEF Confirmed
<1> QED BY <1>1 DEF Reasons, If

\* Any snapshot's confirmed and blocking reasons are coherent, which AccountSync
\* assumes of the observations it enumerates (confirmedQuotaReasons and
\* getQuotaBlock read the same windows, balance and summary).
THEOREM SnapshotsCoherent ==
  ASSUME NEW s \in Snapshot
  PROVE  Coherent(Confirmed(s), Reasons(s))
<1> DEFINE unseen == (Reasons(s) \ Confirmed(s)) \ {"monthly"}
           seen   == {k \in WindowKey : Windows(s)[k] # {}}
                     \cup If(\E r \in MonthlyRemaining(s) : r > 0, "monthly")
<1>1. unseen \subseteq s.summary \ {"none"}
  BY UnseenIsSummary
<1>2. IsFiniteSet(unseen) /\ Cardinality(unseen) <= 1
  <2>1. PICK r : s.summary \subseteq {r}
    BY SummaryIsOne
  <2>2. unseen \subseteq {r}
    BY <1>1, <2>1
  <2>3. IsFiniteSet({r}) /\ Cardinality({r}) = 1
    BY FS_Singleton
  <2>4. IsFiniteSet(unseen) /\ Cardinality(unseen) <= Cardinality({r})
    BY ONLY <2>2, <2>3, FS_Subset
  <2> QED BY <2>3, <2>4
<1>3. ASSUME "unknown" \in Confirmed(s)
      PROVE  unseen = {} /\ "unknown" \notin Reasons(s) /\ Confirmed(s) # {"unknown"}
  <2>1. "unknown" \notin WindowKey
    BY DEF WindowKey
  <2>2. "unknown" \notin seen
    BY <2>1 DEF If
  <2>3. s.summary = {"none"} /\ seen # {}
    BY <1>3, <2>2 DEF Confirmed, If
  <2>4. unseen = {}
    BY <1>1, <2>3
  <2>5. "unknown" \notin Reasons(s)
    BY <2>1, <2>3 DEF Reasons, If
  <2>6. Confirmed(s) # {"unknown"}
    BY <2>2, <2>3 DEF Confirmed
  <2> QED BY <2>4, <2>5, <2>6
<1> QED BY <1>2, <1>3 DEF Coherent
=============================================================================
