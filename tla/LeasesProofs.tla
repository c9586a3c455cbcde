---------------------------- MODULE LeasesProofs ----------------------------
(***************************************************************************)
(* Proofs about the leases: the scripts keep every sorted set within its   *)
(* limit, let a lease in only where there is room, and let a cooldown run  *)
(* its course, for any number of accounts, tokens and sessions, any limits *)
(* and any life of a lease.                                                *)
(***************************************************************************)
EXTENDS Leases, FiniteSetTheorems, TLAPS

USE LeasesAssumption DEF NoEntry
-----------------------------------------------------------------------------
(* What the operators on sorted sets do. *)

\* The members of a sorted set are finitely many.
LEMMA MembersFinite ==
  ASSUME NEW z
  PROVE  IsFiniteSet(Members(z))
BY FS_Subset DEF Members

\* A script leaves a sorted set of the same type.
LEMMA ZsetClosed ==
  ASSUME NEW z \in Zset, NEW t \in Token
  PROVE  /\ Prune(z) \in Zset /\ Add(z, t) \in Zset
         /\ Drop(z, t) \in Zset /\ Age(z) \in Zset
BY DEF Zset, Prune, Add, Drop, Age

\* Pruning leaves the live leases, so that InUse counts those.
LEMMA PruneLeavesLive ==
  ASSUME NEW z \in Zset
  PROVE  Members(Prune(z)) = Live(z) /\ Live(z) \subseteq Members(z)
BY DEF Zset, Members, Prune, Live

\* Time removes no entry and brings no lease to life.
LEMMA AgeKeeps ==
  ASSUME NEW z \in Zset
  PROVE  Members(Age(z)) = Members(z) /\ Live(Age(z)) \subseteq Live(z)
BY DEF Zset, Members, Age, Live

\* Dropping an entry adds no member and no live lease.
LEMMA DropShrinks ==
  ASSUME NEW z \in Zset, NEW t \in Token
  PROVE  Members(Drop(z, t)) \subseteq Members(z) /\ Live(Drop(z, t)) \subseteq Live(z)
BY DEF Zset, Members, Drop, Live

\* Extending a live lease changes neither.
LEMMA ExtendKeeps ==
  ASSUME NEW z \in Zset, NEW t \in Token, z[t] > 0
  PROVE  Members(Add(z, t)) = Members(z) /\ Live(Add(z, t)) = Live(z)
BY DEF Zset, Members, Add, Live

\* A new lease adds one member to those that are live.
LEMMA AddAfterPrune ==
  ASSUME NEW z \in Zset, NEW t \in Token
  PROVE  /\ Members(Add(Prune(z), t)) = Live(z) \cup {t}
         /\ Live(Add(Prune(z), t)) = Live(z) \cup {t}
BY DEF Zset, Members, Prune, Add, Live

\* A subset of a sorted set that fits a limit fits it too.
LEMMA Fits ==
  ASSUME NEW z, NEW S, S \subseteq Members(z), NEW n \in Nat, Cardinality(Members(z)) <= n
  PROVE  Cardinality(S) <= n
<1>1. IsFiniteSet(Members(z)) /\ IsFiniteSet(S)
  BY MembersFinite, FS_Subset
<1>2. Cardinality(S) <= Cardinality(Members(z))
  BY <1>1, FS_Subset
<1> QED
  BY <1>1, <1>2, FS_CardinalityType

\* A lease let in below a limit stays within it.
LEMMA AdmitFits ==
  ASSUME NEW z \in Zset, NEW t \in Token, NEW n \in Nat, NEW m \in Nat, m <= n,
         InUse(z) < m
  PROVE  Cardinality(Members(Add(Prune(z), t))) <= n /\ Cardinality(Live(z)) < n
<1>1. IsFiniteSet(Live(z)) /\ Cardinality(Live(z)) < m
  BY MembersFinite, PruneLeavesLive DEF InUse
<1>2. Cardinality(Live(z)) \in Nat
  BY <1>1, FS_CardinalityType
<1>3. Cardinality(Live(z) \cup {t})
        = IF t \in Live(z) THEN Cardinality(Live(z)) ELSE Cardinality(Live(z)) + 1
  BY <1>1, FS_AddElement
<1>4. Members(Add(Prune(z), t)) = Live(z) \cup {t}
  BY AddAfterPrune
<1> QED
  BY <1>1, <1>2, <1>3, <1>4
-----------------------------------------------------------------------------
(* What the scripts may choose from. *)

\* A candidate's limit is a positive number not above the account's largest.
LEMMA CandidateLimits ==
  ASSUME NEW lim \in Candidates, NEW a \in DOMAIN lim
  PROVE  a \in Account /\ lim[a] \in Nat /\ lim[a] <= MaxLimit[a] /\ MaxLimit[a] \in Nat
BY DEF Candidates

\* The account chosen is a candidate with room that is not cooling down.
LEMMA ChosenHasRoom ==
  ASSUME NEW lim, NEW s, NEW a \in Choices(lim, s)
  PROVE  a \in DOMAIN lim /\ cooldown[a] = 0 /\ InUse(accountLeases[a]) < lim[a]
BY DEF Choices, LeastLoaded, Eligible

-----------------------------------------------------------------------------
(* Types. *)

\* Every script and the clock keep the types.
LEMMA TypeStep == TypeOK /\ [Next]_leaseVars => TypeOK'
<1> SUFFICES ASSUME TypeOK, [Next]_leaseVars PROVE TypeOK'
  OBVIOUS
<1> USE DEF TypeOK
<1>1. CASE AcquireSome
  <2> PICK t \in Token, lim \in Candidates, limit \in 1 .. MaxGlobal,
           s \in Session \cup {NoSession}, a \in Account, visited \in SUBSET Account :
             Acquire(t, lim, limit, s, a, visited)
    BY <1>1 DEF AcquireSome
  <2>1. globalLeases' \in Zset /\ accountLeases' \in [Account -> Zset]
    BY ZsetClosed DEF Acquire
  <2>2. affinity' \in [Session -> Account \cup {NoAccount}]
    BY DEF Acquire
  <2> QED
    BY <2>1, <2>2 DEF Acquire
<1>2. CASE RefuseSome
  <2>1. \A z \in Zset : Prune(z) \in Zset
    BY DEF Zset, Prune
  <2>2. ASSUME NEW limit, RefuseGlobal(limit) PROVE TypeOK'
    BY <2>1, <2>2 DEF RefuseGlobal
  <2>3. ASSUME NEW lim, NEW limit, RefuseAccounts(lim, limit) PROVE TypeOK'
    BY <2>1, <2>3 DEF RefuseAccounts
  <2> QED
    BY <1>2, <2>2, <2>3 DEF RefuseSome
<1>0. ASSUME NEW t \in Token, NEW a \in Account, Release(t, a)
      PROVE  TypeOK'
  BY <1>0, ZsetClosed DEF Release
<1>3. CASE ReleaseSome
  BY <1>0, <1>3 DEF ReleaseSome
<1>4. CASE RenewSome
  <2> PICK t \in Token, a \in Account : Renew(t, a)
    BY <1>4 DEF RenewSome
  <2>1. Extend(t, a) \/ Release(t, a)
    BY DEF Renew
  <2>2. CASE Extend(t, a)
    BY <2>2, ZsetClosed DEF Extend
  <2> QED
    BY <1>0, <2>1, <2>2
<1>5. CASE CoolDownSome
  BY <1>5 DEF CoolDownSome, CoolDown
<1>6. CASE ExpireSome
  BY <1>6 DEF ExpireSome, AffinityExpires
<1>7. CASE LeaseTick
  <2>1. \A z \in Zset : Age(z) \in Zset
    BY DEF Zset, Age
  <2> QED
    BY <1>7, <2>1 DEF LeaseTick
<1>8. CASE UNCHANGED leaseVars
  BY <1>8 DEF leaseVars
<1> QED
  BY <1>1, <1>2, <1>3, <1>4, <1>5, <1>6, <1>7, <1>8 DEF Next

\* The four sorted sets and keys keep their types, whoever calls the scripts.
THEOREM TypeCorrect == Spec => []TypeOK
<1>1. Init => TypeOK
  BY DEF Init, TypeOK, Zset
<1> QED
  BY <1>1, TypeStep, PTL DEF Spec
-----------------------------------------------------------------------------
(* Capacity. *)

\* A step takes members away from a sorted set, or adds none, and revives none;
\* or it lets one lease in where there is room.
Shrinks(z, y) == Members(y) \subseteq Members(z) /\ Live(y) \subseteq Live(z)
Admits(z, y, n) ==
  \E t \in Token : \E m \in Nat : m <= n /\ InUse(z) < m /\ y = Add(Prune(z), t)

Quiet == /\ Shrinks(globalLeases, globalLeases')
         /\ \A a \in Account : Shrinks(accountLeases[a], accountLeases'[a])

\* Each operator but the adding of a lease shrinks a sorted set.
LEMMA OperatorsShrink ==
  ASSUME NEW z \in Zset
  PROVE  /\ Shrinks(z, z) /\ Shrinks(z, Prune(z)) /\ Shrinks(z, Age(z))
         /\ \A t \in Token : Shrinks(z, Drop(z, t))
         /\ \A t \in Token : z[t] > 0 => Shrinks(z, Add(z, t))
<1>1. Shrinks(z, z) /\ Shrinks(z, Prune(z))
  BY DEF Shrinks, Zset, Members, Live, Prune
<1>2. Shrinks(z, Age(z))
  BY AgeKeeps DEF Shrinks
<1>3. \A t \in Token : Shrinks(z, Drop(z, t))
  BY DropShrinks DEF Shrinks
<1>4. \A t \in Token : z[t] > 0 => Shrinks(z, Add(z, t))
  BY ExtendKeeps DEF Shrinks
<1> QED
  BY <1>1, <1>2, <1>3, <1>4

\* ACQUIRE admits one lease, globally and on an account that is not cooling down.
LEMMA AcquireAdmits ==
  ASSUME TypeOK, AcquireSome
  PROVE  /\ Admits(globalLeases, globalLeases', MaxGlobal)
         /\ \A a \in Account :
              \/ Shrinks(accountLeases[a], accountLeases'[a])
              \/ Admits(accountLeases[a], accountLeases'[a], MaxLimit[a]) /\ cooldown[a] = 0
<1> USE DEF TypeOK
<1> PICK t \in Token, lim \in Candidates, limit \in 1 .. MaxGlobal,
         s \in Session \cup {NoSession}, a \in Account, visited \in SUBSET Account :
           Acquire(t, lim, limit, s, a, visited)
  BY DEF AcquireSome
<1>1. Admits(globalLeases, globalLeases', MaxGlobal)
  <2>1. InUse(globalLeases) < limit
    <3>1. InUse(globalLeases) \in Nat
      BY MembersFinite, FS_CardinalityType DEF InUse
    <3> QED
      BY <3>1 DEF Acquire, GlobalFull
  <2> QED
    BY <2>1 DEF Acquire, Admits
<1>2. ASSUME NEW b \in Account, b # a
      PROVE  Shrinks(accountLeases[b], accountLeases'[b])
  <2>1. accountLeases'[b] \in {accountLeases[b], Prune(accountLeases[b])}
    BY <1>2 DEF Acquire
  <2> QED
    BY <2>1, OperatorsShrink
<1>3. Admits(accountLeases[a], accountLeases'[a], MaxLimit[a]) /\ cooldown[a] = 0
  <2>1. a \in DOMAIN lim /\ cooldown[a] = 0 /\ InUse(accountLeases[a]) < lim[a]
    BY ChosenHasRoom DEF Acquire
  <2>2. lim[a] \in Nat /\ lim[a] <= MaxLimit[a]
    BY <2>1, CandidateLimits
  <2>3. accountLeases'[a] = Add(Prune(accountLeases[a]), t)
    BY DEF Acquire
  <2> QED
    BY <2>1, <2>2, <2>3 DEF Admits
<1> QED
  BY <1>1, <1>2, <1>3

\* Every other step, a renewal included, admits none.
LEMMA OthersQuiet ==
  ASSUME TypeOK, [Next]_leaseVars, ~AcquireSome
  PROVE  Quiet
<1> USE DEF TypeOK, Quiet
<1>1. CASE RefuseSome
  BY <1>1, OperatorsShrink DEF RefuseSome, RefuseGlobal, RefuseAccounts
<1>2. ASSUME NEW t \in Token, NEW a \in Account, Release(t, a)
      PROVE  Quiet
  BY <1>2, OperatorsShrink DEF Release
<1>3. CASE ReleaseSome
  BY <1>2, <1>3 DEF ReleaseSome
<1>4. CASE RenewSome
  <2> PICK t \in Token, a \in Account : Renew(t, a)
    BY <1>4 DEF RenewSome
  <2>1. CASE Renewable(t, a)
    <3>1. /\ globalLeases' = Add(globalLeases, t)
          /\ accountLeases' = [accountLeases EXCEPT ![a] = Add(accountLeases[a], t)]
      BY <2>1 DEF Renew, Extend
    <3>2. globalLeases[t] > 0 /\ accountLeases[a][t] > 0
      BY <2>1 DEF Renewable
    <3> QED
      BY <3>1, <3>2, OperatorsShrink
  <2>2. CASE ~Renewable(t, a)
    BY <1>2, <2>2 DEF Renew
  <2> QED
    BY <2>1, <2>2
<1>5. CASE CoolDownSome
  BY <1>5, OperatorsShrink DEF CoolDownSome, CoolDown
<1>6. CASE ExpireSome
  BY <1>6, OperatorsShrink DEF ExpireSome, AffinityExpires
<1>7. CASE LeaseTick
  BY <1>7, OperatorsShrink DEF LeaseTick
<1>8. CASE UNCHANGED leaseVars
  BY <1>8, OperatorsShrink DEF leaseVars
<1> QED
  BY <1>1, <1>3, <1>4, <1>5, <1>6, <1>7, <1>8 DEF Next

\* Neither way does a sorted set outgrow a limit it fits.
LEMMA ShrinkFits ==
  ASSUME NEW z \in Zset, NEW y, NEW n \in Nat, Cardinality(Members(z)) <= n,
         Shrinks(z, y) \/ Admits(z, y, n)
  PROVE  Cardinality(Members(y)) <= n
<1>1. CASE Shrinks(z, y)
  BY <1>1, Fits DEF Shrinks
<1>2. CASE Admits(z, y, n)
  BY <1>2, AdmitFits DEF Admits
<1> QED
  BY <1>1, <1>2

\* No sorted set ever holds more entries than its largest limit: what callers
\* pass, how often scripts run, and when, makes no difference.
THEOREM CapacityHolds == Spec => []Capacity
<1>1. Init => Capacity
  <2> SUFFICES ASSUME Init PROVE Capacity
    OBVIOUS
  <2>1. Members(globalLeases) = {} /\ \A a \in Account : Members(accountLeases[a]) = {}
    BY DEF Init, Members
  <2>2. Cardinality({}) = 0
    BY FS_EmptySet
  <2> QED
    BY <2>1, <2>2 DEF Capacity
<1>2. TypeOK /\ Capacity /\ [Next]_leaseVars => Capacity'
  <2> SUFFICES ASSUME TypeOK, Capacity, [Next]_leaseVars PROVE Capacity'
    OBVIOUS
  <2>1. /\ Shrinks(globalLeases, globalLeases') \/ Admits(globalLeases, globalLeases', MaxGlobal)
        /\ \A a \in Account : \/ Shrinks(accountLeases[a], accountLeases'[a])
                              \/ Admits(accountLeases[a], accountLeases'[a], MaxLimit[a])
    BY AcquireAdmits, OthersQuiet DEF Quiet
  <2>2. /\ globalLeases \in Zset /\ MaxGlobal \in Nat
        /\ \A a \in Account : accountLeases[a] \in Zset /\ MaxLimit[a] \in Nat
    BY DEF TypeOK
  <2> QED
    BY <2>1, <2>2, ShrinkFits DEF Capacity
<1> QED
  BY <1>1, <1>2, TypeCorrect, PTL DEF Spec
-----------------------------------------------------------------------------
(* Admission and cooldowns. *)

\* A lease that was dead and is live was admitted, below the limit.
LEMMA RevivedHadRoom ==
  ASSUME NEW z \in Zset, NEW y, NEW n \in Nat, NEW t \in Live(y) \ Live(z),
         Shrinks(z, y) \/ Admits(z, y, n)
  PROVE  Admits(z, y, n) /\ Cardinality(Live(z)) < n
<1>1. Admits(z, y, n)
  BY DEF Shrinks
<1> QED
  BY <1>1, AdmitFits DEF Admits

\* A dead lease comes to life only in an ACQUIRE that finds room for it, on an
\* account that is not cooling down: a late or repeated RENEW revives nothing.
THEOREM AdmissionHolds == Spec => Admission
<1>1. TypeOK /\ [Next]_leaseVars =>
        \A t \in Token :
          /\ t \in Live(globalLeases)' \ Live(globalLeases)
               => Cardinality(Live(globalLeases)) < MaxGlobal
          /\ \A a \in Account :
               t \in Live(accountLeases[a])' \ Live(accountLeases[a])
                 => /\ Cardinality(Live(accountLeases[a])) < MaxLimit[a]
                    /\ cooldown[a] = 0
  <2> SUFFICES ASSUME TypeOK, [Next]_leaseVars, NEW t \in Token
      PROVE  /\ t \in Live(globalLeases') \ Live(globalLeases)
                  => Cardinality(Live(globalLeases)) < MaxGlobal
             /\ \A a \in Account :
                  t \in Live(accountLeases'[a]) \ Live(accountLeases[a])
                    => /\ Cardinality(Live(accountLeases[a])) < MaxLimit[a]
                       /\ cooldown[a] = 0
    OBVIOUS
  <2>1. /\ Shrinks(globalLeases, globalLeases') \/ Admits(globalLeases, globalLeases', MaxGlobal)
        /\ \A a \in Account :
             \/ Shrinks(accountLeases[a], accountLeases'[a])
             \/ Admits(accountLeases[a], accountLeases'[a], MaxLimit[a]) /\ cooldown[a] = 0
    BY AcquireAdmits, OthersQuiet DEF Quiet
  <2>2. /\ globalLeases \in Zset /\ MaxGlobal \in Nat
        /\ \A a \in Account : accountLeases[a] \in Zset /\ MaxLimit[a] \in Nat
    BY DEF TypeOK
  <2>3. t \in Live(globalLeases') \ Live(globalLeases) => Cardinality(Live(globalLeases)) < MaxGlobal
    BY <2>1, <2>2, RevivedHadRoom
  <2>4. ASSUME NEW a \in Account, t \in Live(accountLeases'[a]) \ Live(accountLeases[a])
        PROVE  Cardinality(Live(accountLeases[a])) < MaxLimit[a] /\ cooldown[a] = 0
    <3>1. ~Shrinks(accountLeases[a], accountLeases'[a])
      BY <2>4 DEF Shrinks
    <3> QED
      BY <2>1, <2>2, <2>4, <3>1, RevivedHadRoom
  <2> QED
    BY <2>3, <2>4
<1> QED
  BY <1>1, TypeCorrect, PTL DEF Spec, Admission

\* A cooldown is cut short by nothing but the clock, which ages the leases too.
THEOREM CooldownRuns == Spec => CooldownHolds
<1>1. TypeOK /\ [Next]_leaseVars =>
        \A a \in Account :
          cooldown'[a] < cooldown[a] =>
            /\ cooldown'[a] = cooldown[a] - 1
            /\ \A t \in Token : globalLeases[t] > 0 => globalLeases'[t] = globalLeases[t] - 1
  <2> SUFFICES ASSUME TypeOK, [Next]_leaseVars, NEW a \in Account, cooldown'[a] < cooldown[a]
      PROVE  /\ cooldown'[a] = cooldown[a] - 1
             /\ \A t \in Token : globalLeases[t] > 0 => globalLeases'[t] = globalLeases[t] - 1
    OBVIOUS
  <2> USE DEF TypeOK
  <2>1. CASE LeaseTick
    BY <2>1 DEF LeaseTick, Age, Zset
  <2>2. CASE CoolDownSome
    BY <2>2 DEF CoolDownSome, CoolDown
  <2>3. CASE UNCHANGED cooldown
    BY <2>3
  <2>4. \/ LeaseTick \/ CoolDownSome \/ UNCHANGED cooldown
    BY DEF Next, leaseVars, AcquireSome, Acquire, RefuseSome, RefuseGlobal, RefuseAccounts,
           ReleaseSome, RenewSome, Renew, Release, Extend, ExpireSome, AffinityExpires
  <2> QED
    BY <2>1, <2>2, <2>3, <2>4
<1> QED
  BY <1>1, TypeCorrect, PTL DEF Spec, CooldownHolds
=============================================================================
