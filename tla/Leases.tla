------------------------------- MODULE Leases -------------------------------
(***************************************************************************)
(* The concurrency leases of the gateway: the four Lua scripts of          *)
(* server/lib/gateway/scheduler.ts.  Redis runs a script atomically, so a  *)
(* script is one action.                                                   *)
(*                                                                         *)
(* A sorted set of leases maps a token to its score, the instant at which  *)
(* the lease expires.  The model keeps the score relative to the Redis     *)
(* clock (score - now, in ticks): a positive value is a live lease, 0 is a *)
(* lease that has expired and is still stored, NoEntry is an absent token. *)
(* Tick is the passing of time.  The PEXPIRE of the keys is left out: it   *)
(* is twice the life of a lease and renewed with every entry, so it can    *)
(* only drop keys all of whose entries have expired.                       *)
(*                                                                         *)
(* The specification has the most general client: any token and account    *)
(* may be passed to any script, so late, repeated and stray calls are      *)
(* part of it.  Gateway gives the scripts the callers the code has.        *)
(***************************************************************************)
EXTENDS Integers, FiniteSets

CONSTANTS
  Account,       \* managed accounts
  Token,         \* lease tokens (one random UUID per acquireLease call)
  Session,       \* affinity hashes
  NoAccount,     \* no account is bound to the session
  NoSession,     \* the request carries no session identifier
  LeaseTicks,    \* LEASE_MS
  MaxCooldown,   \* the longest cooldown classifyFailure asks for, in ticks
  MaxLimit,      \* MaxLimit[a]: the largest max_concurrency account a is given
  MaxGlobal      \* the largest value of the globalConcurrency setting

ASSUME LeasesAssumption ==
  /\ IsFiniteSet(Account) /\ IsFiniteSet(Token)
  /\ NoAccount \notin Account /\ NoSession \notin Session
  /\ LeaseTicks \in Nat \ {0} /\ MaxCooldown \in Nat \ {0}
  /\ MaxLimit \in [Account -> Nat \ {0}]
  /\ MaxGlobal \in Nat \ {0}

VARIABLES
  globalLeases,    \* zset leases:global
  accountLeases,   \* zset leases:account:<id>, one per account
  cooldown,        \* zset account-cooldowns: ticks left, 0 when not cooling down
  affinity         \* key affinity:<hash>: the account the session is bound to

leaseVars == <<globalLeases, accountLeases, cooldown, affinity>>
-----------------------------------------------------------------------------
NoEntry == -1
Zset == [Token -> NoEntry .. LeaseTicks]

Members(z) == {t \in Token : z[t] # NoEntry}          \* ZCARD counts these
Live(z)    == {t \in Token : z[t] > 0}
Prune(z)   == [t \in Token |-> IF z[t] = 0 THEN NoEntry ELSE z[t]]
Add(z, t)  == [z EXCEPT ![t] = LeaseTicks]
Drop(z, t) == [z EXCEPT ![t] = NoEntry]
\* Mutant: every entry ages, expired ones too.
AgeAll(z) == [t \in Token |-> z[t] - 1]

Age(z)     == [t \in Token |-> IF z[t] > 0 THEN z[t] - 1 ELSE z[t]]

InUse(z) == Cardinality(Members(Prune(z)))
-----------------------------------------------------------------------------
(***************************************************************************)
(* ACQUIRE.  lim is the candidate list: a function from the candidate      *)
(* accounts to the max_concurrency the caller read for them.               *)
(***************************************************************************)
\* Mutant: an account that is just full is eligible.
EligibleFull(lim) ==
  {a \in DOMAIN lim : cooldown[a] = 0 /\ InUse(accountLeases[a]) <= lim[a]}

Eligible(lim) ==
  {a \in DOMAIN lim : cooldown[a] = 0 /\ InUse(accountLeases[a]) < lim[a]}

\* The lowest count/limit ratio wins.  The round-robin counter, shared by all
\* the callers, decides ties: any tied account may be the first in rotation.
LeastLoaded(E, lim) ==
  {a \in E : \A b \in E :
      InUse(accountLeases[a]) * lim[b] <= InUse(accountLeases[b]) * lim[a]}

Preferred(s) == IF s = NoSession THEN NoAccount ELSE affinity[s]

Choices(lim, s) ==
  IF Preferred(s) \in Eligible(lim)
  THEN {Preferred(s)} ELSE LeastLoaded(Eligible(lim), lim)

GlobalFull(limit) == InUse(globalLeases) >= limit
AccountsFull(lim) == Eligible(lim) = {}

\* The walk over the candidates prunes each account it visits; it stops early
\* at the session's preferred account and is complete otherwise.
Acquire(t, lim, limit, s, a, visited) ==
  /\ ~GlobalFull(limit)
  /\ a \in Choices(lim, s)
  /\ {a} \subseteq visited /\ visited \subseteq DOMAIN lim
  /\ a = Preferred(s) \/ visited = DOMAIN lim
  /\ globalLeases' = Add(Prune(globalLeases), t)
  /\ accountLeases' =
       [b \in Account |->
          IF b = a THEN Add(Prune(accountLeases[b]), t)
          ELSE IF b \in visited THEN Prune(accountLeases[b])
          ELSE accountLeases[b]]
  /\ affinity' = IF s = NoSession THEN affinity ELSE [affinity EXCEPT ![s] = a]
  /\ UNCHANGED cooldown

RefuseGlobal(limit) ==
  /\ GlobalFull(limit)
  /\ globalLeases' = Prune(globalLeases)
  /\ UNCHANGED <<accountLeases, cooldown, affinity>>

RefuseAccounts(lim, limit) ==
  /\ ~GlobalFull(limit)
  /\ DOMAIN lim # {} /\ AccountsFull(lim)
  /\ globalLeases' = Prune(globalLeases)
  /\ accountLeases' = [b \in Account |-> IF b \in DOMAIN lim
                         THEN Prune(accountLeases[b]) ELSE accountLeases[b]]
  /\ UNCHANGED <<cooldown, affinity>>

\* RELEASE
Release(t, a) ==
  /\ globalLeases' = Drop(globalLeases, t)
  /\ accountLeases' = [accountLeases EXCEPT ![a] = Drop(@, t)]
  /\ UNCHANGED <<cooldown, affinity>>

\* Mutant: the scores are not compared with the clock.
RenewableStored(t, a) == globalLeases[t] # NoEntry /\ accountLeases[a][t] # NoEntry

\* RENEW: both halves must still be live; otherwise both are removed.
Renewable(t, a) == globalLeases[t] > 0 /\ accountLeases[a][t] > 0

\* Mutant: only the global half is extended.
ExtendGlobal(t, a) ==
  /\ globalLeases' = Add(globalLeases, t)
  /\ UNCHANGED <<accountLeases, cooldown, affinity>>

Extend(t, a) ==
  /\ globalLeases' = Add(globalLeases, t)
  /\ accountLeases' = [accountLeases EXCEPT ![a] = Add(@, t)]
  /\ UNCHANGED <<cooldown, affinity>>

Renew(t, a) == IF Renewable(t, a) THEN Extend(t, a) ELSE Release(t, a)

\* Mutant: the last cooldown wins.
CoolDownLast(a, n) ==
  /\ cooldown' = [cooldown EXCEPT ![a] = n]
  /\ UNCHANGED <<globalLeases, accountLeases, affinity>>

\* COOLDOWN: a cooldown is never shortened.
CoolDown(a, n) ==
  /\ cooldown' = [cooldown EXCEPT ![a] = IF @ < n THEN n ELSE @]
  /\ UNCHANGED <<globalLeases, accountLeases, affinity>>

\* The affinity key's own TTL runs out.
AffinityExpires(s) ==
  /\ affinity[s] # NoAccount
  /\ affinity' = [affinity EXCEPT ![s] = NoAccount]
  /\ UNCHANGED <<globalLeases, accountLeases, cooldown>>

LeaseTick ==
  /\ globalLeases' = Age(globalLeases)
  /\ accountLeases' = [a \in Account |-> Age(accountLeases[a])]
  /\ cooldown' = [a \in Account |-> IF cooldown[a] > 0 THEN cooldown[a] - 1 ELSE 0]
  /\ UNCHANGED affinity
-----------------------------------------------------------------------------
\* The candidate lists a caller may pass: accounts with a positive limit, as
\* acquireLease's filter leaves them.  An empty list never reaches the script.
Candidates ==
  UNION {{lim \in [S -> UNION {1 .. MaxLimit[a] : a \in S}] :
            \A a \in S : lim[a] \in 1 .. MaxLimit[a]} : S \in SUBSET Account}

Init ==
  /\ globalLeases = [t \in Token |-> NoEntry]
  /\ accountLeases = [a \in Account |-> [t \in Token |-> NoEntry]]
  /\ cooldown = [a \in Account |-> 0]
  /\ affinity = [s \in Session |-> NoAccount]

AcquireSome ==
  \E t \in Token, lim \in Candidates, limit \in 1 .. MaxGlobal,
     s \in Session \cup {NoSession}, a \in Account, visited \in SUBSET Account :
       Acquire(t, lim, limit, s, a, visited)

RefuseSome ==
  \E lim \in Candidates, limit \in 1 .. MaxGlobal :
    RefuseGlobal(limit) \/ RefuseAccounts(lim, limit)

ReleaseSome  == \E t \in Token, a \in Account : Release(t, a)
RenewSome    == \E t \in Token, a \in Account : Renew(t, a)
CoolDownSome == \E a \in Account, n \in 1 .. MaxCooldown : CoolDown(a, n)
ExpireSome   == \E s \in Session : AffinityExpires(s)

Next == \/ AcquireSome \/ RefuseSome \/ ReleaseSome \/ RenewSome
        \/ CoolDownSome \/ ExpireSome \/ LeaseTick

Spec == Init /\ [][Next]_leaseVars
-----------------------------------------------------------------------------
TypeOK ==
  /\ globalLeases \in Zset
  /\ accountLeases \in [Account -> Zset]
  /\ cooldown \in [Account -> 0 .. MaxCooldown]
  /\ affinity \in [Session -> Account \cup {NoAccount}]

(***************************************************************************)
(* Whatever callers do, in whatever order, with limits that change between *)
(* calls: a sorted set never holds more entries than the largest limit it  *)
(* was ever filled under, the expired entries it still stores included.    *)
(***************************************************************************)
Capacity ==
  /\ Cardinality(Members(globalLeases)) <= MaxGlobal
  /\ \A a \in Account : Cardinality(Members(accountLeases[a])) <= MaxLimit[a]

(***************************************************************************)
(* A dead lease comes back to life only where there is room for it, and    *)
(* never on an account that is cooling down: a late or repeated RENEW does *)
(* not resurrect a lease that expired or was released.                     *)
(***************************************************************************)
Admission ==
  [][\A t \in Token :
       /\ t \in Live(globalLeases)' \ Live(globalLeases)
            => Cardinality(Live(globalLeases)) < MaxGlobal
       /\ \A a \in Account :
            t \in Live(accountLeases[a])' \ Live(accountLeases[a])
              => /\ Cardinality(Live(accountLeases[a])) < MaxLimit[a]
                 /\ cooldown[a] = 0]_leaseVars

(***************************************************************************)
(* A cooldown runs its course: a later, shorter one does not cut it short, *)
(* and only the passing of time takes it away.                             *)
(***************************************************************************)
CooldownHolds ==
  [][\A a \in Account :
       cooldown'[a] < cooldown[a] =>
         /\ cooldown'[a] = cooldown[a] - 1
         /\ \A t \in Token : globalLeases[t] > 0 => globalLeases'[t] = globalLeases[t] - 1
    ]_leaseVars
=============================================================================
