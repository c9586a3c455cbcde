------------------------------ MODULE Dispatch ------------------------------
(***************************************************************************)
(* What the gateway promises, without leases, clocks or messages: an       *)
(* upstream request starts only where there is room for it, for each       *)
(* request at most MaxAttempts times, each time on another account, and    *)
(* never once the client has been sent any byte of an answer.              *)
(***************************************************************************)
EXTENDS Integers, FiniteSets

CONSTANTS Request, Account, NoAccount, MaxLimit, MaxGlobal, MaxAttempts

VARIABLES
  running,    \* running[r]: the account an upstream request of r runs on, or NoAccount
  used,       \* used[r]: the accounts r has been started on
  answered    \* the requests whose client has been sent something

dispatchVars == <<running, used, answered>>

On(a) == {r \in Request : running[r] = a}
Running == {r \in Request : running[r] # NoAccount}

Init ==
  /\ running = [r \in Request |-> NoAccount]
  /\ used = [r \in Request |-> {}]
  /\ answered = {}

Start(r, a) ==
  /\ running[r] = NoAccount
  /\ r \notin answered
  /\ a \notin used[r]
  /\ Cardinality(used[r]) < MaxAttempts
  /\ Cardinality(On(a)) < MaxLimit[a]
  /\ Cardinality(Running) < MaxGlobal
  /\ running' = [running EXCEPT ![r] = a]
  /\ used' = [used EXCEPT ![r] = @ \cup {a}]
  /\ UNCHANGED answered

\* The account is used up without an upstream request: the client had left.
Skip(r, a) ==
  /\ running[r] = NoAccount /\ a \notin used[r]
  /\ Cardinality(used[r]) < MaxAttempts
  /\ used' = [used EXCEPT ![r] = @ \cup {a}]
  /\ UNCHANGED <<running, answered>>

Stop(r) ==
  /\ running' = [running EXCEPT ![r] = NoAccount]
  /\ UNCHANGED <<used, answered>>

Answer(r) ==
  /\ answered' = answered \cup {r}
  /\ UNCHANGED <<running, used>>

Next == \E r \in Request :
  \/ \E a \in Account : Start(r, a) \/ Skip(r, a)
  \/ Stop(r)
  \/ Answer(r)

Spec == Init /\ [][Next]_dispatchVars
=============================================================================
