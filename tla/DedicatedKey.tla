---------------------------- MODULE DedicatedKey ----------------------------
(***************************************************************************)
(* ensureDedicatedKey of worker/keys.ts for one account: the upstream key  *)
(* is created under a durable intent, because the upstream has no          *)
(* idempotency token and a create whose answer is lost may or may not have *)
(* happened, or happen later.  syncAccount runs it under the account lock  *)
(* of worker/coordination.ts, which is asserted before every upstream      *)
(* request and can be lost in between.                                     *)
(***************************************************************************)
EXTENDS Integers, FiniteSets

CONSTANTS
  Worker,     \* concurrent runs of syncAccount for the account
  NoWorker,
  KeyId,      \* identifiers the upstream may give to keys we create
  Foreign,    \* the identifier of a key of our name that is not ours
  NoKey,
  MaxFaults,  \* bound: crashes and upstream calls that fail
  MaxLapses   \* bound: times a live worker loses the lock

ASSUME KeyAssumption ==
  /\ NoWorker \notin Worker
  /\ Foreign \notin KeyId /\ NoKey \notin KeyId \cup {Foreign}
  /\ MaxFaults \in Nat /\ MaxLapses \in Nat

VARIABLES
  upstream,   \* the keys named ccm-<account> that exist upstream
  creating,   \* keys of create requests sent and not executed
  deleting,   \* keys of delete requests given up on and not executed
  used,       \* every key a create request was sent for
  intent,     \* the row of key_creation_intents
  saved,      \* the key whose secret is in api_key_ciphertext
  savedId,    \* api_key_id
  lock,       \* ccm:sync:lock
  pc,         \* of each worker
  read,       \* the intent each worker has read
  matches,    \* the keys of our name it was listed
  own,        \* the key it has asked for
  faults, lapses

upstreamVars == <<upstream, creating, deleting, used>>
accountVars  == <<saved, savedId>>
memory       == <<read, matches, own>>
vars == <<upstreamVars, intent, accountVars, lock, pc, memory, faults, lapses>>
-----------------------------------------------------------------------------
NoIntent == [state |-> "none", orphan |-> NoKey, replaced |-> 0]
Prepared == [NoIntent EXCEPT !.state = "prepared"]

At(w, l) == pc[w] = l
Goto(w, l) == pc' = [pc EXCEPT ![w] = l] /\ UNCHANGED lock
Owns(w) == lock = w
Fault == faults < MaxFaults /\ faults' = faults + 1

\* The run ends, returning or throwing; memory is reset for the next one.
Leave(w) ==
  /\ pc' = [pc EXCEPT ![w] = "idle"]
  /\ lock' = IF Owns(w) THEN NoWorker ELSE lock
  /\ read' = [read EXCEPT ![w] = NoIntent]
  /\ matches' = [matches EXCEPT ![w] = {}]
  /\ own' = [own EXCEPT ![w] = NoKey]

\* withAccountLock
Begin(w) ==
  /\ At(w, "idle") /\ lock = NoWorker
  /\ pc' = [pc EXCEPT ![w] = "check"] /\ lock' = w
  /\ UNCHANGED <<upstreamVars, intent, accountVars, memory, faults, lapses>>

HasKey(w) ==
  /\ At(w, "check") /\ saved # NoKey /\ Leave(w)
  /\ UNCHANGED <<upstreamVars, intent, accountVars, faults, lapses>>

NeedsKey(w) ==
  /\ At(w, "check") /\ saved = NoKey /\ Goto(w, "intent")
  /\ UNCHANGED <<upstreamVars, intent, accountVars, memory, faults, lapses>>

\* INSERT ... ON CONFLICT DO NOTHING, and the row is read.
ReadIntent(w) ==
  /\ At(w, "intent")
  /\ intent' = IF intent.state = "none" THEN Prepared ELSE intent
  /\ IF intent'.state = "blocked"
     THEN Leave(w)
     ELSE /\ Goto(w, "list") /\ read' = [read EXCEPT ![w] = intent']
          /\ UNCHANGED <<matches, own>>
  /\ UNCHANGED <<upstreamVars, accountVars, faults, lapses>>

\* assertLock throws before a request to the upstream.
LockLost(w) ==
  /\ pc[w] \in {"list", "delete", "confirm", "create", "lookup"} /\ ~Owns(w)
  /\ Leave(w)
  /\ UNCHANGED <<upstreamVars, intent, accountVars, faults, lapses>>

\* The key list, or nothing, arrives.
ListKeys(w) ==
  /\ At(w, "list") /\ Owns(w) /\ Goto(w, "decide")
  /\ matches' = [matches EXCEPT ![w] = upstream]
  /\ UNCHANGED <<upstreamVars, intent, accountVars, read, own, faults, lapses>>

ListFails(w) ==
  /\ pc[w] \in {"list", "confirm", "lookup"} /\ Owns(w) /\ Fault /\ Leave(w)
  /\ UNCHANGED <<upstreamVars, intent, accountVars, lapses>>

\* Mutant: a match is taken for ours even before anything was created.
ConflictMany(w) == Cardinality(matches[w]) > 1

Conflict(w) ==
  \/ Cardinality(matches[w]) > 1
  \/ read[w].state = "prepared" /\ matches[w] # {}

Block(w) ==
  /\ At(w, "decide") /\ Conflict(w)
  /\ intent' = [intent EXCEPT !.state = "blocked"] /\ Leave(w)
  /\ UNCHANGED <<upstreamVars, accountVars, faults, lapses>>

\* Mutant: a create with no visible result is taken for one that did not happen.
UncertainNever(w) == read[w].state = "creating" /\ read[w].replaced >= 1

\* Mutant: replacements are not counted.
UncertainUncounted(w) == read[w].state = "creating" /\ matches[w] = {}

Uncertain(w) ==
  read[w].state = "creating" /\ (matches[w] = {} \/ read[w].replaced >= 1)

\* Nothing is certain, another key took the orphan's name, or the intent is complete.
OtherKey(w) == \E k \in matches[w] : read[w].orphan \notin {NoKey, k}

GiveUp(w) ==
  /\ At(w, "decide") /\ ~Conflict(w)
  /\ Uncertain(w) \/ OtherKey(w) \/ read[w].state = "complete"
  /\ Leave(w)
  /\ UNCHANGED <<upstreamVars, intent, accountVars, faults, lapses>>

Proceeds(w) == At(w, "decide") /\ ~Conflict(w) /\ ~Uncertain(w) /\ ~OtherKey(w)

UsePrepared(w) ==
  /\ Proceeds(w) /\ read[w].state = "prepared" /\ Goto(w, "claim")
  /\ UNCHANGED <<upstreamVars, intent, accountVars, memory, faults, lapses>>

\* An orphan of ours is revoked first; one already revoked is not there any more.
Replace(w) ==
  /\ Proceeds(w) /\ read[w].state \in {"creating", "revoke_pending"}
  /\ \/ matches[w] = {} /\ Goto(w, "reset") /\ UNCHANGED intent
     \/ \E k \in matches[w] :
          /\ intent' = [intent EXCEPT !.state = "revoke_pending", !.orphan = k]
          /\ Goto(w, "delete")
  /\ UNCHANGED <<upstreamVars, accountVars, memory, faults, lapses>>

\* The orphan is the only match.
DeleteKey(w) ==
  /\ At(w, "delete") /\ Owns(w) /\ Goto(w, "confirm")
  /\ upstream' = upstream \ matches[w]
  /\ UNCHANGED <<creating, deleting, used, intent, accountVars, memory, faults, lapses>>

\* The answer is lost: the request may be lost too, or be executed later.
DeleteFails(w) ==
  /\ At(w, "delete") /\ Owns(w) /\ Fault
  /\ deleting' \in {deleting, deleting \cup matches[w]} /\ Leave(w)
  /\ UNCHANGED <<upstream, creating, used, intent, accountVars, lapses>>

ConfirmDeleted(w) ==
  /\ At(w, "confirm") /\ Owns(w)
  /\ IF upstream = {} THEN Goto(w, "reset") /\ UNCHANGED memory ELSE Leave(w)
  /\ UNCHANGED <<upstreamVars, intent, accountVars, faults, lapses>>

Reset(w) ==
  /\ At(w, "reset") /\ Goto(w, "claim")
  /\ intent' = [state |-> "prepared", orphan |-> NoKey, replaced |-> intent.replaced + 1]
  /\ UNCHANGED <<upstreamVars, accountVars, memory, faults, lapses>>

\* Mutant: the intent is left prepared until the key is saved.
ClaimNothing(w) ==
  /\ At(w, "claim") /\ Goto(w, "create")
  /\ UNCHANGED <<upstreamVars, intent, accountVars, memory, faults, lapses>>

\* UPDATE ... WHERE state = 'prepared'
Claim(w) ==
  /\ At(w, "claim")
  /\ \/ /\ intent.state = "prepared" /\ Goto(w, "create")
        /\ intent' = [intent EXCEPT !.state = "creating"] /\ UNCHANGED memory
     \/ intent.state # "prepared" /\ Leave(w) /\ UNCHANGED intent
  /\ UNCHANGED <<upstreamVars, accountVars, faults, lapses>>

CreateKey(w, k) ==
  /\ At(w, "create") /\ Owns(w) /\ k \notin used
  /\ Goto(w, "await")
  /\ own' = [own EXCEPT ![w] = k]
  /\ used' = used \cup {k} /\ creating' = creating \cup {k}
  /\ UNCHANGED <<upstream, deleting, intent, accountVars, read, matches, faults, lapses>>

Created(w) ==
  /\ At(w, "await") /\ own[w] \in upstream /\ Goto(w, "save")
  /\ UNCHANGED <<upstreamVars, intent, accountVars, memory, faults, lapses>>

\* A timeout, which a lost request always ends in, or an answer without the secret.
CreateFails(w) ==
  /\ At(w, "await") /\ Leave(w)
  /\ \/ own[w] \notin creating \cup upstream /\ UNCHANGED faults
     \/ own[w] \in creating \cup upstream /\ Fault
  /\ UNCHANGED <<upstreamVars, intent, accountVars, lapses>>

\* The answer may lack the identifier, which is then looked up.
Save(w, withId) ==
  /\ At(w, "save")
  /\ saved' = own[w] /\ intent' = [intent EXCEPT !.state = "complete"]
  /\ savedId' = IF withId THEN own[w] ELSE NoKey
  /\ IF withId THEN Leave(w) ELSE Goto(w, "lookup") /\ UNCHANGED memory
  /\ UNCHANGED <<upstreamVars, faults, lapses>>

Lookup(w) ==
  /\ At(w, "lookup") /\ Owns(w)
  /\ \/ upstream = {} /\ UNCHANGED savedId
     \/ savedId' \in upstream
  /\ Leave(w)
  /\ UNCHANGED <<upstreamVars, intent, saved, faults, lapses>>
-----------------------------------------------------------------------------
UpstreamCreates(k) ==
  /\ k \in creating /\ creating' = creating \ {k} /\ upstream' = upstream \cup {k}
  /\ UNCHANGED <<deleting, used, intent, accountVars, lock, pc, memory, faults, lapses>>

\* The request is lost on the way; who waits for the answer times out.
CreateLost(k) ==
  /\ k \in creating /\ creating' = creating \ {k} /\ Fault
  /\ UNCHANGED <<upstream, deleting, used, intent, accountVars, lock, pc, memory, lapses>>

UpstreamDeletes(k) ==
  /\ k \in deleting /\ deleting' = deleting \ {k} /\ upstream' = upstream \ {k}
  /\ UNCHANGED <<creating, used, intent, accountVars, lock, pc, memory, faults, lapses>>

\* The process dies with the lock held, until it expires.
Crash(w) ==
  /\ ~At(w, "idle") /\ Fault
  /\ pc' = [pc EXCEPT ![w] = "idle"]
  /\ read' = [read EXCEPT ![w] = NoIntent]
  /\ matches' = [matches EXCEPT ![w] = {}]
  /\ own' = [own EXCEPT ![w] = NoKey]
  /\ UNCHANGED <<upstreamVars, intent, accountVars, lock, lapses>>

LockExpires ==
  /\ lock # NoWorker /\ At(lock, "idle") /\ lock' = NoWorker
  /\ UNCHANGED <<upstreamVars, intent, accountVars, pc, memory, faults, lapses>>

\* The lock of a live worker is lost: the process stalls, or Redis loses it.
\* A create that is awaited ends within its timeout of 25 seconds, less than the
\* lock has left when it was asserted.
LockLapses ==
  /\ lapses < MaxLapses /\ lapses' = lapses + 1
  /\ lock # NoWorker /\ pc[lock] \notin {"idle", "await", "save"} /\ lock' = NoWorker
  /\ UNCHANGED <<upstreamVars, intent, accountVars, pc, memory, faults>>
-----------------------------------------------------------------------------
\* A key of our name may be there before we come.
Init ==
  /\ upstream \in {{}, {Foreign}}
  /\ creating = {} /\ deleting = {} /\ used = {}
  /\ intent = NoIntent /\ saved = NoKey /\ savedId = NoKey
  /\ lock = NoWorker
  /\ pc = [w \in Worker |-> "idle"]
  /\ read = [w \in Worker |-> NoIntent]
  /\ matches = [w \in Worker |-> {}]
  /\ own = [w \in Worker |-> NoKey]
  /\ faults = 0 /\ lapses = 0

Ensure(w) ==
  \/ HasKey(w) \/ NeedsKey(w) \/ ReadIntent(w) \/ LockLost(w)
  \/ ListKeys(w) \/ ListFails(w) \/ Block(w) \/ GiveUp(w) \/ UsePrepared(w)
  \/ Replace(w) \/ DeleteKey(w) \/ DeleteFails(w) \/ ConfirmDeleted(w)
  \/ Reset(w) \/ Claim(w) \/ Created(w) \/ CreateFails(w)
  \/ \E k \in KeyId : CreateKey(w, k)
  \/ \E withId \in BOOLEAN : Save(w, withId)
  \/ Lookup(w)

Next ==
  \/ \E w \in Worker : Begin(w) \/ Ensure(w) \/ Crash(w)
  \/ \E k \in KeyId : UpstreamCreates(k) \/ CreateLost(k)
  \/ \E k \in KeyId \cup {Foreign} : UpstreamDeletes(k)
  \/ LockExpires \/ LockLapses

Spec == Init /\ [][Next]_vars
-----------------------------------------------------------------------------
Key == KeyId \cup {Foreign}
States == {"none", "prepared", "creating", "revoke_pending", "complete", "blocked"}
Intent == [state : States, orphan : Key \cup {NoKey}, replaced : 0 .. 1 + MaxLapses]

TypeOK ==
  /\ upstream \subseteq Key /\ creating \subseteq KeyId /\ deleting \subseteq Key
  /\ used \subseteq KeyId
  /\ intent \in Intent /\ saved \in KeyId \cup {NoKey} /\ savedId \in Key \cup {NoKey}
  /\ lock \in Worker \cup {NoWorker}
  /\ pc \in [Worker -> {"idle", "check", "intent", "list", "decide", "delete", "confirm",
                        "reset", "claim", "create", "await", "save", "lookup"}]
  /\ read \in [Worker -> Intent] /\ matches \in [Worker -> SUBSET Key]
  /\ own \in [Worker -> KeyId \cup {NoKey}]
  /\ faults \in 0 .. MaxFaults /\ lapses \in 0 .. MaxLapses

(***************************************************************************)
(* While no live worker loses the lock, at most one key of the account's   *)
(* name exists upstream or may still come to exist, whatever answers are   *)
(* lost or late and whoever crashes.                                       *)
(***************************************************************************)
OneKey == lapses = 0 => Cardinality(upstream \cup creating) <= 1

(***************************************************************************)
(* A key whose secret was saved is never revoked by another run, late      *)
(* deletes included; the stored identifier is that key's while no live     *)
(* worker loses the lock.                                                  *)
(***************************************************************************)
SavedKeyLives ==
  saved # NoKey => /\ saved \in upstream \ deleting
                   /\ lapses = 0 => savedId \in {saved, NoKey}

(***************************************************************************)
(* A key of the same name that was there before is neither revoked nor     *)
(* replaced (tests/accounts-keys.test.ts:47).                              *)
(***************************************************************************)
ForeignKeySafe == [][(Foreign \in upstream) => (Foreign \in upstream' /\ used' = {})]_vars
=============================================================================
