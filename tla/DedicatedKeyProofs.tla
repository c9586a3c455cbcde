------------------------- MODULE DedicatedKeyProofs -------------------------
(***************************************************************************)
(* Proofs about the creation of an account's key, for any number of        *)
(* workers, keys, faults and lapses of the lock: the durable intent allows *)
(* one key at a time, a key whose secret was saved lives on, and a foreign *)
(* key is left alone.                                                      *)
(***************************************************************************)
EXTENDS DedicatedKey, FiniteSetTheorems, TLAPS

USE KeyAssumption
-----------------------------------------------------------------------------
(* The inductive invariant, by what it is about. *)

\* The awaited create ends before the lock can lapse.
Waiting == \A w \in Worker : pc[w] \in {"await", "save"} => lock = w

\* No key is upstream, or asked for, that no request was sent for; a key that was
\* seen is no longer under way.
Known ==
  /\ creating \subseteq used
  /\ upstream \subseteq used \cup {Foreign} /\ deleting \subseteq used \cup {Foreign}
  /\ upstream \cap creating = {}
  /\ \A w \in Worker : matches[w] \subseteq used \cup {Foreign} /\ matches[w] \cap creating = {}

\* A worker that owns the lock has owned it since it found no key saved.
Missing == {"intent", "list", "decide", "delete", "confirm", "reset", "claim", "create", "await", "save"}
Unsaved == \A w \in Worker : lock = w /\ pc[w] \in Missing => saved = NoKey

\* Nobody asks for the deletion of a key that is awaited, or was saved.
Lives ==
  /\ \A w \in Worker : pc[w] \in {"await", "save"} => own[w] \in used \ deleting
  /\ \A w \in Worker : pc[w] = "save" => own[w] \in upstream
  /\ \A w \in Worker : pc[w] = "lookup" => saved # NoKey
  /\ saved # NoKey => saved \in upstream \ deleting

\* While no lock has lapsed: what the owner of the lock knows is so, and what the
\* intent says of the keys there may be.
Keys == upstream \cup creating

Informed(w) ==
  /\ pc[w] # "idle" => lock = w
  /\ pc[w] \in {"list", "decide"} => read[w] = intent
  /\ pc[w] = "decide" /\ matches[w] = {} /\ intent.state \in {"prepared", "revoke_pending"} => Keys = {}
  /\ pc[w] \in {"decide", "delete"} => matches[w] = {} \/ Keys \subseteq matches[w]
  /\ pc[w] \in {"delete", "confirm"} => intent.state = "revoke_pending"
  /\ pc[w] \in {"reset", "claim", "create"} => Keys = {}
  /\ pc[w] = "create" => intent.state = "creating"

Alone ==
  lapses = 0 =>
    /\ \A w \in Worker : Informed(w)
    /\ \A j, k \in Keys : j = k
    /\ intent.state \in {"none", "prepared", "revoke_pending"} => creating = {}
    /\ intent.state \in {"none", "prepared"} => upstream \subseteq {Foreign}
    /\ savedId \in {saved, NoKey}

\* While the foreign key is there nothing was asked for, and nobody gets past its sight.
Untouched ==
  Foreign \in upstream =>
    /\ upstream = {Foreign} /\ used = {} /\ deleting = {} /\ saved = NoKey
    /\ intent.state \in {"none", "prepared", "blocked"}
    /\ \A w \in Worker :
         /\ pc[w] \in {"idle", "check", "intent", "list", "decide"}
         /\ pc[w] \in {"list", "decide"} => read[w].state = "prepared"
         /\ pc[w] = "decide" => matches[w] = {Foreign}

\* A key is replaced once, and once more for each lapse: by the worker that lost the
\* lock, or because it reopened the intent.
Open == intent.state = "revoke_pending" \/ (intent.state \in {"none", "prepared", "creating"} /\ intent.replaced = 0)

Hopes(w) ==
  \/ pc[w] \in {"delete", "confirm", "reset"}
  \/ /\ pc[w] \in {"list", "decide"}
     /\ read[w].state = "revoke_pending" \/ (read[w].state = "creating" /\ read[w].replaced = 0)

Stale == {w \in Worker : lock # w /\ pc[w] \in {"decide", "reset"}}
Hoped == Open \/ \E w \in Worker : lock = w /\ Hopes(w)
Left  == IF Hoped THEN 1 ELSE 0

Budget == IsFiniteSet(Stale) /\ intent.replaced + Left + Cardinality(Stale) <= 1 + lapses

IInv == TypeOK /\ Waiting /\ Known /\ Unsaved /\ Lives /\ Alone /\ Untouched /\ Budget
-----------------------------------------------------------------------------
USE DEF upstreamVars, accountVars, memory, At, Goto, Owns, Fault

\* The initial states satisfy the invariant.
LEMMA Initially == ASSUME Init PROVE IInv
<1>. USE DEF Init, NoIntent
<1>1. TypeOK
  BY DEF TypeOK, Intent, States, Key
<1>2. Waiting /\ Known /\ Unsaved /\ Lives
  BY DEF Waiting, Known, Unsaved, Lives
<1>3. Alone
  BY DEF Alone, Keys, Informed
<1>4. Untouched
  BY DEF Untouched
<1>5. Budget
  <2>1. Stale = {}
    BY DEF Stale
  <2>2. Cardinality(Stale) = 0 /\ IsFiniteSet(Stale)
    BY <2>1, FS_EmptySet
  <2>3. Left \in {0, 1}
    BY DEF Left
  <2>. QED
    BY <2>2, <2>3 DEF Budget
<1>. QED
  BY <1>1, <1>2, <1>3, <1>4, <1>5 DEF IInv

\* There is at least one place for the worker about to reset the intent.
LEMMA RoomToReset ==
  ASSUME TypeOK, Budget, NEW w \in Worker, pc[w] = "reset"
  PROVE  intent.replaced + 1 <= 1 + lapses
<1>0. Left \in {0, 1} /\ intent.replaced \in Nat /\ lapses \in Nat
  BY DEF Left, TypeOK, Intent
<1>1. IsFiniteSet(Stale) /\ Cardinality(Stale) \in Nat
  BY FS_CardinalityType DEF Budget
<1>2. CASE lock = w
  <2>1. Left = 1
    BY <1>2 DEF Left, Hoped, Hopes
  <2>. QED
    BY <2>1, <1>0, <1>1 DEF Budget
<1>3. CASE lock # w
  <2>1. Stale # {}
    BY <1>3 DEF Stale
  <2>2. Cardinality(Stale) # 0
    BY <2>1, <1>1, FS_EmptySet
  <2>. QED
    BY <2>2, <1>0, <1>1 DEF Budget
<1>. QED
  BY <1>2, <1>3

\* The types survive every step.
LEMMA TypeStep == ASSUME TypeOK, Budget, [Next]_vars PROVE TypeOK'
<1>0. /\ upstream \subseteq Key /\ creating \subseteq KeyId /\ deleting \subseteq Key
      /\ used \subseteq KeyId
      /\ intent \in Intent /\ saved \in KeyId \cup {NoKey} /\ savedId \in Key \cup {NoKey}
      /\ lock \in Worker \cup {NoWorker}
      /\ pc \in [Worker -> {"idle", "check", "intent", "list", "decide", "delete", "confirm",
                            "reset", "claim", "create", "await", "save", "lookup"}]
      /\ read \in [Worker -> Intent] /\ matches \in [Worker -> SUBSET Key]
      /\ own \in [Worker -> KeyId \cup {NoKey}]
      /\ faults \in 0 .. MaxFaults /\ lapses \in 0 .. MaxLapses
  BY DEF TypeOK
<1>a. faults < MaxFaults => faults + 1 \in 0 .. MaxFaults
  BY <1>0
<1>b. lapses < MaxLapses => lapses + 1 \in 0 .. MaxLapses
  BY <1>0
<1>c. NoIntent \in Intent /\ Prepared \in Intent
  BY DEF NoIntent, Prepared, Intent, States
<1>d. \A s \in States : [intent EXCEPT !.state = s] \in Intent
  BY <1>0 DEF Intent
<1>e. \A s \in States, k \in Key : [intent EXCEPT !.state = s, !.orphan = k] \in Intent
  BY <1>0 DEF Intent
<1>f. ASSUME NEW w \in Worker, Leave(w)
      PROVE  /\ pc' \in [Worker -> {"idle", "check", "intent", "list", "decide", "delete", "confirm",
                            "reset", "claim", "create", "await", "save", "lookup"}]
             /\ lock' \in Worker \cup {NoWorker}
             /\ read' \in [Worker -> Intent] /\ matches' \in [Worker -> SUBSET Key]
             /\ own' \in [Worker -> KeyId \cup {NoKey}]
  BY <1>0, <1>c, <1>f DEF Leave
<1>. USE <1>0 DEF TypeOK
<1>1. ASSUME NEW w \in Worker PROVE Begin(w) => TypeOK'
  BY DEF Begin
<1>2. ASSUME NEW w \in Worker PROVE HasKey(w) => TypeOK'
  BY <1>f DEF HasKey
<1>3. ASSUME NEW w \in Worker PROVE NeedsKey(w) => TypeOK'
  BY DEF NeedsKey
<1>4. ASSUME NEW w \in Worker PROVE ReadIntent(w) => TypeOK'
  BY <1>f, <1>c DEF ReadIntent
<1>5. ASSUME NEW w \in Worker PROVE LockLost(w) => TypeOK'
  BY <1>f DEF LockLost
<1>6. ASSUME NEW w \in Worker PROVE ListKeys(w) => TypeOK'
  BY DEF ListKeys
<1>7. ASSUME NEW w \in Worker PROVE ListFails(w) => TypeOK'
  BY <1>f, <1>a DEF ListFails
<1>8. ASSUME NEW w \in Worker PROVE Block(w) => TypeOK'
  BY <1>f, <1>d DEF Block, States
<1>9. ASSUME NEW w \in Worker PROVE GiveUp(w) => TypeOK'
  BY <1>f DEF GiveUp
<1>10. ASSUME NEW w \in Worker PROVE UsePrepared(w) => TypeOK'
  BY DEF UsePrepared
<1>11. ASSUME NEW w \in Worker PROVE Replace(w) => TypeOK'
  <2>1. \A k \in matches[w] : k \in Key
    OBVIOUS
  <2>2. ASSUME NEW k \in matches[w], intent' = [intent EXCEPT !.state = "revoke_pending", !.orphan = k]
        PROVE  intent' \in Intent
    BY <2>1, <2>2, <1>e DEF States
  <2>. QED
    BY <2>2 DEF Replace, Proceeds
<1>12. ASSUME NEW w \in Worker PROVE DeleteKey(w) => TypeOK'
  BY DEF DeleteKey
<1>13. ASSUME NEW w \in Worker PROVE DeleteFails(w) => TypeOK'
  BY <1>f, <1>a DEF DeleteFails
<1>14. ASSUME NEW w \in Worker PROVE ConfirmDeleted(w) => TypeOK'
  BY <1>f DEF ConfirmDeleted
<1>15. ASSUME NEW w \in Worker PROVE Reset(w) => TypeOK'
  <2>1. Reset(w) => intent.replaced + 1 \in 0 .. 1 + MaxLapses
    BY RoomToReset DEF Reset, Intent
  <2>2. Reset(w) => intent' \in Intent
    BY <2>1 DEF Reset, Intent, States
  <2>. QED
    BY <2>2 DEF Reset
<1>16. ASSUME NEW w \in Worker PROVE Claim(w) => TypeOK'
  BY <1>f, <1>d DEF Claim, States
<1>17. ASSUME NEW w \in Worker PROVE Created(w) => TypeOK'
  BY DEF Created
<1>18. ASSUME NEW w \in Worker PROVE CreateFails(w) => TypeOK'
  BY <1>f, <1>a DEF CreateFails
<1>19. ASSUME NEW w \in Worker, NEW k \in KeyId PROVE CreateKey(w, k) => TypeOK'
  BY DEF CreateKey
<1>20. ASSUME NEW w \in Worker, NEW withId \in BOOLEAN PROVE Save(w, withId) => TypeOK'
  BY <1>f, <1>d DEF Save, States, Key
<1>21. ASSUME NEW w \in Worker PROVE Lookup(w) => TypeOK'
  BY <1>f DEF Lookup
<1>22. ASSUME NEW w \in Worker PROVE Crash(w) => TypeOK'
  BY <1>c, <1>a DEF Crash
<1>23. ASSUME NEW k \in KeyId PROVE UpstreamCreates(k) \/ CreateLost(k) => TypeOK'
  BY <1>a DEF UpstreamCreates, CreateLost, Key
<1>24. ASSUME NEW k \in KeyId \cup {Foreign} PROVE UpstreamDeletes(k) => TypeOK'
  BY DEF UpstreamDeletes
<1>25. LockExpires \/ LockLapses => TypeOK'
  BY <1>b DEF LockExpires, LockLapses
<1>26. UNCHANGED vars => TypeOK'
  BY DEF vars
<1>. QED
  BY <1>1, <1>2, <1>3, <1>4, <1>5, <1>6, <1>7, <1>8, <1>9, <1>10, <1>11, <1>12, <1>13, <1>14,
     <1>15, <1>16, <1>17, <1>18, <1>19, <1>20, <1>21, <1>22, <1>23, <1>24, <1>25, <1>26
  DEF Next, Ensure

\* Nobody else has the lock while a create is awaited.
LEMMA WaitingStep == ASSUME TypeOK, Waiting, [Next]_vars PROVE Waiting'
<1>0. /\ pc \in [Worker -> {"idle", "check", "intent", "list", "decide", "delete", "confirm",
                            "reset", "claim", "create", "await", "save", "lookup"}]
      /\ lock \in Worker \cup {NoWorker}
  BY DEF TypeOK
<1>. USE <1>0 DEF Waiting
<1>1. ASSUME NEW w \in Worker PROVE Begin(w) => Waiting'
  BY DEF Begin
<1>2. ASSUME NEW w \in Worker, Leave(w) PROVE Waiting'
  BY <1>2 DEF Leave
<1>3. ASSUME NEW w \in Worker PROVE NeedsKey(w) \/ ReadIntent(w) \/ ListKeys(w) \/ UsePrepared(w) => Waiting'
  BY <1>2 DEF NeedsKey, ReadIntent, ListKeys, UsePrepared, Proceeds
<1>4. ASSUME NEW w \in Worker
      PROVE  HasKey(w) \/ LockLost(w) \/ ListFails(w) \/ Block(w) \/ GiveUp(w) \/ CreateFails(w) \/ Lookup(w) \/ DeleteFails(w) => Waiting'
  BY <1>2 DEF HasKey, LockLost, ListFails, Block, GiveUp, CreateFails, Lookup, DeleteFails
<1>5. ASSUME NEW w \in Worker PROVE Replace(w) \/ DeleteKey(w) \/ ConfirmDeleted(w) \/ Reset(w) \/ Claim(w) => Waiting'
  BY <1>2 DEF Replace, DeleteKey, ConfirmDeleted, Reset, Claim
<1>6. ASSUME NEW w \in Worker, NEW k \in KeyId PROVE CreateKey(w, k) => Waiting'
  BY DEF CreateKey
<1>7. ASSUME NEW w \in Worker PROVE Created(w) => Waiting'
  BY DEF Created
<1>8. ASSUME NEW w \in Worker, NEW withId \in BOOLEAN PROVE Save(w, withId) => Waiting'
  BY <1>2 DEF Save
<1>9. ASSUME NEW w \in Worker PROVE Crash(w) => Waiting'
  BY DEF Crash
<1>10. (\E k \in KeyId \cup {Foreign} : UpstreamCreates(k) \/ CreateLost(k) \/ UpstreamDeletes(k)) => Waiting'
  BY DEF UpstreamCreates, CreateLost, UpstreamDeletes
<1>11. LockExpires \/ LockLapses => Waiting'
  BY DEF LockExpires, LockLapses
<1>12. UNCHANGED vars => Waiting'
  BY DEF vars
<1>. QED
  BY <1>1, <1>3, <1>4, <1>5, <1>6, <1>7, <1>8, <1>9, <1>10, <1>11, <1>12 DEF Next, Ensure

\* Keys are what requests were sent for; what was listed is not still under way.
LEMMA KnownStep == ASSUME TypeOK, Known, [Next]_vars PROVE Known'
<1>0. matches \in [Worker -> SUBSET Key] /\ creating \subseteq KeyId
  BY DEF TypeOK
<1>. USE <1>0 DEF Known
<1>1. ASSUME NEW w \in Worker, Leave(w) PROVE UNCHANGED upstreamVars => Known'
  BY <1>1 DEF Leave
<1>2. ASSUME NEW w \in Worker
      PROVE  Begin(w) \/ NeedsKey(w) \/ UsePrepared(w) \/ Replace(w) \/ Reset(w) \/ Created(w) => Known'
  BY DEF Begin, NeedsKey, UsePrepared, Replace, Reset, Created
<1>3. ASSUME NEW w \in Worker PROVE ReadIntent(w) \/ Claim(w) \/ ConfirmDeleted(w) => Known'
  BY <1>1 DEF ReadIntent, Claim, ConfirmDeleted
<1>4. ASSUME NEW w \in Worker
      PROVE  HasKey(w) \/ LockLost(w) \/ ListFails(w) \/ Block(w) \/ GiveUp(w) \/ CreateFails(w) \/ Lookup(w) => Known'
  BY <1>1 DEF HasKey, LockLost, ListFails, Block, GiveUp, CreateFails, Lookup
<1>5. ASSUME NEW w \in Worker PROVE ListKeys(w) => Known'
  BY DEF ListKeys
<1>6. ASSUME NEW w \in Worker PROVE DeleteKey(w) => Known'
  BY DEF DeleteKey
<1>7. ASSUME NEW w \in Worker PROVE DeleteFails(w) => Known'
  BY DEF DeleteFails, Leave
<1>8. ASSUME NEW w \in Worker, NEW k \in KeyId PROVE CreateKey(w, k) => Known'
  BY KeyAssumption DEF CreateKey
<1>9. ASSUME NEW w \in Worker, NEW withId \in BOOLEAN PROVE Save(w, withId) => Known'
  BY <1>1 DEF Save
<1>10. ASSUME NEW w \in Worker PROVE Crash(w) => Known'
  BY DEF Crash
<1>11. ASSUME NEW k \in KeyId PROVE UpstreamCreates(k) \/ CreateLost(k) => Known'
  BY DEF UpstreamCreates, CreateLost
<1>12. ASSUME NEW k \in KeyId \cup {Foreign} PROVE UpstreamDeletes(k) => Known'
  BY DEF UpstreamDeletes
<1>13. LockExpires \/ LockLapses \/ UNCHANGED vars => Known'
  BY DEF LockExpires, LockLapses, vars
<1>. QED
  BY <1>2, <1>3, <1>4, <1>5, <1>6, <1>7, <1>8, <1>9, <1>10, <1>11, <1>12, <1>13 DEF Next, Ensure

\* The key stays missing for the owner of the lock: only the owner saves one.
LEMMA UnsavedStep == ASSUME TypeOK, Waiting, Unsaved, [Next]_vars PROVE Unsaved'
<1>0. /\ pc \in [Worker -> {"idle", "check", "intent", "list", "decide", "delete", "confirm",
                            "reset", "claim", "create", "await", "save", "lookup"}]
      /\ lock \in Worker \cup {NoWorker}
  BY DEF TypeOK
<1>. USE <1>0 DEF Unsaved, Missing
<1>1. ASSUME NEW w \in Worker PROVE Begin(w) => Unsaved'
  BY DEF Begin
<1>2. ASSUME NEW w \in Worker, Leave(w) PROVE UNCHANGED saved => Unsaved'
  BY <1>2 DEF Leave
<1>3. ASSUME NEW w \in Worker PROVE NeedsKey(w) \/ ReadIntent(w) \/ ListKeys(w) \/ UsePrepared(w) => Unsaved'
  BY <1>2 DEF NeedsKey, ReadIntent, ListKeys, UsePrepared, Proceeds
<1>4. ASSUME NEW w \in Worker
      PROVE  HasKey(w) \/ LockLost(w) \/ ListFails(w) \/ Block(w) \/ GiveUp(w) \/ CreateFails(w) \/ Lookup(w) \/ DeleteFails(w) => Unsaved'
  BY <1>2 DEF HasKey, LockLost, ListFails, Block, GiveUp, CreateFails, Lookup, DeleteFails
<1>5. ASSUME NEW w \in Worker PROVE Replace(w) \/ DeleteKey(w) \/ ConfirmDeleted(w) \/ Reset(w) \/ Claim(w) => Unsaved'
  BY <1>2 DEF Replace, Proceeds, DeleteKey, ConfirmDeleted, Reset, Claim
<1>6. ASSUME NEW w \in Worker, NEW k \in KeyId PROVE CreateKey(w, k) => Unsaved'
  BY DEF CreateKey
<1>7. ASSUME NEW w \in Worker PROVE Created(w) => Unsaved'
  BY DEF Created
<1>8. ASSUME NEW w \in Worker, NEW withId \in BOOLEAN PROVE Save(w, withId) => Unsaved'
  BY DEF Save, Leave, Waiting
<1>9. ASSUME NEW w \in Worker PROVE Crash(w) => Unsaved'
  BY DEF Crash
<1>10. (\E k \in KeyId \cup {Foreign} : UpstreamCreates(k) \/ CreateLost(k) \/ UpstreamDeletes(k)) => Unsaved'
  BY DEF UpstreamCreates, CreateLost, UpstreamDeletes
<1>11. LockExpires \/ LockLapses => Unsaved'
  BY DEF LockExpires, LockLapses
<1>12. UNCHANGED vars => Unsaved'
  BY DEF vars
<1>. QED
  BY <1>1, <1>3, <1>4, <1>5, <1>6, <1>7, <1>8, <1>9, <1>10, <1>11, <1>12 DEF Next, Ensure

\* A deletion is asked for by an owner of the lock that found no key saved, while
\* nobody awaits one.
LEMMA LivesStep ==
  ASSUME TypeOK, Waiting, Known, Unsaved, Lives, [Next]_vars
  PROVE  Lives'
<1>0. /\ pc \in [Worker -> {"idle", "check", "intent", "list", "decide", "delete", "confirm",
                            "reset", "claim", "create", "await", "save", "lookup"}]
      /\ own \in [Worker -> KeyId \cup {NoKey}] /\ matches \in [Worker -> SUBSET Key]
      /\ lock \in Worker \cup {NoWorker}
  BY DEF TypeOK
<1>. USE <1>0 DEF Lives
<1>1. ASSUME NEW w \in Worker, Leave(w) PROVE UNCHANGED <<upstreamVars, saved>> => Lives'
  BY <1>1 DEF Leave
<1>2. ASSUME NEW w \in Worker
      PROVE  Begin(w) \/ NeedsKey(w) \/ ListKeys(w) \/ UsePrepared(w) \/ Replace(w) \/ Reset(w) => Lives'
  BY DEF Begin, NeedsKey, ListKeys, UsePrepared, Replace, Reset
<1>3. ASSUME NEW w \in Worker PROVE ReadIntent(w) \/ Claim(w) \/ ConfirmDeleted(w) => Lives'
  BY <1>1 DEF ReadIntent, Claim, ConfirmDeleted
<1>4. ASSUME NEW w \in Worker
      PROVE  HasKey(w) \/ LockLost(w) \/ ListFails(w) \/ Block(w) \/ GiveUp(w) \/ CreateFails(w) \/ Lookup(w) => Lives'
  BY <1>1 DEF HasKey, LockLost, ListFails, Block, GiveUp, CreateFails, Lookup
<1>5. ASSUME NEW w \in Worker PROVE DeleteKey(w) => Lives'
  BY DEF DeleteKey, Waiting, Unsaved, Missing
<1>6. ASSUME NEW w \in Worker PROVE DeleteFails(w) => Lives'
  BY DEF DeleteFails, Leave, Waiting, Unsaved, Missing
<1>7. ASSUME NEW w \in Worker, NEW k \in KeyId PROVE CreateKey(w, k) => Lives'
  BY KeyAssumption DEF CreateKey, Known
<1>8. ASSUME NEW w \in Worker PROVE Created(w) => Lives'
  BY DEF Created
<1>9. ASSUME NEW w \in Worker, NEW withId \in BOOLEAN PROVE Save(w, withId) => Lives'
  <2>1. Save(w, withId) => own[w] # NoKey
    BY KeyAssumption DEF Save, TypeOK
  <2>2. CASE withId
    BY <2>1, <2>2 DEF Save, Leave
  <2>3. CASE ~withId
    BY <2>1, <2>3 DEF Save
  <2>. QED
    BY <2>2, <2>3
<1>10. ASSUME NEW w \in Worker PROVE Crash(w) => Lives'
  BY DEF Crash
<1>11. ASSUME NEW k \in KeyId PROVE UpstreamCreates(k) \/ CreateLost(k) => Lives'
  BY DEF UpstreamCreates, CreateLost
<1>12. ASSUME NEW k \in KeyId \cup {Foreign} PROVE UpstreamDeletes(k) => Lives'
  BY DEF UpstreamDeletes
<1>13. LockExpires \/ LockLapses \/ UNCHANGED vars => Lives'
  BY DEF LockExpires, LockLapses, vars
<1>. QED
  BY <1>2, <1>3, <1>4, <1>5, <1>6, <1>7, <1>8, <1>9, <1>10, <1>11, <1>12, <1>13 DEF Next, Ensure

\* What holds while no lock has lapsed.
LEMMA AloneStep ==
  ASSUME TypeOK, Known, Lives, Alone, [Next]_vars
  PROVE  Alone'
<1>0. /\ pc \in [Worker -> {"idle", "check", "intent", "list", "decide", "delete", "confirm",
                            "reset", "claim", "create", "await", "save", "lookup"}]
      /\ matches \in [Worker -> SUBSET Key] /\ read \in [Worker -> Intent]
      /\ own \in [Worker -> KeyId \cup {NoKey}]
      /\ lock \in Worker \cup {NoWorker} /\ intent \in Intent
      /\ lapses \in Nat
  BY DEF TypeOK
<1>1. SUFFICES ASSUME lapses' = 0 PROVE Alone'
  BY DEF Alone
<1>2. lapses = 0 /\ ~LockLapses
  <2>1. ~LockLapses
    BY <1>0, <1>1 DEF LockLapses
  <2>2. \A w \in Worker : Begin(w) \/ Ensure(w) \/ Crash(w) => UNCHANGED lapses
    BY DEF Ensure, Begin, HasKey, NeedsKey, ReadIntent, LockLost, ListKeys, ListFails, Block, GiveUp,
      UsePrepared, Replace, DeleteKey, DeleteFails, ConfirmDeleted, Reset, Claim, Created, CreateFails,
      CreateKey, Save, Lookup, Crash
  <2>3. \A k : UpstreamCreates(k) \/ CreateLost(k) \/ UpstreamDeletes(k) => UNCHANGED lapses
    BY DEF UpstreamCreates, CreateLost, UpstreamDeletes
  <2>4. LockExpires \/ UNCHANGED vars => UNCHANGED lapses
    BY DEF LockExpires, vars
  <2>. QED
    BY <1>1, <2>1, <2>2, <2>3, <2>4 DEF Next
<1>3. /\ \A w \in Worker : Informed(w)
      /\ \A j, k \in Keys : j = k
      /\ intent.state \in {"none", "prepared", "revoke_pending"} => creating = {}
      /\ intent.state \in {"none", "prepared"} => upstream \subseteq {Foreign}
      /\ savedId \in {saved, NoKey}
  BY <1>2 DEF Alone
<1>4. /\ upstream \cap creating = {}
      /\ \A w \in Worker : matches[w] \cap creating = {}
  BY DEF Known
<1>. USE <1>0, <1>3, <1>4 DEF Alone, Informed, Keys
<1>a. ASSUME NEW w \in Worker, pc[w] # "idle" PROVE lock = w /\ \A v \in Worker \ {w} : pc[v] = "idle"
  BY <1>a
<1>b. ASSUME NEW w \in Worker, pc[w] # "idle", Leave(w)
      PROVE  \A v \in Worker : pc'[v] = "idle"
  BY <1>b, <1>a DEF Leave
<1>c. ASSUME NEW w \in Worker, pc[w] # "idle", Leave(w), UNCHANGED <<upstream, creating, intent, saved, savedId>>
      PROVE  Alone'
  BY <1>b, <1>c
<1>5. ASSUME NEW w \in Worker, Begin(w) PROVE Alone'
  BY <1>5 DEF Begin
<1>6. ASSUME NEW w \in Worker, HasKey(w) \/ LockLost(w) \/ ListFails(w) \/ GiveUp(w) \/ DeleteFails(w) \/ CreateFails(w)
      PROVE  Alone'
  BY <1>6, <1>c DEF HasKey, LockLost, ListFails, GiveUp, DeleteFails, CreateFails
<1>7. ASSUME NEW w \in Worker, NeedsKey(w) \/ Created(w) PROVE Alone'
  BY <1>7, <1>a DEF NeedsKey, Created
<1>8. ASSUME NEW w \in Worker, ReadIntent(w) PROVE Alone'
  <2>1. intent'.state = "blocked" \/ read'[w] = intent'
    BY <1>8 DEF ReadIntent
  <2>2. intent' = intent \/ (intent.state = "none" /\ intent'.state = "prepared")
    BY <1>8 DEF ReadIntent, Prepared, NoIntent
  <2>3. CASE intent'.state = "blocked"
    BY <1>8, <2>2, <2>3, <1>b DEF ReadIntent
  <2>4. CASE intent'.state # "blocked"
    BY <1>8, <2>1, <2>2, <2>4, <1>a DEF ReadIntent
  <2>. QED
    BY <2>3, <2>4
<1>9. ASSUME NEW w \in Worker, ListKeys(w) PROVE Alone'
  <2>1. upstream = {} \/ Keys \subseteq upstream
    BY <1>9
  <2>. QED
    BY <1>9, <2>1, <1>a DEF ListKeys
<1>10. ASSUME NEW w \in Worker, Block(w) PROVE Alone'
  <2>1. intent'.state = "blocked"
    BY <1>10 DEF Block, Intent
  <2>. QED
    BY <1>10, <2>1, <1>b DEF Block
<1>11. ASSUME NEW w \in Worker, UsePrepared(w) PROVE Alone'
  BY <1>11, <1>a DEF UsePrepared, Proceeds, Conflict
<1>12. ASSUME NEW w \in Worker, Replace(w) PROVE Alone'
  <2>1. At(w, "decide") /\ read[w] = intent /\ lock = w
    BY <1>12 DEF Replace, Proceeds
  <2>2. CASE matches[w] = {} /\ Goto(w, "reset") /\ UNCHANGED intent
    <3>1. intent.state = "revoke_pending"
      BY <1>12, <2>1, <2>2 DEF Replace, Proceeds, Uncertain
    <3>. QED
      BY <1>12, <2>1, <2>2, <3>1, <1>a DEF Replace
  <2>3. CASE matches[w] # {} /\ Goto(w, "delete") /\ intent'.state = "revoke_pending"
    <3>1. creating = {}
      BY <2>1, <2>3
    <3>. QED
      BY <1>12, <2>1, <2>3, <3>1, <1>a DEF Replace
  <2>4. \A k \in matches[w] : intent' = [intent EXCEPT !.state = "revoke_pending", !.orphan = k] => intent'.state = "revoke_pending"
    BY DEF Intent
  <2>. QED
    BY <1>12, <2>2, <2>3, <2>4 DEF Replace
<1>13. ASSUME NEW w \in Worker, DeleteKey(w) PROVE Alone'
  BY <1>13, <1>a DEF DeleteKey
<1>14. ASSUME NEW w \in Worker, ConfirmDeleted(w) PROVE Alone'
  <2>1. At(w, "confirm") /\ creating = {}
    BY <1>14 DEF ConfirmDeleted
  <2>. QED
    BY <1>14, <2>1, <1>a, <1>c DEF ConfirmDeleted
<1>15. ASSUME NEW w \in Worker, Reset(w) PROVE Alone'
  BY <1>15, <1>a DEF Reset
<1>16. ASSUME NEW w \in Worker, Claim(w) PROVE Alone'
  <2>1. CASE Leave(w) /\ UNCHANGED intent
    BY <1>16, <2>1, <1>c DEF Claim
  <2>2. CASE Goto(w, "create") /\ intent' = [intent EXCEPT !.state = "creating"]
    <3>1. intent'.state = "creating"
      BY <2>2 DEF Intent
    <3>. QED
      BY <1>16, <2>2, <3>1, <1>a DEF Claim
  <2>. QED
    BY <1>16, <2>1, <2>2 DEF Claim
<1>17. ASSUME NEW w \in Worker, NEW k \in KeyId, CreateKey(w, k) PROVE Alone'
  BY <1>17, <1>a DEF CreateKey
<1>18. ASSUME NEW w \in Worker, NEW withId \in BOOLEAN, Save(w, withId) PROVE Alone'
  <2>1. intent'.state = "complete"
    BY <1>18 DEF Save, Intent
  <2>2. CASE withId
    BY <1>18, <2>1, <2>2, <1>b DEF Save
  <2>3. CASE ~withId
    BY <1>18, <2>1, <2>3, <1>a DEF Save
  <2>. QED
    BY <2>2, <2>3
<1>19. ASSUME NEW w \in Worker, Lookup(w) PROVE Alone'
  <2>1. saved \in upstream
    BY <1>19 DEF Lookup, Lives
  <2>2. savedId' \in {saved, NoKey}
    BY <1>19, <2>1 DEF Lookup
  <2>. QED
    BY <1>19, <2>2, <1>b DEF Lookup
<1>20. ASSUME NEW w \in Worker, Crash(w) PROVE Alone'
  BY <1>20, <1>a DEF Crash
<1>21. ASSUME NEW k \in KeyId, UpstreamCreates(k) PROVE Alone'
  BY <1>21 DEF UpstreamCreates
<1>22. ASSUME NEW k \in KeyId, CreateLost(k) PROVE Alone'
  BY <1>22 DEF CreateLost
<1>23. ASSUME NEW k \in KeyId \cup {Foreign}, UpstreamDeletes(k) PROVE Alone'
  BY <1>23 DEF UpstreamDeletes
<1>24. ASSUME LockExpires \/ UNCHANGED vars PROVE Alone'
  BY <1>24 DEF LockExpires, vars
<1>. QED
  BY <1>2, <1>5, <1>6, <1>7, <1>8, <1>9, <1>10, <1>11, <1>12, <1>13, <1>14, <1>15, <1>16, <1>17, <1>18,
     <1>19, <1>20, <1>21, <1>22, <1>23, <1>24
  DEF Next, Ensure

\* A foreign key never comes to be upstream by our doing.
LEMMA NeverForged == ASSUME TypeOK, [Next]_vars, Foreign \notin upstream PROVE Foreign \notin upstream'
<1>1. creating \subseteq KeyId
  BY DEF TypeOK
<1>2. \A w \in Worker : Begin(w) \/ Ensure(w) \/ Crash(w) => upstream' \subseteq upstream
  BY DEF Ensure, Begin, HasKey, NeedsKey, ReadIntent, LockLost, ListKeys, ListFails, Block, GiveUp,
    UsePrepared, Replace, DeleteKey, DeleteFails, ConfirmDeleted, Reset, Claim, Created, CreateFails,
    CreateKey, Save, Lookup, Crash
<1>3. \A k : UpstreamCreates(k) \/ CreateLost(k) \/ UpstreamDeletes(k) => upstream' \subseteq upstream \cup KeyId
  BY <1>1 DEF UpstreamCreates, CreateLost, UpstreamDeletes
<1>4. LockExpires \/ LockLapses \/ UNCHANGED vars => UNCHANGED upstream
  BY DEF LockExpires, LockLapses, vars
<1>. QED
  BY <1>2, <1>3, <1>4, KeyAssumption DEF Next

\* Nobody acts on a name that a foreign key has.
LEMMA UntouchedStep ==
  ASSUME TypeOK, Known, Untouched, [Next]_vars, Foreign \in upstream
  PROVE  Untouched' /\ Foreign \in upstream' /\ used' = {}
<1>0. /\ pc \in [Worker -> {"idle", "check", "intent", "list", "decide", "delete", "confirm",
                            "reset", "claim", "create", "await", "save", "lookup"}]
      /\ matches \in [Worker -> SUBSET Key] /\ read \in [Worker -> Intent]
      /\ intent \in Intent
  BY DEF TypeOK
<1>1. /\ upstream = {Foreign} /\ used = {} /\ deleting = {} /\ saved = NoKey /\ creating = {}
      /\ intent.state \in {"none", "prepared", "blocked"}
      /\ \A w \in Worker :
           /\ pc[w] \in {"idle", "check", "intent", "list", "decide"}
           /\ pc[w] \in {"list", "decide"} => read[w].state = "prepared"
           /\ pc[w] = "decide" => matches[w] = {Foreign}
  BY DEF Untouched, Known
<1>2. \A w \in Worker : pc[w] = "decide" => Conflict(w)
  BY <1>1 DEF Conflict
<1>. DEFINE Kept == Untouched' /\ Foreign \in upstream' /\ used' = {}
<1>3. ASSUME NEW w \in Worker, Leave(w), UNCHANGED <<upstreamVars, saved>>, intent'.state \in {"none", "prepared", "blocked"}
      PROVE  Kept
  BY <1>0, <1>1, <1>3 DEF Leave, Untouched
<1>4. ASSUME NEW w \in Worker, Begin(w) \/ NeedsKey(w) \/ ListKeys(w) PROVE Kept
  BY <1>0, <1>1, <1>4 DEF Begin, NeedsKey, ListKeys, Untouched
<1>5. ASSUME NEW w \in Worker, HasKey(w) \/ LockLost(w) \/ ListFails(w) PROVE Kept
  BY <1>1, <1>3, <1>5 DEF HasKey, LockLost, ListFails
<1>6. ASSUME NEW w \in Worker, ReadIntent(w) PROVE Kept
  <2>1. intent'.state \in {"none", "prepared", "blocked"} /\ (intent'.state # "blocked" => intent'.state = "prepared")
    BY <1>0, <1>1, <1>6 DEF ReadIntent, Prepared, NoIntent
  <2>2. CASE intent'.state = "blocked"
    BY <1>3, <1>6, <2>1, <2>2 DEF ReadIntent
  <2>3. CASE intent'.state # "blocked"
    BY <1>0, <1>1, <1>6, <2>1, <2>3 DEF ReadIntent, Untouched
  <2>. QED
    BY <2>2, <2>3
<1>7. ASSUME NEW w \in Worker, Block(w) PROVE Kept
  <2>1. intent'.state = "blocked"
    BY <1>0, <1>7 DEF Block, Intent
  <2>. QED
    BY <1>3, <1>7, <2>1 DEF Block
<1>8. ASSUME NEW w \in Worker PROVE ~GiveUp(w) /\ ~UsePrepared(w) /\ ~Replace(w)
  BY <1>2 DEF GiveUp, UsePrepared, Replace, Proceeds
<1>9. ASSUME NEW w \in Worker
      PROVE  /\ ~DeleteKey(w) /\ ~DeleteFails(w) /\ ~ConfirmDeleted(w) /\ ~Reset(w) /\ ~Claim(w)
             /\ ~Created(w) /\ ~CreateFails(w) /\ ~Lookup(w)
             /\ \A k : ~CreateKey(w, k) /\ ~Save(w, k)
  BY <1>1 DEF DeleteKey, DeleteFails, ConfirmDeleted, Reset, Claim, Created, CreateFails, Lookup, CreateKey, Save
<1>10. ASSUME NEW w \in Worker, Crash(w) PROVE Kept
  BY <1>0, <1>1, <1>10 DEF Crash, Untouched
<1>11. \A k : ~UpstreamCreates(k) /\ ~CreateLost(k) /\ ~UpstreamDeletes(k)
  BY <1>1 DEF UpstreamCreates, CreateLost, UpstreamDeletes
<1>12. ASSUME LockExpires \/ LockLapses \/ UNCHANGED vars PROVE Kept
  BY <1>0, <1>1, <1>12 DEF LockExpires, LockLapses, vars, Untouched
<1>. HIDE DEF Kept
<1>13. Kept
  BY <1>4, <1>5, <1>6, <1>7, <1>8, <1>9, <1>10, <1>11, <1>12 DEF Next, Ensure
<1>. QED
  BY <1>13 DEF Kept

\* A set that loses members, one of them, or gains at most one.
LEMMA Counted ==
  ASSUME NEW S, NEW T, NEW w, IsFiniteSet(S)
  PROVE  /\ Cardinality(S) \in Nat
         /\ T \subseteq S \cup {w} => IsFiniteSet(T) /\ Cardinality(T) \in Nat /\ Cardinality(T) <= Cardinality(S) + 1
         /\ T \subseteq S => IsFiniteSet(T) /\ Cardinality(T) \in Nat /\ Cardinality(T) <= Cardinality(S)
         /\ T \subseteq S \ {w} /\ w \in S => Cardinality(T) + 1 <= Cardinality(S)
<1>1. Cardinality(S) \in Nat
  BY FS_CardinalityType
<1>2. T \subseteq S => IsFiniteSet(T) /\ Cardinality(T) \in Nat /\ Cardinality(T) <= Cardinality(S)
  BY FS_Subset, FS_CardinalityType
<1>3. /\ IsFiniteSet(S \cup {w})
      /\ Cardinality(S \cup {w}) = Cardinality(S) \/ Cardinality(S \cup {w}) = Cardinality(S) + 1
  BY FS_AddElement
<1>4. T \subseteq S \cup {w} => IsFiniteSet(T) /\ Cardinality(T) \in Nat /\ Cardinality(T) <= Cardinality(S \cup {w})
  BY <1>3, FS_Subset, FS_CardinalityType
<1>5. w \in S => IsFiniteSet(S \ {w}) /\ Cardinality(S \ {w}) = Cardinality(S) - 1
  BY FS_RemoveElement
<1>6. T \subseteq S \ {w} /\ w \in S => Cardinality(T) <= Cardinality(S \ {w}) /\ Cardinality(T) \in Nat
  BY <1>5, FS_Subset, FS_CardinalityType
<1>. QED
  BY <1>1, <1>2, <1>3, <1>4, <1>5, <1>6

\* The ways a step may use the budget.
LEMMA Spending ==
  ASSUME TypeOK, TypeOK', Budget
  PROVE  /\ /\ Stale' \subseteq Stale /\ intent'.replaced = intent.replaced /\ (Hoped' => Hoped)
            /\ lapses' = lapses
            => Budget'
         /\ \A w : /\ Stale' \subseteq Stale \cup {w} /\ UNCHANGED intent /\ (Hoped' => Hoped)
                  /\ lapses' = lapses + 1
                  => Budget'
         /\ \A w : /\ w \in Stale /\ Stale' \subseteq Stale \ {w} /\ lapses' = lapses
                  /\ \/ intent'.replaced = intent.replaced
                     \/ intent'.replaced = intent.replaced + 1 /\ (Hoped' => Hoped)
                  => Budget'
         /\ /\ Stale' \subseteq Stale /\ intent'.replaced = intent.replaced + 1 /\ Hoped /\ ~Hoped'
            /\ lapses' = lapses
            => Budget'
         /\ /\ Stale' \subseteq Stale /\ intent.replaced # 0 /\ intent'.replaced = 0
            /\ lapses' = lapses
            => Budget'
<1>0. intent.replaced \in Nat /\ intent'.replaced \in Nat /\ lapses \in Nat /\ lapses' \in Nat
  BY DEF TypeOK, Intent
<1>1. /\ IsFiniteSet(Stale) /\ Cardinality(Stale) \in Nat
      /\ intent.replaced + Left + Cardinality(Stale) <= 1 + lapses
  BY FS_CardinalityType DEF Budget
<1>2. Left \in {0, 1} /\ Left' \in {0, 1} /\ (Left = 1 <=> Hoped) /\ (Left' = 1 <=> Hoped')
  BY DEF Left
<1>. DEFINE S == Stale
            T == Stale'
<1>. HIDE DEF S, T
<1>3. \A w : /\ T \subseteq S \cup {w} => IsFiniteSet(T) /\ Cardinality(T) \in Nat /\ Cardinality(T) <= Cardinality(S) + 1
             /\ T \subseteq S => IsFiniteSet(T) /\ Cardinality(T) \in Nat /\ Cardinality(T) <= Cardinality(S)
             /\ T \subseteq S \ {w} /\ w \in S => Cardinality(T) + 1 <= Cardinality(S)
  BY <1>1, Counted DEF S
<1>4. Budget' <=> IsFiniteSet(T) /\ intent'.replaced + Left' + Cardinality(T) <= 1 + lapses'
  BY DEF Budget, T
<1>5. Cardinality(S) \in Nat /\ intent.replaced + Left + Cardinality(S) <= 1 + lapses
  BY <1>1 DEF S
<1>6. T \subseteq S /\ intent'.replaced = intent.replaced /\ (Hoped' => Hoped) /\ lapses' = lapses => Budget'
  BY <1>0, <1>2, <1>3, <1>4, <1>5
<1>7. ASSUME NEW w, T \subseteq S \cup {w}, UNCHANGED intent, Hoped' => Hoped, lapses' = lapses + 1
      PROVE  Budget'
  <2>1. IsFiniteSet(T) /\ Cardinality(T) \in Nat /\ Cardinality(T) <= Cardinality(S) + 1
    BY <1>3, <1>7
  <2>. QED
    BY <1>0, <1>2, <1>4, <1>5, <1>7, <2>1
<1>8. ASSUME NEW w, w \in S, T \subseteq S \ {w}, lapses' = lapses,
             \/ intent'.replaced = intent.replaced
             \/ intent'.replaced = intent.replaced + 1 /\ (Hoped' => Hoped)
      PROVE  Budget'
  <2>1. IsFiniteSet(T) /\ Cardinality(T) \in Nat /\ Cardinality(T) + 1 <= Cardinality(S)
    BY <1>3, <1>8
  <2>. QED
    BY <1>0, <1>2, <1>4, <1>5, <1>8, <2>1
<1>9. /\ T \subseteq S /\ intent'.replaced = intent.replaced + 1 /\ Hoped /\ ~Hoped' /\ lapses' = lapses
      => Budget'
  BY <1>0, <1>2, <1>3, <1>4, <1>5
<1>10. ASSUME T \subseteq S, intent.replaced # 0, intent'.replaced = 0, lapses' = lapses PROVE Budget'
  <2>1. IsFiniteSet(T) /\ Cardinality(T) \in Nat /\ Cardinality(T) <= Cardinality(S)
    BY <1>3, <1>10
  <2>. QED
    BY <1>0, <1>2, <1>4, <1>5, <1>10, <2>1
<1>. QED
  BY <1>6, <1>7, <1>8, <1>9, <1>10 DEF S, T

\* A replacement uses what the intent, or the place of a worker without the lock,
\* allows for it.
LEMMA BudgetStep ==
  ASSUME TypeOK, TypeOK', Budget, [Next]_vars
  PROVE  Budget'
<1>0. /\ pc \in [Worker -> {"idle", "check", "intent", "list", "decide", "delete", "confirm",
                            "reset", "claim", "create", "await", "save", "lookup"}]
      /\ matches \in [Worker -> SUBSET Key] /\ read \in [Worker -> Intent]
      /\ lock \in Worker \cup {NoWorker} /\ intent \in Intent
      /\ intent.replaced \in Nat
      /\ \A w \in Worker : read[w].replaced \in Nat
  BY DEF TypeOK, Intent
<1>. DEFINE Saves == /\ Stale' \subseteq Stale /\ intent'.replaced = intent.replaced
                     /\ (Hoped' => Hoped) /\ lapses' = lapses
<1>s. Saves => Budget'
  BY Spending
<1>. USE <1>0, KeyAssumption DEF Stale, Hoped, Hopes, Open
<1>1. ASSUME NEW w \in Worker, Leave(w), UNCHANGED <<intent, lapses>> PROVE Saves
  BY <1>1 DEF Leave
<1>2. ASSUME NEW w \in Worker, Begin(w) PROVE Saves
  BY <1>2 DEF Begin
<1>3. ASSUME NEW w \in Worker,
             HasKey(w) \/ LockLost(w) \/ ListFails(w) \/ GiveUp(w) \/ DeleteFails(w) \/ CreateFails(w) \/ Lookup(w)
      PROVE  Saves
  BY <1>1, <1>3 DEF HasKey, LockLost, ListFails, GiveUp, DeleteFails, CreateFails, Lookup
<1>4. ASSUME NEW w \in Worker, NeedsKey(w) PROVE Saves
  BY <1>4 DEF NeedsKey
<1>5. ASSUME NEW w \in Worker, ReadIntent(w) PROVE Budget'
  <2>1. /\ At(w, "intent") /\ lapses' = lapses
        /\ \/ intent' = intent
           \/ intent.state = "none" /\ intent'.state = "prepared" /\ intent'.replaced = 0
        /\ \/ Leave(w) /\ intent'.state = "blocked"
           \/ Goto(w, "list") /\ read' = [read EXCEPT ![w] = intent'] /\ UNCHANGED matches
    BY <1>5 DEF ReadIntent, Prepared, NoIntent
  <2>2. Stale' \subseteq Stale
    BY <2>1 DEF Leave
  <2>3. CASE intent'.replaced = intent.replaced
    <3>1. CASE Leave(w) /\ intent'.state = "blocked"
      BY <2>1, <2>2, <2>3, <3>1, <1>1, <1>s
    <3>2. CASE Goto(w, "list") /\ read' = [read EXCEPT ![w] = intent'] /\ UNCHANGED matches
      <4>1. Hoped' => Hoped
        BY <2>1, <2>3, <3>2
      <4>. QED
        BY <2>1, <2>2, <2>3, <4>1, <1>s
    <3>. QED
      BY <2>1, <3>1, <3>2
  <2>4. CASE intent'.replaced # intent.replaced
    BY <2>1, <2>2, <2>4, Spending
  <2>. QED
    BY <2>3, <2>4
<1>6. ASSUME NEW w \in Worker, ListKeys(w) PROVE Saves
  BY <1>6 DEF ListKeys
<1>7. ASSUME NEW w \in Worker, Block(w) PROVE Saves
  <2>1. intent'.state = "blocked" /\ intent'.replaced = intent.replaced
    BY <1>7 DEF Block, Intent
  <2>. QED
    BY <1>7, <2>1 DEF Block, Leave
<1>8. ASSUME NEW w \in Worker, UsePrepared(w) PROVE Saves
  BY <1>8 DEF UsePrepared, Proceeds
<1>9. ASSUME NEW w \in Worker, Replace(w) PROVE Budget'
  <2>1. At(w, "decide") /\ UNCHANGED <<lock, lapses, read>>
    BY <1>9 DEF Replace, Proceeds
  <2>2. CASE matches[w] = {} /\ Goto(w, "reset") /\ UNCHANGED intent
    <3>1. read[w].state = "revoke_pending"
      BY <1>9, <2>2 DEF Replace, Proceeds, Uncertain
    <3>. QED
      BY <1>s, <2>1, <2>2, <3>1
  <2>3. CASE \E k \in matches[w] : intent' = [intent EXCEPT !.state = "revoke_pending", !.orphan = k] /\ Goto(w, "delete")
    <3>1. intent'.state = "revoke_pending" /\ intent'.replaced = intent.replaced
      BY <2>3 DEF Intent
    <3>2. read[w].state = "revoke_pending" \/ (read[w].state = "creating" /\ read[w].replaced = 0)
      <4>1. read[w].replaced \in Nat
        OBVIOUS
      <4>2. read[w].state \in {"creating", "revoke_pending"} /\ ~Uncertain(w)
        BY <1>9, <2>3 DEF Replace, Proceeds
      <4>. QED
        BY <4>1, <4>2 DEF Uncertain
    <3>3. CASE lock = w
      BY <1>s, <2>1, <2>3, <3>1, <3>2, <3>3
    <3>4. CASE lock # w
      <4>1. w \in Stale /\ Stale' \subseteq Stale \ {w}
        BY <2>1, <2>3, <3>4
      <4>. QED
        BY <4>1, <3>1, <2>1, Spending
    <3>. QED
      BY <3>3, <3>4
  <2>. QED
    BY <1>9, <2>2, <2>3 DEF Replace
<1>10. ASSUME NEW w \in Worker, DeleteKey(w) PROVE Saves
  BY <1>10 DEF DeleteKey
<1>11. ASSUME NEW w \in Worker, ConfirmDeleted(w) PROVE Saves
  <2>1. CASE Leave(w)
    BY <1>1, <1>11, <2>1 DEF ConfirmDeleted
  <2>2. CASE Goto(w, "reset")
    BY <1>11, <2>2 DEF ConfirmDeleted
  <2>. QED
    BY <1>11, <2>1, <2>2 DEF ConfirmDeleted
<1>12. ASSUME NEW w \in Worker, Reset(w) PROVE Budget'
  <2>1. /\ At(w, "reset") /\ Goto(w, "claim") /\ UNCHANGED <<read, lapses>>
        /\ intent'.state = "prepared" /\ intent'.replaced = intent.replaced + 1 /\ intent'.replaced # 0
    BY <1>12 DEF Reset
  <2>2. CASE lock = w
    <3>1. Stale' \subseteq Stale /\ Hoped /\ ~Hoped'
      BY <2>1, <2>2
    <3>. QED
      BY <2>1, <3>1, Spending
  <2>3. CASE lock # w
    <3>1. w \in Stale /\ Stale' \subseteq Stale \ {w} /\ (Hoped' => Hoped)
      BY <2>1, <2>3
    <3>. QED
      BY <2>1, <3>1, Spending
  <2>. QED
    BY <2>2, <2>3
<1>13. ASSUME NEW w \in Worker, Claim(w) PROVE Saves
  <2>1. CASE Leave(w) /\ UNCHANGED intent
    BY <1>1, <1>13, <2>1 DEF Claim
  <2>2. CASE /\ intent.state = "prepared" /\ Goto(w, "create") /\ UNCHANGED memory
             /\ intent' = [intent EXCEPT !.state = "creating"]
    <3>1. intent'.state = "creating" /\ intent'.replaced = intent.replaced
      BY <2>2 DEF Intent
    <3>. QED
      BY <1>13, <2>2, <3>1 DEF Claim
  <2>. QED
    BY <1>13, <2>1, <2>2 DEF Claim
<1>14. ASSUME NEW w \in Worker, Created(w) \/ \E k \in KeyId : CreateKey(w, k) PROVE Saves
  BY <1>14 DEF Created, CreateKey
<1>15. ASSUME NEW w \in Worker, NEW withId \in BOOLEAN, Save(w, withId) PROVE Saves
  <2>1. intent'.state = "complete" /\ intent'.replaced = intent.replaced
    BY <1>15 DEF Save, Intent
  <2>2. CASE withId
    BY <1>15, <2>1, <2>2 DEF Save, Leave
  <2>3. CASE ~withId
    BY <1>15, <2>1, <2>3 DEF Save
  <2>. QED
    BY <2>2, <2>3
<1>16. ASSUME NEW w \in Worker, Crash(w) PROVE Saves
  BY <1>16 DEF Crash
<1>17. ASSUME NEW k, UpstreamCreates(k) \/ CreateLost(k) \/ UpstreamDeletes(k) PROVE Saves
  BY <1>17 DEF UpstreamCreates, CreateLost, UpstreamDeletes
<1>18. ASSUME LockExpires PROVE Saves
  BY <1>18 DEF LockExpires
<1>19. ASSUME LockLapses PROVE Budget'
  <2>1. /\ Stale' \subseteq Stale \cup {lock} /\ UNCHANGED intent /\ (Hoped' => Hoped)
        /\ lapses' = lapses + 1
    BY <1>19 DEF LockLapses
  <2>. QED
    BY <2>1, Spending
<1>20. ASSUME UNCHANGED vars PROVE Saves
  BY <1>20 DEF vars
<1>. HIDE DEF Saves
<1>. QED
  BY <1>s, <1>2, <1>3, <1>4, <1>5, <1>6, <1>7, <1>8, <1>9, <1>10, <1>11, <1>12, <1>13, <1>14, <1>15, <1>16,
     <1>17, <1>18, <1>19, <1>20
  DEF Next, Ensure
-----------------------------------------------------------------------------
\* The invariant is inductive.
LEMMA Inductive == IInv /\ [Next]_vars => IInv'
<1>. SUFFICES ASSUME IInv, [Next]_vars PROVE IInv'
  OBVIOUS
<1>1. TypeOK'
  BY TypeStep DEF IInv
<1>2. Untouched'
  <2>1. CASE Foreign \in upstream
    BY <2>1, UntouchedStep DEF IInv
  <2>2. CASE Foreign \notin upstream
    BY <2>2, NeverForged DEF IInv, Untouched
  <2>. QED
    BY <2>1, <2>2
<1>3. Waiting' /\ Known' /\ Unsaved'
  BY WaitingStep, KnownStep, UnsavedStep DEF IInv
<1>4. Lives' /\ Alone'
  BY LivesStep, AloneStep DEF IInv
<1>5. Budget'
  BY <1>1, BudgetStep DEF IInv
<1>. QED
  BY <1>1, <1>2, <1>3, <1>4, <1>5 DEF IInv

\* The invariant holds in every reachable state.
LEMMA Invariant == Spec => []IInv
<1>1. Init => IInv
  BY Initially
<1>. QED
  BY <1>1, Inductive, PTL DEF Spec

(***************************************************************************)
(* Type correctness; with it the bound on the replacements of a key: one,  *)
(* and one more for each time a live worker lost the lock.                 *)
(***************************************************************************)
THEOREM TypeCorrect == Spec => []TypeOK
<1>1. IInv => TypeOK
  BY DEF IInv
<1>. QED
  BY <1>1, Invariant, PTL

(***************************************************************************)
(* While no live worker loses the account lock, at most one key of the     *)
(* account's name exists upstream or may still come to exist, whatever     *)
(* answers of worker/keys.ts are lost or late and whoever crashes.         *)
(***************************************************************************)
THEOREM OneKeyOnly == Spec => []OneKey
<1>1. ASSUME IInv, lapses = 0 PROVE Cardinality(upstream \cup creating) <= 1
  <2>1. \A j, k \in upstream \cup creating : j = k
    BY <1>1 DEF IInv, Alone, Keys
  <2>2. CASE upstream \cup creating = {}
    BY <2>2, FS_EmptySet
  <2>3. CASE upstream \cup creating # {}
    <3>1. PICK k : k \in upstream \cup creating
      BY <2>3
    <3>2. upstream \cup creating = {k}
      BY <2>1, <3>1
    <3>3. Cardinality({k}) = 1
      BY FS_Singleton, Zenon
    <3>. QED
      BY <3>2, <3>3
  <2>. QED
    BY <2>2, <2>3
<1>2. IInv => OneKey
  BY <1>1 DEF OneKey
<1>. QED
  BY <1>2, Invariant, PTL

(***************************************************************************)
(* A key whose secret was saved in api_key_ciphertext is never revoked by  *)
(* another run of ensureDedicatedKey, late deletes included, however often *)
(* the lock is lost.                                                       *)
(***************************************************************************)
THEOREM SavedKey == Spec => []SavedKeyLives
<1>1. IInv => SavedKeyLives
  BY DEF IInv, Lives, Alone, SavedKeyLives
<1>. QED
  BY <1>1, Invariant, PTL

(***************************************************************************)
(* A key of the account's name that is not ours is neither revoked nor     *)
(* replaced, however often the lock is lost (worker/keys.ts blocks the     *)
(* intent instead).                                                        *)
(***************************************************************************)
THEOREM ForeignKey == Spec => ForeignKeySafe
<1>1. IInv /\ [Next]_vars => [(Foreign \in upstream) => (Foreign \in upstream' /\ used' = {})]_vars
  BY UntouchedStep DEF IInv
<1>. QED
  BY <1>1, Invariant, PTL DEF Spec, ForeignKeySafe
=============================================================================
