------------------------- MODULE AccountSyncProofs -------------------------
(***************************************************************************)
(* Proofs about an account's row: for any number of overlapping syncs,     *)
(* credentials, quota windows and snapshots, no interleaving with the      *)
(* administrator and the imports undoes the last word of the               *)
(* administrator, puts an old snapshot over a newer one, ends a pause      *)
(* without evidence or leaves a status that a replaced credential got.     *)
(***************************************************************************)
EXTENDS AccountSync, TLAPS

USE SyncAssumption
-----------------------------------------------------------------------------
(* The inductive invariant. *)

\* The runs that have a snapshot in hand, and those that have saved theirs.
Carrying == {"fetched", "attach", "save", "saved", "key", "complete"}
Stored   == {"saved", "key", "complete"}

\* A run knows the row it has read, and from Fetch on the snapshot it fetched.
Remembers ==
  \A w \in Worker :
    /\ pc[w] # "idle" => read[w] \in Memory
    /\ pc[w] \in Carrying => snapshot[w] \in Snapshot

\* Numbers grow: a snapshot in hand is newer than the one its run has read, no
\* snapshot in hand or in the row is newer than the last one fetched, and no two
\* runs carry the same.
Numbered ==
  /\ row.snapshot <= fetched
  /\ \A w \in Worker : pc[w] # "idle" => read[w].snapshot <= fetched
  /\ \A w \in Worker : pc[w] \in Carrying =>
       read[w].snapshot < snapshot[w].no /\ snapshot[w].no <= fetched
  /\ \A v, w \in Worker :
       v # w /\ pc[v] \in Carrying /\ pc[w] \in Carrying => snapshot[v].no # snapshot[w].no

\* The doubts about an account are reasons of its pause, a disabled one is not
\* doubted, and a snapshot that is still the row's has cleared what it has seen well.
Doubted ==
  /\ doubts \subseteq row.reasons
  /\ ~wanted => doubts = {}
  /\ \A w \in Worker :
       pc[w] \in Stored /\ row.snapshot = snapshot[w].no =>
         doubts \cap snapshot[w].seen \subseteq snapshot[w].full

\* The cookie in the row and the one a run has loaded are of the fingerprint beside
\* them, unless that has strayed; an entry attaches a credential the row has.
Paired ==
  /\ row.cookie = row.fingerprint \/ row.fingerprint \in strays
  /\ \A w \in Worker : pc[w] # "idle" =>
       read[w].cookie = read[w].fingerprint \/ read[w].fingerprint \in strays
  /\ import # NoMemory /\ import.stage = "session" => import.credential = row.fingerprint

IInv ==
  /\ TypeOK /\ Remembers /\ Numbered
  /\ LastWordStands /\ Doubted /\ Paired /\ StatusIsCurrent
-----------------------------------------------------------------------------
(* Types. *)

\* A quota decision blocks for reasons of this module.
LEMMA ObservationTypes ==
  ASSUME NEW o \in Observation
  PROVE  o.seen \subseteq Reason /\ o.full \subseteq Reason
BY DEF Observation

\* What saveAccountSnapshot makes of a row whose snapshot is still the one it read.
LEMMA SavedRow ==
  ASSUME row \in Row, NEW w, snapshot[w] \in Snapshot, Save(w), SaveApplies(w)
  PROVE  /\ row' \in Row
         /\ row'.snapshot = snapshot[w].no
         /\ row'.enabled = (row.enabled /\ ~Blocked(snapshot[w]))
         /\ row'.paused = (IF Blocked(snapshot[w]) THEN Owned ELSE row.paused)
         /\ row'.reasons = (IF Blocked(snapshot[w]) /\ Owned
                            THEN row.reasons \cup snapshot[w].full ELSE row.reasons)
         /\ row'.status = row.status /\ row'.fingerprint = row.fingerprint
<1> DEFINE b == snapshot[w].full # {}
           r == IF b /\ Owned THEN row.reasons \cup snapshot[w].full ELSE row.reasons
<1>1. snapshot[w].no \in 0 .. MaxSnapshots /\ r \in SUBSET Reason
  BY DEF Snapshot, Row
<1>2. row' = [row EXCEPT !.snapshot = snapshot[w].no, !.enabled = @ /\ ~b,
                         !.paused = IF b THEN Owned ELSE @, !.reasons = r]
  BY DEF Save, Blocked
<1> HIDE DEF r
<1>3. /\ row' \in Row /\ row'.snapshot = snapshot[w].no
      /\ row'.enabled = (row.enabled /\ ~b)
      /\ row'.paused = (IF b THEN Owned ELSE row.paused)
      /\ row'.reasons = r
      /\ row'.status = row.status /\ row'.fingerprint = row.fingerprint
  BY <1>1, <1>2 DEF Row, Owned
<1> QED
  BY <1>3 DEF r, Blocked

\* What completeAccountSync makes of a row that has the run's credential and snapshot.
LEMMA CompletedRow ==
  ASSUME row \in Row, NEW w, Complete(w), row' # row
  PROVE  /\ row' \in Row
         /\ row.fingerprint = read[w].fingerprint /\ row.snapshot = snapshot[w].no
         /\ row'.snapshot = row.snapshot /\ row'.fingerprint = row.fingerprint
         /\ row'.enabled = (row.enabled \/ Recovers(snapshot[w]))
         /\ row'.paused = (row.paused /\ ~Recovers(snapshot[w]))
         /\ row'.reasons = (IF Recovers(snapshot[w]) THEN {} ELSE row.reasons)
BY DEF Complete, Row, Recovers, Blocked

\* Every step keeps the types and what the runs remember.
LEMMA TypeStep == TypeOK /\ Remembers /\ [Next]_vars => TypeOK' /\ Remembers'
<1> SUFFICES ASSUME TypeOK, Remembers, [Next]_vars PROVE TypeOK' /\ Remembers'
  OBVIOUS
<1> USE DEF TypeOK, Label, Remembers, Row, Memory, Carrying, At, Goto, Owns, ghostVars
<1>1. ASSUME NEW w \in Worker, Begin(w) PROVE TypeOK' /\ Remembers'
  BY <1>1 DEF Begin
<1>2. ASSUME NEW w \in Worker, NEW o \in Observation, Fetch(w, o) PROVE TypeOK' /\ Remembers'
  BY <1>2, ObservationTypes DEF Fetch, Snapshot
<1>3. ASSUME NEW w \in Worker, AssertLock(w) PROVE TypeOK' /\ Remembers'
  BY <1>3 DEF AssertLock, Step
<1>4. ASSUME NEW w \in Worker, LockLost(w) PROVE TypeOK' /\ Remembers'
  BY <1>4 DEF LockLost, Leave, Forget
<1>5. ASSUME NEW w \in Worker, Fails(w) PROVE TypeOK' /\ Remembers'
  BY <1>5 DEF Fails, Step
<1>6. ASSUME NEW w \in Worker, Attach(w) PROVE TypeOK' /\ Remembers'
  BY <1>6 DEF Attach
<1>7. ASSUME NEW w \in Worker, Save(w) PROVE TypeOK' /\ Remembers'
  <2>1. snapshot[w] \in Snapshot
    BY <1>7 DEF Save
  <2>2. CASE SaveApplies(w)
    <3>1. /\ row' \in Row
          /\ row'.enabled = (row.enabled /\ ~Blocked(snapshot[w]))
          /\ row'.paused = (IF Blocked(snapshot[w]) THEN Owned ELSE row.paused)
          /\ row'.reasons = (IF Blocked(snapshot[w]) /\ Owned
                             THEN row.reasons \cup snapshot[w].full ELSE row.reasons)
      BY <1>7, <2>1, <2>2, SavedRow
    <3>2. ~(row'.enabled /\ row'.paused) /\ (row'.paused <=> row'.reasons # {})
      BY <3>1 DEF Owned, Blocked
    <3>3. doubts' \subseteq Reason
      BY <1>7, <2>1, <2>2 DEF Save, Snapshot
    <3> QED
      BY <1>7, <2>2, <3>1, <3>2, <3>3 DEF Save
  <2>3. CASE ~SaveApplies(w)
    BY <1>7, <2>3 DEF Save, Leave, Forget
  <2> QED
    BY <2>2, <2>3
<1>8. ASSUME NEW w \in Worker, Complete(w) PROVE TypeOK' /\ Remembers'
  <2>1. \/ UNCHANGED row
        \/ /\ row' \in Row
           /\ row'.enabled = (row.enabled \/ Recovers(snapshot[w]))
           /\ row'.paused = (row.paused /\ ~Recovers(snapshot[w]))
           /\ row'.reasons = (IF Recovers(snapshot[w]) THEN {} ELSE row.reasons)
    BY <1>8, CompletedRow
  <2>2. ~(row'.enabled /\ row'.paused) /\ (row'.paused <=> row'.reasons # {})
    BY <2>1 DEF Recovers
  <2>3. judged' \in Credential
    BY <1>8 DEF Complete
  <2> QED
    BY <1>8, <2>1, <2>2, <2>3 DEF Complete, Leave, Forget
<1>9. ASSUME NEW w \in Worker, MarkFailure(w) PROVE TypeOK' /\ Remembers'
  BY <1>9 DEF MarkFailure, Mark, Leave, Forget
<1>10. ASSUME NEW w \in Worker, Crash(w) PROVE TypeOK' /\ Remembers'
  BY <1>10 DEF Crash, Forget
<1>11. CASE LockExpires
  BY <1>11 DEF LockExpires
<1>12. CASE Disable \/ Enable
  BY <1>12 DEF Disable, Enable, syncVars
<1>13. CASE Import
  <2>0. ASSUME NEW c \in Credential, ImportKnown(c) PROVE TypeOK' /\ Remembers'
    BY <2>0 DEF ImportKnown, Stage, syncVars
  <2>1. ASSUME NEW c \in Credential, AttachKnown(c) \/ Replace(c) PROVE TypeOK' /\ Remembers'
    <3>1. row' \in Row /\ row'.enabled = row.enabled /\ row'.paused = row.paused
          /\ row'.reasons = row.reasons
      BY <2>1 DEF AttachKnown, Replace
    <3> QED
      BY <2>1, <3>1 DEF AttachKnown, Replace, Stage, syncVars
  <2>2. CASE ImportDone \/ ImportCrash
    BY <2>2 DEF ImportDone, ImportCrash, syncVars
  <2>3. CASE ImportFails
    BY <2>3 DEF ImportFails, Mark, syncVars
  <2> QED
    BY <1>13, <2>0, <2>1, <2>2, <2>3 DEF Import
<1>14. CASE UNCHANGED vars
  BY <1>14 DEF vars, syncVars
<1> QED
  BY <1>1, <1>2, <1>3, <1>4, <1>5, <1>6, <1>7, <1>8, <1>9, <1>10, <1>11, <1>12, <1>13, <1>14
     DEF Next, Sync

\* The administrator and the imports leave the snapshot of the row and the runs alone.
LEMMA OthersLeaveRuns ==
  ASSUME TypeOK, Disable \/ Enable \/ Import
  PROVE  row'.snapshot = row.snapshot /\ UNCHANGED <<syncVars, fetched>>
BY DEF TypeOK, Row, Disable, Enable, Import, ImportKnown, AttachKnown, Replace, ImportDone,
       ImportCrash, ImportFails, Mark
-----------------------------------------------------------------------------
(* Snapshots. *)

\* Every step keeps the numbers in order.
LEMMA NumberedStep ==
  ASSUME TypeOK, Remembers, Numbered, [Next]_vars
  PROVE  Numbered' /\ row'.snapshot >= row.snapshot
<1> DEFINE Goal == Numbered' /\ row'.snapshot >= row.snapshot
<1> USE DEF Numbered, Carrying, At, Goto, Owns
<1>a. /\ row \in Row /\ pc \in [Worker -> Label]
      /\ read \in [Worker -> Memory \cup {NoMemory}]
      /\ snapshot \in [Worker -> Snapshot \cup {NoMemory}]
      /\ fetched \in 0 .. MaxSnapshots
  BY DEF TypeOK
<1>b. row.snapshot \in Nat
  BY <1>a DEF Row
<1>c. \A w \in Worker : pc[w] # "idle" => read[w].snapshot \in Nat
  BY DEF Remembers, Memory
<1>d. \A w \in Worker : pc[w] \in Carrying => snapshot[w].no \in Nat
  BY DEF Remembers, Snapshot
<1> USE <1>a, <1>b, <1>c, <1>d
<1>1. ASSUME NEW w \in Worker, Begin(w) PROVE Goal
  BY <1>1 DEF Begin
<1>2. ASSUME NEW w \in Worker, NEW o \in Observation, Fetch(w, o) PROVE Goal
  BY <1>2 DEF Fetch
<1>3. ASSUME NEW w \in Worker, AssertLock(w) \/ Fails(w) PROVE Goal
  BY <1>3 DEF AssertLock, Fails, Step
<1>4. ASSUME NEW w \in Worker, Leave(w) \/ Forget(w), row'.snapshot = row.snapshot, fetched' = fetched
      PROVE  Goal
  BY <1>4 DEF Leave, Forget
<1>5. ASSUME NEW w \in Worker, LockLost(w) \/ Crash(w) PROVE Goal
  BY <1>4, <1>5 DEF LockLost, Crash
<1>6. ASSUME NEW w \in Worker, Attach(w) PROVE Goal
  BY <1>6 DEF Attach, Row
<1>7. ASSUME NEW w \in Worker, Save(w) PROVE Goal
  <2>1. CASE SaveApplies(w)
    <3>1. row'.snapshot = snapshot[w].no /\ row.snapshot = read[w].snapshot
      BY <1>7, <2>1, SavedRow DEF Save, SaveApplies, Remembers
    <3>2. UNCHANGED <<read, snapshot, fetched>> /\ pc' = [pc EXCEPT ![w] = "saved"] /\ pc[w] = "save"
      BY <1>7, <2>1 DEF Save
    <3> QED
      BY <3>1, <3>2
  <2>2. CASE ~SaveApplies(w)
    BY <1>4, <1>7, <2>2 DEF Save
  <2> QED
    BY <2>1, <2>2
<1>8. ASSUME NEW w \in Worker, Complete(w) PROVE Goal
  BY <1>4, <1>8, CompletedRow DEF Complete
<1>9. ASSUME NEW w \in Worker, MarkFailure(w) PROVE Goal
  BY <1>4, <1>9 DEF MarkFailure, Mark, Row
<1>10. CASE LockExpires
  BY <1>10 DEF LockExpires
<1>11. CASE Disable \/ Enable \/ Import
  BY <1>11, OthersLeaveRuns DEF syncVars
<1>12. CASE UNCHANGED vars
  BY <1>12 DEF vars, syncVars
<1> QED
  BY <1>1, <1>2, <1>3, <1>5, <1>6, <1>7, <1>8, <1>9, <1>10, <1>11, <1>12 DEF Next, Sync
-----------------------------------------------------------------------------
(* The administrator's word, and what a pause rests on. *)

\* No step moves the account into or out of manual disablement but the administrator's.
LEMMA LastWordStep ==
  ASSUME TypeOK, Remembers, LastWordStands, [Next]_vars
  PROVE  LastWordStands'
<1> USE DEF TypeOK, LastWordStands, ghostVars
<1>1. ASSUME NEW w \in Worker, Save(w) PROVE LastWordStands'
  <2>1. wanted' = wanted
    BY <1>1 DEF Save
  <2>2. CASE SaveApplies(w)
    <3>1. snapshot[w] \in Snapshot
      BY <1>1 DEF Save, At, Remembers, Carrying
    <3> QED
      BY <1>1, <2>1, <2>2, <3>1, SavedRow DEF Owned
  <2>3. CASE ~SaveApplies(w)
    BY <1>1, <2>1, <2>3 DEF Save
  <2> QED
    BY <2>2, <2>3
<1>2. ASSUME NEW w \in Worker, Complete(w) PROVE LastWordStands'
  <2>1. wanted' = wanted
    BY <1>2 DEF Complete
  <2> QED
    BY <1>2, <2>1, CompletedRow DEF Recovers
<1>3. CASE Disable \/ Enable
  BY <1>3 DEF Disable, Enable, Row
<1>4. CASE UNCHANGED <<row, wanted>>
  BY <1>4
<1>5. CASE wanted' = wanted /\ row'.enabled = row.enabled /\ row'.paused = row.paused
  BY <1>5
<1>6. ASSUME NEW w \in Worker, Attach(w) \/ MarkFailure(w)
      PROVE  wanted' = wanted /\ row'.enabled = row.enabled /\ row'.paused = row.paused
  BY <1>6 DEF Attach, MarkFailure, Mark, Row
<1>7. CASE Import
  <2>1. wanted' = wanted /\ row'.enabled = row.enabled /\ row'.paused = row.paused
    BY <1>7 DEF Import, ImportKnown, AttachKnown, Replace, ImportDone, ImportCrash, ImportFails,
                Mark, Row
  <2> QED
    BY <1>5, <2>1
<1>8. ASSUME NEW w \in Worker,
             Begin(w) \/ AssertLock(w) \/ LockLost(w) \/ Fails(w) \/ Crash(w)
      PROVE  UNCHANGED <<row, wanted>>
  BY <1>8 DEF Begin, AssertLock, LockLost, Fails, Crash, Step
<1>9. ASSUME NEW w \in Worker, NEW o \in Observation, Fetch(w, o) PROVE UNCHANGED <<row, wanted>>
  BY <1>9 DEF Fetch
<1> QED
  BY <1>1, <1>2, <1>3, <1>4, <1>5, <1>6, <1>7, <1>8, <1>9 DEF Next, Sync, LockExpires, vars

\* Doubts are raised and cleared by the statement that saves a snapshot; the one that
\* ends a pause finds its own snapshot in the row, and so no doubt left.
LEMMA DoubtedStep ==
  ASSUME TypeOK, Remembers, Numbered, LastWordStands, Doubted, [Next]_vars
  PROVE  Doubted'
<1> USE DEF Doubted, Stored, Carrying, At, Goto, ghostVars
<1>0. row \in Row /\ pc \in [Worker -> Label] /\ snapshot \in [Worker -> Snapshot \cup {NoMemory}]
  BY DEF TypeOK
<1> USE <1>0
<1>1. ASSUME NEW w \in Worker, Save(w) PROVE Doubted'
  <2>1. CASE SaveApplies(w)
    <3>1. /\ pc[w] = "save" /\ pc' = [pc EXCEPT ![w] = "saved"] /\ snapshot' = snapshot
          /\ wanted' = wanted
          /\ doubts' = IF wanted THEN (doubts \ snapshot[w].seen) \cup snapshot[w].full ELSE doubts
      BY <1>1, <2>1 DEF Save
    <3>2. /\ row'.snapshot = snapshot[w].no
          /\ row'.reasons = (IF Blocked(snapshot[w]) /\ Owned
                             THEN row.reasons \cup snapshot[w].full ELSE row.reasons)
      BY <1>1, <2>1, <3>1, SavedRow DEF Remembers
    <3>3. doubts' \subseteq row'.reasons
      BY <3>1, <3>2 DEF LastWordStands, Owned, Blocked
    <3>4. ASSUME NEW v \in Worker, pc'[v] \in Stored, row'.snapshot = snapshot[v].no
          PROVE  doubts' \cap snapshot[v].seen \subseteq snapshot[v].full
      <4>1. v = w
        BY <3>1, <3>2, <3>4 DEF Numbered
      <4> QED
        BY <3>1, <4>1
    <3> QED
      BY <3>1, <3>3, <3>4
  <2>2. CASE ~SaveApplies(w)
    BY <1>1, <2>2 DEF Save, Leave, Forget
  <2> QED
    BY <2>1, <2>2
<1>2. ASSUME NEW w \in Worker, Complete(w) PROVE Doubted'
  <2>1. /\ pc[w] = "complete" /\ pc' = [pc EXCEPT ![w] = "idle"] /\ UNCHANGED <<wanted, doubts>>
        /\ snapshot' = [snapshot EXCEPT ![w] = NoMemory]
    BY <1>2 DEF Complete, Leave, Forget
  <2>2. CASE UNCHANGED row
    BY <2>1, <2>2
  <2>3. CASE row' # row
    <3>1. /\ row.snapshot = snapshot[w].no /\ row'.snapshot = row.snapshot
          /\ row'.reasons = (IF Recovers(snapshot[w]) THEN {} ELSE row.reasons)
      BY <1>2, <2>3, CompletedRow
    <3>2. Recovers(snapshot[w]) => doubts = {}
      BY <2>1, <3>1 DEF Recovers, Blocked
    <3> QED
      BY <2>1, <3>1, <3>2
  <2> QED
    BY <2>2, <2>3
<1>3. CASE Disable \/ Enable
  <2>1. row'.snapshot = row.snapshot /\ UNCHANGED syncVars
    BY <1>3, OthersLeaveRuns
  <2>2. \/ wanted' = FALSE /\ doubts' = {}
        \/ wanted' = TRUE /\ doubts' = doubts /\ row'.reasons = row.reasons
    BY <1>3 DEF Disable, Enable, Row
  <2> QED
    BY <2>1, <2>2 DEF syncVars
<1>4. ASSUME UNCHANGED <<wanted, doubts>>, row'.snapshot = row.snapshot, row'.reasons = row.reasons,
             \A v \in Worker : pc'[v] \in Stored => pc[v] \in Stored /\ snapshot'[v] = snapshot[v]
      PROVE  Doubted'
  BY <1>4
<1>5. ASSUME NEW w \in Worker,
             Begin(w) \/ AssertLock(w) \/ LockLost(w) \/ Fails(w) \/ Crash(w) \/ Attach(w) \/ MarkFailure(w)
      PROVE  Doubted'
  <2>1. row'.snapshot = row.snapshot /\ row'.reasons = row.reasons /\ UNCHANGED <<wanted, doubts>>
    BY <1>5 DEF Begin, AssertLock, LockLost, Fails, Crash, Attach, MarkFailure, Mark, Step, Row
  <2>2. \A v \in Worker : pc'[v] \in Stored => pc[v] \in Stored /\ snapshot'[v] = snapshot[v]
    BY <1>5 DEF Begin, AssertLock, LockLost, Fails, Crash, Attach, MarkFailure, Step, Leave, Forget
  <2> QED
    BY <1>4, <2>1, <2>2
<1>6. ASSUME NEW w \in Worker, NEW o \in Observation, Fetch(w, o) PROVE Doubted'
  BY <1>4, <1>6 DEF Fetch
<1>7. CASE Import
  <2>1. row'.snapshot = row.snapshot /\ UNCHANGED syncVars
    BY <1>7, OthersLeaveRuns
  <2>2. UNCHANGED <<wanted, doubts>> /\ row'.reasons = row.reasons
    BY <1>7 DEF Import, ImportKnown, AttachKnown, Replace, ImportDone, ImportCrash, ImportFails,
                Mark, Row
  <2> QED
    BY <1>4, <2>1, <2>2 DEF syncVars
<1>8. CASE LockExpires \/ UNCHANGED vars
  BY <1>4, <1>8 DEF LockExpires, vars, syncVars
<1> QED
  BY <1>1, <1>2, <1>3, <1>5, <1>6, <1>7, <1>8 DEF Next, Sync

\* What is loaded from the row stays paired: the only statement that writes a cookie
\* without the fingerprint it came with is attachIdentity, and what it strays is noted.
LEMMA PairedStep ==
  ASSUME TypeOK, Remembers, Paired, [Next]_vars
  PROVE  Paired' /\ strays \subseteq strays'
<1> DEFINE Goal == Paired' /\ strays \subseteq strays'
<1> USE DEF Paired, At, Goto, ghostVars
<1>0. /\ row \in Row /\ pc \in [Worker -> Label]
      /\ read \in [Worker -> Memory \cup {NoMemory}]
      /\ import \in [credential : Credential, stage : {"session", "sync"}] \cup {NoMemory}
  BY DEF TypeOK
<1> USE <1>0
\* A step that writes neither half of a credential.
<1>1. ASSUME row'.cookie = row.cookie, row'.fingerprint = row.fingerprint,
             UNCHANGED <<import, strays>>,
             \A v \in Worker : pc'[v] # "idle" => pc[v] # "idle" /\ read'[v] = read[v]
      PROVE  Goal
  BY <1>1
<1>2. ASSUME NEW w \in Worker, Begin(w) PROVE Goal
  <2>1. UNCHANGED <<row, import, strays>> /\ pc' = [pc EXCEPT ![w] = "await"]
    BY <1>2 DEF Begin
  <2>2. /\ read'[w].cookie = row.cookie /\ read'[w].fingerprint = row.fingerprint
        /\ \A v \in Worker \ {w} : read'[v] = read[v]
    BY <1>2 DEF Begin
  <2> QED
    BY <2>1, <2>2
<1>3. ASSUME NEW w \in Worker, Attach(w) PROVE Goal
  <2>1. /\ row'.cookie = read[w].cookie /\ row'.fingerprint = row.fingerprint
        /\ strays' = strays \cup (IF read[w].cookie = row.fingerprint THEN {} ELSE {row.fingerprint})
        /\ UNCHANGED <<read, import>> /\ pc[w] = "attach" /\ pc' = [pc EXCEPT ![w] = "save"]
    BY <1>3 DEF Attach, Row
  <2> QED
    BY <2>1
<1>4. ASSUME NEW w \in Worker,
             Begin(w) \/ AssertLock(w) \/ LockLost(w) \/ Fails(w) \/ Attach(w) \/ Save(w)
               \/ Complete(w) \/ MarkFailure(w) \/ Crash(w) \/ \E o \in Observation : Fetch(w, o),
             ~Begin(w), ~Attach(w)
      PROVE  Goal
  <2>1. UNCHANGED <<import, strays>>
    BY <1>4 DEF AssertLock, LockLost, Fails, Save, Complete, MarkFailure, Crash, Fetch, Step
  <2>2. row'.cookie = row.cookie /\ row'.fingerprint = row.fingerprint
    BY <1>4 DEF AssertLock, LockLost, Fails, Save, Complete, MarkFailure, Mark, Crash, Fetch, Step, Row
  <2>3. \A v \in Worker : pc'[v] # "idle" => pc[v] # "idle" /\ read'[v] = read[v]
    BY <1>4 DEF AssertLock, LockLost, Fails, Save, Complete, MarkFailure, Crash, Fetch, Step, Leave, Forget
  <2> QED
    BY <1>1, <2>1, <2>2, <2>3
<1>5. CASE LockExpires \/ UNCHANGED vars
  BY <1>1, <1>5 DEF LockExpires, vars, syncVars
<1>6. CASE Disable \/ Enable
  BY <1>1, <1>6 DEF Disable, Enable, syncVars, Row
<1>7. CASE Import
  <2>1. UNCHANGED <<pc, read, strays>>
    BY <1>7 DEF Import, ImportKnown, AttachKnown, Replace, ImportDone, ImportCrash, ImportFails, syncVars
  <2>2. ASSUME NEW c \in Credential, ImportKnown(c) PROVE Goal
    BY <2>1, <2>2 DEF ImportKnown, Stage
  <2>3. ASSUME NEW c \in Credential, AttachKnown(c) \/ Replace(c) PROVE Goal
    <3>1. import'.stage = "sync"
      BY <2>3 DEF AttachKnown, Replace, Stage
    <3>2. row'.cookie = c /\ row'.fingerprint = c
      <4>1. CASE AttachKnown(c)
        <5>1. row.fingerprint = c
          <6>1. import = [credential |-> c, stage |-> "session"]
            BY <4>1 DEF AttachKnown, Importing
          <6>2. import # NoMemory
            BY <6>1, SyncAssumption
          <6> QED
            BY <6>1, <6>2
        <5> QED
          BY <4>1, <5>1 DEF AttachKnown, Row
      <4>2. CASE Replace(c)
        BY <4>2 DEF Replace, Row
      <4> QED
        BY <2>3, <4>1, <4>2
    <3> QED
      BY <2>1, <3>1, <3>2
  <2>4. CASE ImportDone \/ ImportCrash \/ ImportFails
    <3>1. import' = NoMemory /\ row'.cookie = row.cookie /\ row'.fingerprint = row.fingerprint
      BY <2>4 DEF ImportDone, ImportCrash, ImportFails, Mark, Row
    <3> QED
      BY <2>1, <3>1
  <2> QED
    BY <1>7, <2>2, <2>3, <2>4 DEF Import
<1> QED
  BY <1>2, <1>3, <1>4, <1>5, <1>6, <1>7 DEF Next, Sync

\* The statements that set the status look at the fingerprint, and what a run or an
\* entry asks with is paired with it.
LEMMA StatusStep ==
  ASSUME TypeOK, Remembers, Paired, StatusIsCurrent, [Next]_vars
  PROVE  StatusIsCurrent'
<1> USE DEF StatusIsCurrent, ghostVars
<1>0. row \in Row /\ strays \subseteq strays'
  BY PairedStep DEF TypeOK
\* What a run has read is paired.
<1>a. ASSUME NEW w \in Worker, pc[w] # "idle", row.fingerprint = read[w].fingerprint
      PROVE  read[w].cookie = row.fingerprint \/ row.fingerprint \in strays
  BY <1>a DEF Paired
<1>1. ASSUME NEW w \in Worker, Save(w) PROVE StatusIsCurrent'
  <2>1. row'.status = row.status /\ row'.fingerprint = row.fingerprint
    BY <1>0, <1>1 DEF Save, Row
  <2> QED
    BY <1>1, <2>1 DEF Save
<1>2. ASSUME NEW w \in Worker, Complete(w) PROVE StatusIsCurrent'
  <2>1. \/ UNCHANGED <<row, judged>>
        \/ /\ row.fingerprint = read[w].fingerprint /\ row'.fingerprint = row.fingerprint
           /\ judged' = read[w].cookie
    BY <1>0, <1>2 DEF Complete, Row
  <2>2. pc[w] # "idle" /\ strays' = strays
    BY <1>2 DEF Complete, At
  <2> QED
    BY <1>0, <1>a, <2>1, <2>2
<1>3. ASSUME NEW w \in Worker, MarkFailure(w) PROVE StatusIsCurrent'
  <2>1. \/ UNCHANGED <<row, judged>>
        \/ /\ row.fingerprint = read[w].fingerprint /\ row'.fingerprint = row.fingerprint
           /\ judged' = read[w].cookie
    BY <1>0, <1>3 DEF MarkFailure, Mark, Row
  <2>2. pc[w] # "idle" /\ strays' = strays
    BY <1>3 DEF MarkFailure, At
  <2> QED
    BY <1>0, <1>a, <2>1, <2>2
<1>4. CASE Disable \/ Enable
  BY <1>0, <1>4 DEF Disable, Enable, Row
<1>5. ASSUME NEW w \in Worker, Attach(w) PROVE StatusIsCurrent'
  BY <1>0, <1>5 DEF Attach, Row
<1>6. CASE Import
  <2>1. ASSUME NEW c \in Credential, AttachKnown(c) \/ Replace(c) PROVE StatusIsCurrent'
    BY <1>0, <2>1 DEF AttachKnown, Replace, Row
  <2>2. CASE ImportFails
    <3>1. row'.fingerprint = row.fingerprint /\ strays' = strays
      BY <1>0, <2>2 DEF ImportFails, Mark, Row
    <3>2. \/ UNCHANGED <<row, judged>>
          \/ judged' = row.fingerprint
          \/ judged' = row.cookie
      BY <2>2 DEF ImportFails, Mark
    <3> QED
      BY <3>1, <3>2 DEF Paired
  <2>3. ASSUME NEW c \in Credential, ImportKnown(c) PROVE StatusIsCurrent'
    BY <2>3 DEF ImportKnown
  <2>4. CASE ImportDone \/ ImportCrash
    BY <2>4 DEF ImportDone, ImportCrash
  <2> QED
    BY <1>6, <2>1, <2>2, <2>3, <2>4 DEF Import
<1>7. ASSUME NEW w \in Worker,
             Begin(w) \/ AssertLock(w) \/ LockLost(w) \/ Fails(w) \/ Crash(w)
      PROVE  UNCHANGED <<row, judged, strays>>
  BY <1>7 DEF Begin, AssertLock, LockLost, Fails, Crash, Step
<1>8. ASSUME NEW w \in Worker, NEW o \in Observation, Fetch(w, o)
      PROVE  UNCHANGED <<row, judged, strays>>
  BY <1>8 DEF Fetch
<1> QED
  BY <1>1, <1>2, <1>3, <1>4, <1>5, <1>6, <1>7, <1>8 DEF Next, Sync, LockExpires, vars
-----------------------------------------------------------------------------
(* The theorems. *)

\* A new account, and one that is paused.
LEMMA FirstRow ==
  ASSUME NEW c \in Credential, NEW reasons \in (SUBSET Reason) \ {{}}
  PROVE  /\ NewRow(c) \in Row /\ NewRow(c).reasons = {} /\ NewRow(c).snapshot = 0
         /\ NewRow(c).enabled /\ ~NewRow(c).paused
         /\ PausedRow(c, reasons) \in Row /\ PausedRow(c, reasons).reasons = reasons
         /\ PausedRow(c, reasons).snapshot = 0
         /\ ~PausedRow(c, reasons).enabled /\ PausedRow(c, reasons).paused
<1>1. /\ NewRow(c) \in Row /\ NewRow(c).reasons = {} /\ NewRow(c).snapshot = 0
      /\ NewRow(c).enabled /\ ~NewRow(c).paused
  BY DEF NewRow, Row
<1>2. reasons \in SUBSET Reason /\ reasons # {}
  OBVIOUS
<1> QED
  BY <1>1, <1>2 DEF PausedRow, Row

\* The invariant holds at first, of a new account and of one that is paused.
LEMMA Initially == Init => IInv
<1> SUFFICES ASSUME Init PROVE IInv
  OBVIOUS
<1>1. PICK c \in Credential :
        \/ row = NewRow(c) /\ doubts = {}
        \/ \E reasons \in (SUBSET Reason) \ {{}} : row = PausedRow(c, reasons) /\ doubts = reasons
  BY DEF Init
<1>2. /\ row \in Row /\ ~(row.enabled /\ row.paused) /\ (row.paused <=> row.reasons # {})
      /\ row.snapshot = 0 /\ doubts = row.reasons /\ (row.enabled \/ row.paused)
      /\ doubts \subseteq Reason
  <2>1. {"unknown"} \in (SUBSET Reason) \ {{}}
    BY DEF Reason
  <2> QED
    BY <1>1, <2>1, FirstRow
<1>3. /\ judged = row.cookie /\ judged \in Credential /\ strays = {}
      /\ row.cookie = row.fingerprint
  <2>1. NewRow(c).cookie = NewRow(c).fingerprint
    BY DEF NewRow
  <2>2. ASSUME NEW reasons, row = PausedRow(c, reasons)
        PROVE  row.cookie = row.fingerprint
    BY <2>2 DEF PausedRow, NewRow
  <2> QED
    BY <1>1, <1>2, <2>1, <2>2 DEF Init, Row
<1>4. TypeOK
  <2>1. /\ lock \in Worker \cup {NoWorker} /\ pc \in [Worker -> Label]
        /\ read \in [Worker -> Memory \cup {NoMemory}]
        /\ snapshot \in [Worker -> Snapshot \cup {NoMemory}]
    BY DEF Init, Label
  <2>2. fetched \in 0 .. MaxSnapshots /\ lapses \in 0 .. MaxLapses /\ wanted \in BOOLEAN
    BY DEF Init
  <2> QED
    BY <1>2, <1>3, <2>1, <2>2 DEF Init, TypeOK
<1>5. \A w \in Worker : pc[w] = "idle"
  BY DEF Init
<1>6. Remembers /\ Numbered /\ Doubted
  BY <1>2, <1>5 DEF Init, Remembers, Numbered, Doubted, Carrying, Stored
<1>7. LastWordStands /\ Paired /\ StatusIsCurrent
  BY <1>2, <1>3, <1>5 DEF Init, LastWordStands, Paired, StatusIsCurrent
<1> QED
  BY <1>4, <1>6, <1>7 DEF IInv

\* Every step keeps the invariant.
LEMMA Inductive == IInv /\ [Next]_vars => IInv'
BY TypeStep, NumberedStep, LastWordStep, DoubtedStep, PairedStep, StatusStep DEF IInv

\* The invariant always holds.
LEMMA Invariant == Spec => []IInv
BY Initially, Inductive, PTL DEF Spec

\* The columns of the row are well typed and those of a pause agree, whatever
\* syncs, imports and the administrator write in between.
THEOREM TypeCorrect == Spec => []TypeOK
<1>1. IInv => TypeOK
  BY DEF IInv
<1> QED
  BY <1>1, Invariant, PTL

\* The administrator's last word stands (patchAccount against the statements of
\* account-quota.ts).
THEOREM LastWord == Spec => []LastWordStands
<1>1. IInv => LastWordStands
  BY DEF IInv
<1> QED
  BY <1>1, Invariant, PTL

\* No account comes back from a pause before every reason of the pause was seen
\* well in a snapshot that was saved (completeAccountSync).
THEOREM Confirmation == Spec => []RecoveryConfirmed
<1>1. IInv => RecoveryConfirmed
  BY DEF IInv, TypeOK, Doubted, RecoveryConfirmed
<1> QED
  BY <1>1, Invariant, PTL

\* The status was obtained with the cookie of the credential the row has now, unless
\* attachIdentity has put another's beside its fingerprint: a run that loaded an older
\* pair, however late it answers, changes nothing.
THEOREM Status == Spec => []StatusIsCurrent
<1>1. IInv => StatusIsCurrent
  BY DEF IInv
<1> QED
  BY <1>1, Invariant, PTL

\* A delayed answer never replaces a newer snapshot (saveAccountSnapshot compares
\* with the snapshot the run has read).
THEOREM Advance == Spec => SnapshotsAdvance
<1>1. IInv /\ [Next]_vars => row'.snapshot >= row.snapshot
  BY NumberedStep DEF IInv
<1>2. row'.snapshot >= row.snapshot => [row'.snapshot >= row.snapshot]_vars
  OBVIOUS
<1> QED
  BY <1>1, Invariant, PTL DEF Spec, SnapshotsAdvance
=============================================================================
