---------------------------- MODULE AccountSync ----------------------------
(***************************************************************************)
(* The row of one managed account: syncAccount of worker/tasks.ts, which   *)
(* saves snapshots, pauses the account when a quota is exhausted and       *)
(* enables it again (server/lib/account-quota.ts), against the             *)
(* administrator who enables and disables it and against imports that      *)
(* replace its credential (server/lib/accounts.ts), which do not take the  *)
(* account lock.  An SQL statement is one step.                            *)
(*                                                                         *)
(* A snapshot is what the decisions need of it: the reasons it blocks the  *)
(* account for (getQuotaBlock) and the reasons it says something about     *)
(* (confirmedQuotaReasons); to compare two, its number in the order of     *)
(* arrival, for the time of fetching makes every snapshot different.  The  *)
(* time a pause resumes at only schedules syncs, and is left out.  The     *)
(* upstream user belongs to this account: a row that loses its identity to *)
(* another is deleted, and left out.                                       *)
(***************************************************************************)
EXTENDS Integers, FiniteSets

CONSTANTS
  Worker,        \* concurrent runs of syncAccount for the account
  NoWorker,
  NoMemory,      \* what a process between two runs remembers
  Credential,    \* session cookies of the account's user
  Window,        \* the quota windows: fiveHour, weekly, monthly
  MaxSnapshots,  \* bound: snapshots fetched
  MaxLapses      \* bound: times a live worker loses the lock

ASSUME SyncAssumption ==
  /\ NoWorker \notin Worker
  /\ "unknown" \notin Window
  /\ NoMemory \notin [credential : Credential, stage : {"session", "sync"}]
  /\ MaxSnapshots \in Nat /\ MaxLapses \in Nat

VARIABLES
  row,       \* the row of managed_accounts
  lock,      \* ccm:sync:lock
  pc,        \* of each worker
  read,      \* what each worker uses of the row it has loaded
  snapshot,  \* the snapshot each worker has fetched
  import,    \* the import entry in progress, once it is about this account
  fetched,   \* the number of snapshots fetched
  lapses,
  wanted,    \* the administrator's last word: the account shall be in use
  doubts,    \* the reasons a saved snapshot has blocked for, not seen well since
  judged,    \* the cookie the status was obtained with; while it is pending, the credential
  strays     \* the fingerprints under which a cookie of another credential was stored

ghostVars == <<wanted, doubts, judged, strays>>
syncVars  == <<lock, pc, read, snapshot>>
vars == <<row, syncVars, import, fetched, lapses, ghostVars>>
-----------------------------------------------------------------------------
Reason == Window \cup {"unknown"}

Decisions == INSTANCE Quota

\* What a snapshot may say.
Observation ==
  {o \in [seen : SUBSET Reason, full : SUBSET Reason] : Decisions!Coherent(o.seen, o.full)}

Blocked(s) == s.full # {}

NewRow(c) ==
  [enabled |-> TRUE, paused |-> FALSE, reasons |-> {}, status |-> "pending",
   snapshot |-> 0, fingerprint |-> c, cookie |-> c, identified |-> FALSE]

\* An account paused some time ago.
PausedRow(c, reasons) ==
  [NewRow(c) EXCEPT !.enabled = FALSE, !.paused = TRUE, !.reasons = reasons,
                    !.status = "ready", !.identified = TRUE]

At(w, l) == pc[w] = l
Goto(w, l) == pc' = [pc EXCEPT ![w] = l]
Owns(w) == lock = w

Forget(w) ==
  /\ Goto(w, "idle")
  /\ read' = [read EXCEPT ![w] = NoMemory] /\ snapshot' = [snapshot EXCEPT ![w] = NoMemory]
Leave(w) == Forget(w) /\ lock' = IF Owns(w) THEN NoWorker ELSE lock

Step(w, from, to) ==
  /\ At(w, from) /\ Goto(w, to)
  /\ UNCHANGED <<row, lock, read, snapshot, import, fetched, lapses, ghostVars>>
-----------------------------------------------------------------------------
(* syncAccount *)

\* The lock is taken and the row read; a lock lost in between stops the run before its
\* first request.
Begin(w) ==
  /\ lock = NoWorker /\ lock' = w /\ At(w, "idle") /\ Goto(w, "await")
  /\ read' = [read EXCEPT ![w] =
       [c \in {"fingerprint", "cookie", "identified", "snapshot"} |-> row[c]]]
  /\ UNCHANGED <<row, snapshot, import, fetched, lapses, ghostVars>>

Fetch(w, o) ==
  /\ At(w, "await") /\ Goto(w, "fetched")
  /\ fetched < MaxSnapshots /\ fetched' = fetched + 1
  /\ snapshot' = [snapshot EXCEPT ![w] = [no |-> fetched', seen |-> o.seen, full |-> o.full]]
  /\ UNCHANGED <<row, lock, read, import, lapses, ghostVars>>

\* assertLock passes before a write; the key is found, or created, before the last one.
AssertLock(w) ==
  /\ Owns(w)
  /\ \/ Step(w, "fetched", IF read[w].identified THEN "save" ELSE "attach")
     \/ Step(w, "saved", "key") \/ Step(w, "key", "complete")
     \/ Step(w, "failed", "mark")

\* assertLock throws.
LockLost(w) ==
  /\ pc[w] \in {"await", "fetched", "saved", "key", "failed"} /\ ~Owns(w) /\ Leave(w)
  /\ UNCHANGED <<row, import, fetched, lapses, ghostVars>>

\* An upstream request fails, another user answers, or no key can be had.
Fails(w) == \E l \in {"await", "save", "key"} : Step(w, l, "failed")

\* attachIdentity: the account gets its identity, and the cookie the run has loaded.
Attach(w) ==
  /\ At(w, "attach") /\ Goto(w, "save")
  /\ row' = [row EXCEPT !.identified = TRUE, !.cookie = read[w].cookie, !.status = "pending"]
  /\ strays' = strays \cup IF read[w].cookie = row.fingerprint THEN {} ELSE {row.fingerprint}
  /\ judged' = row.fingerprint
  /\ UNCHANGED <<lock, read, snapshot, import, fetched, lapses, wanted, doubts>>

\* Mutant: the previous snapshot is not compared.
SaveAppliesAnyway(w) == row.fingerprint = read[w].fingerprint

SaveApplies(w) ==
  row.fingerprint = read[w].fingerprint /\ row.snapshot = read[w].snapshot

\* Mutant: a block pauses the account whatever its flags.
OwnedAnyway == TRUE

\* Only an account in use is paused: a manual disable is not the worker's to undo.
Owned == row.enabled \/ row.paused

\* saveAccountSnapshot: all in one statement, on the flags as they are.
Save(w) ==
  LET s == snapshot[w] IN
  /\ At(w, "save")
  /\ IF SaveApplies(w)
     THEN /\ Goto(w, "saved") /\ UNCHANGED <<lock, read, snapshot>>
          /\ row' = [row EXCEPT
               !.snapshot = s.no,
               !.enabled = @ /\ ~Blocked(s),
               !.paused = IF Blocked(s) THEN Owned ELSE @,
               !.reasons = IF Blocked(s) /\ Owned THEN @ \cup s.full ELSE @]
          /\ doubts' = IF wanted THEN (doubts \ s.seen) \cup s.full ELSE doubts
     ELSE Leave(w) /\ UNCHANGED <<row, doubts>>
  /\ UNCHANGED <<import, fetched, lapses, wanted, judged, strays>>

\* Mutant: a snapshot that does not block is enough.
RecoversUnseen(s) == row.paused /\ ~Blocked(s)

\* A missing window is not evidence of recovery.
Recovers(s) == row.paused /\ ~Blocked(s) /\ row.reasons \subseteq s.seen

\* completeAccountSync
Complete(w) ==
  LET s == snapshot[w] IN
  /\ At(w, "complete") /\ Leave(w)
  /\ IF row.fingerprint = read[w].fingerprint /\ row.snapshot = s.no
     THEN /\ row' = [row EXCEPT
               !.status = "ready",
               !.enabled = @ \/ Recovers(s),
               !.paused = @ /\ ~Recovers(s),
               !.reasons = IF Recovers(s) THEN {} ELSE @]
          /\ judged' = read[w].cookie
     ELSE UNCHANGED <<row, judged>>
  /\ UNCHANGED <<import, fetched, lapses, wanted, doubts, strays>>

\* Mutant: the failure is recorded whatever credential the row has by now.
MarkUnguarded(c, cookie) == row' = [row EXCEPT !.status = "failed"] /\ judged' = cookie

\* markSyncFailure, of a call made with the cookie; credential_expired and sync_error
\* are one status here.
Mark(c, cookie) ==
  IF row.fingerprint = c
  THEN row' = [row EXCEPT !.status = "failed"] /\ judged' = cookie
  ELSE UNCHANGED <<row, judged>>

MarkFailure(w) ==
  /\ At(w, "mark") /\ Mark(read[w].fingerprint, read[w].cookie) /\ Leave(w)
  /\ UNCHANGED <<import, fetched, lapses, wanted, doubts, strays>>

\* The worker dies, and its lock runs out later; or a live worker loses the lock.
Crash(w) ==
  /\ ~At(w, "idle") /\ Forget(w)
  /\ UNCHANGED <<row, lock, import, fetched, lapses, ghostVars>>

LockExpires ==
  /\ lock # NoWorker /\ lock' = NoWorker
  /\ \/ At(lock, "idle") /\ UNCHANGED lapses
     \/ ~At(lock, "idle") /\ lapses < MaxLapses /\ lapses' = lapses + 1
  /\ UNCHANGED <<row, pc, read, snapshot, import, fetched, ghostVars>>
-----------------------------------------------------------------------------
(* The administrator: patchAccount and the bulk actions. *)

\* Mutant: the reasons of an earlier pause stay.
DisableKeeping ==
  /\ row' = [row EXCEPT !.enabled = FALSE, !.paused = FALSE]
  /\ wanted' = FALSE /\ doubts' = {}
  /\ UNCHANGED <<syncVars, import, fetched, lapses, judged, strays>>

Disable ==
  /\ row' = [row EXCEPT !.enabled = FALSE, !.paused = FALSE, !.reasons = {}]
  /\ wanted' = FALSE /\ doubts' = {}
  /\ UNCHANGED <<syncVars, import, fetched, lapses, judged, strays>>

\* A paused account stays paused; a sync of it is due at once.
Enable ==
  /\ row' = [row EXCEPT !.enabled = ~row.paused]
  /\ wanted' = TRUE
  /\ UNCHANGED <<syncVars, import, fetched, lapses, doubts, judged, strays>>
-----------------------------------------------------------------------------
(* Imports: processImport, one entry at a time, without the account lock. *)

Importing(c, stage) == import = [credential |-> c, stage |-> stage]
Stage(c, stage) == import' = [credential |-> c, stage |-> stage]

\* createPendingAccount finds the account by its credential.
ImportKnown(c) ==
  /\ import = NoMemory /\ row.fingerprint = c /\ Stage(c, "session")
  /\ UNCHANGED <<row, syncVars, fetched, lapses, ghostVars>>

\* attachIdentity, for the account itself.
AttachKnown(c) ==
  /\ Importing(c, "session") /\ Stage(c, "sync")
  /\ row' = [row EXCEPT !.identified = TRUE, !.cookie = c, !.status = "pending"] /\ judged' = c
  /\ UNCHANGED <<syncVars, fetched, lapses, wanted, doubts, strays>>

\* attachIdentity, for another row, finds this account by its user.
Replace(c) ==
  /\ import = NoMemory /\ row.fingerprint # c /\ row.identified /\ Stage(c, "sync")
  /\ row' = [row EXCEPT !.fingerprint = c, !.cookie = c, !.status = "pending"] /\ judged' = c
  /\ UNCHANGED <<syncVars, fetched, lapses, wanted, doubts, strays>>

\* The entry's own sync is one of the workers' runs.
ImportDone ==
  /\ import # NoMemory /\ import.stage = "sync" /\ import' = NoMemory
  /\ UNCHANGED <<row, syncVars, fetched, lapses, ghostVars>>

\* The worker dies before the checkpoint: the entry runs again, possibly after others.
ImportCrash ==
  /\ import # NoMemory /\ import' = NoMemory
  /\ UNCHANGED <<row, syncVars, fetched, lapses, ghostVars>>

\* The entry's own cookie was refused, or the one its sync has loaded from the row.
ImportFails ==
  /\ import # NoMemory /\ import' = NoMemory
  /\ \/ Mark(import.credential, import.credential)
     \/ import.stage = "sync" /\ Mark(import.credential, row.cookie)
  /\ UNCHANGED <<syncVars, fetched, lapses, wanted, doubts, strays>>
-----------------------------------------------------------------------------
Init ==
  /\ \E c \in Credential :
       \/ row = NewRow(c) /\ doubts = {}
       \/ \E reasons \in (SUBSET Reason) \ {{}} :
            row = PausedRow(c, reasons) /\ doubts = reasons
  /\ lock = NoWorker
  /\ pc = [w \in Worker |-> "idle"]
  /\ read = [w \in Worker |-> NoMemory] /\ snapshot = [w \in Worker |-> NoMemory]
  /\ import = NoMemory
  /\ fetched = 0 /\ lapses = 0
  /\ wanted = TRUE /\ judged = row.cookie /\ strays = {}

Sync(w) ==
  \/ Begin(w) \/ AssertLock(w) \/ LockLost(w) \/ Fails(w) \/ Attach(w) \/ Save(w)
  \/ Complete(w) \/ MarkFailure(w) \/ Crash(w)
  \/ \E o \in Observation : Fetch(w, o)

Import ==
  \/ \E c \in Credential : ImportKnown(c) \/ AttachKnown(c) \/ Replace(c)
  \/ ImportDone \/ ImportCrash \/ ImportFails

Next ==
  \/ \E w \in Worker : Sync(w)
  \/ LockExpires \/ Disable \/ Enable \/ Import

Spec == Init /\ [][Next]_vars
-----------------------------------------------------------------------------
Label ==
  {"idle", "await", "fetched", "attach", "save", "saved", "key", "complete", "failed", "mark"}
Snapshot == [no : 1 .. MaxSnapshots, seen : SUBSET Reason, full : SUBSET Reason]
Row ==
  [enabled : BOOLEAN, paused : BOOLEAN, reasons : SUBSET Reason,
   status : {"pending", "ready", "failed"}, snapshot : 0 .. MaxSnapshots,
   fingerprint : Credential, cookie : Credential, identified : BOOLEAN]
Memory ==
  [fingerprint : Credential, cookie : Credential, identified : BOOLEAN,
   snapshot : 0 .. MaxSnapshots]

(***************************************************************************)
(* Types; and the columns of a pause belong together: an account in use is *)
(* not paused, a pause has reasons, and nothing else has.                  *)
(***************************************************************************)
TypeOK ==
  /\ row \in Row
  /\ ~(row.enabled /\ row.paused)
  /\ row.paused <=> row.reasons # {}
  /\ lock \in Worker \cup {NoWorker}
  /\ pc \in [Worker -> Label]
  /\ read \in [Worker -> Memory \cup {NoMemory}]
  /\ snapshot \in [Worker -> Snapshot \cup {NoMemory}]
  /\ import \in [credential : Credential, stage : {"session", "sync"}] \cup {NoMemory}
  /\ fetched \in 0 .. MaxSnapshots /\ lapses \in 0 .. MaxLapses
  /\ wanted \in BOOLEAN /\ doubts \subseteq Reason
  /\ judged \in Credential /\ strays \subseteq Credential

(***************************************************************************)
(* The administrator's last word stands: syncs that overlap with it, or    *)
(* with each other, move the account between in use and paused, and never  *)
(* out of or into manual disablement.                                      *)
(***************************************************************************)
LastWordStands == wanted <=> row.enabled \/ row.paused

(***************************************************************************)
(* An account in use that was paused has had every reason of the pause     *)
(* seen well in a snapshot saved since; a window that is missing, and a    *)
(* snapshot that another has replaced, are no evidence.                    *)
(***************************************************************************)
RecoveryConfirmed == row.enabled => doubts = {}

(***************************************************************************)
(* A delayed response does not overwrite a newer snapshot, even when two   *)
(* syncs overlap after the lock was lost (account-quota.ts:7).             *)
(***************************************************************************)
SnapshotsAdvance == [][row'.snapshot >= row.snapshot]_vars

(***************************************************************************)
(* The status, once there is one, was obtained with the cookie of the      *)
(* credential the account has now, whatever runs with an older one answer  *)
(* late: but for a credential whose cookie attachIdentity has overwritten  *)
(* (CookieIsCredential), which later runs and their statuses take over.    *)
(***************************************************************************)
StatusIsCurrent ==
  row.status # "pending" => judged = row.fingerprint \/ row.fingerprint \in strays

(***************************************************************************)
(* tests/accounts-quota.integration.test.ts:105: "does not apply a stale   *)
(* credential refresh after credential replacement": the stored cookie is  *)
(* the one the stored fingerprint is of.                                   *)
(***************************************************************************)
CookieIsCredential == row.cookie = row.fingerprint
=============================================================================
