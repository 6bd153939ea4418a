----------------------------- MODULE StateFiles -----------------------------
(***************************************************************************)
(* A per-session state file of the hooks, its advisory lock file, and the  *)
(* prune that hooks of other sessions run on the same folder               *)
(* (src/src/hook_run/session_state.rs, with the update of session_ledger,  *)
(* idempotency, read_once, repeat_detect and stop_dedupe).                 *)
(*                                                                         *)
(* The lock is taken on an open file, so it belongs to an inode: a lock    *)
(* file that is removed while open lets the next hook lock a new inode.    *)
(* The state is the set of hooks whose update it holds.                    *)
(***************************************************************************)
EXTENDS Integers, FiniteSets

CONSTANTS Strict,    \* hooks that skip their update when the lock is not taken
          Lenient,   \* hooks that go on without the lock
          MaxAgings  \* how often more than STALE_DAYS pass

Hooks == Strict \cup Lenient

ASSUME StateFilesAssumption == MaxAgings \in Nat /\ Strict \cap Lenient = {}

\* Every hook makes at most one lock file, and one may be there from before.
Inodes == 0 .. Cardinality(Hooks)
NoInode == -1
NoHook == "none"
NoJson == {NoHook}

VARIABLES lockPath,  \* the inode that <key>.lock names
          lockOld,   \* inodes whose age is past STALE_DAYS
          lockOwner, \* inode -> the hook that holds its lock
          json,      \* the state, or absent
          jsonOld,   \* whether the state file is past STALE_DAYS
          hook,      \* hook -> where it stands, its inode and what it read
          sweep,     \* the prune of another session's hook
          agings,    \* how often the files got old
          wiped,     \* history: updates that a reset or a prune removed
          raced      \* history: an update without the lock, or a file removed while in use

stateVars == <<lockPath, lockOld, lockOwner, json, jsonOld, hook, sweep, agings, wiped, raced>>

HookSteps == {"idle", "opened", "locked", "reading", "writing", "done", "skipped"}

StateTypeOK ==
  /\ lockPath \in Inodes \cup {NoInode}
  /\ lockOld \subseteq Inodes
  /\ lockOwner \in [Inodes -> Hooks \cup {NoHook}]
  /\ json = NoJson \/ json \subseteq Hooks
  /\ jsonOld \in BOOLEAN
  /\ hook \in [Hooks -> [at : HookSteps, ino : Inodes \cup {NoInode}, read : SUBSET Hooks]]
  /\ sweep \in [at : {"idle", "jsonAged", "aged", "absent"}, sawHeld : BOOLEAN]
  /\ agings \in 0 .. MaxAgings
  /\ wiped \subseteq Hooks
  /\ raced \in BOOLEAN

StateInit ==
  /\ lockPath \in {NoInode, 0}
  /\ lockOld \in SUBSET {0}
  /\ lockOwner = [i \in Inodes |-> NoHook]
  /\ json = NoJson
  /\ jsonOld = FALSE
  /\ hook = [h \in Hooks |-> [at |-> "idle", ino |-> NoInode, read |-> {}]]
  /\ sweep = [at |-> "idle", sawHeld |-> FALSE]
  /\ agings = 0
  /\ wiped = {}
  /\ raced = FALSE

-----------------------------------------------------------------------------
(* lock_state_file_timed and the update under it.                          *)

FreshInode(i) == i # 0 /\ i # lockPath /\ \A h \in Hooks : hook[h].ino # i

\* The lock file is opened, and created when it is not there.
OpenLock(h) ==
  /\ hook[h].at = "idle"
  /\ IF lockPath # NoInode
     THEN /\ hook' = [hook EXCEPT ![h].at = "opened", ![h].ino = lockPath]
          /\ UNCHANGED <<lockPath, lockOld>>
     ELSE \E i \in Inodes :
            /\ FreshInode(i) /\ \A j \in Inodes : FreshInode(j) => i <= j
            /\ lockPath' = i
            /\ lockOld' = lockOld \ {i}
            /\ hook' = [hook EXCEPT ![h].at = "opened", ![h].ino = i]
  /\ UNCHANGED <<lockOwner, json, jsonOld, sweep, agings, wiped, raced>>

\* Mutant: a lock that another hook holds is no obstacle.
TryLockShared(h) ==
  /\ hook[h].at = "opened"
  /\ lockOwner' = [lockOwner EXCEPT ![hook[h].ino] = h]
  /\ hook' = [hook EXCEPT ![h].at = "locked"]
  /\ UNCHANGED <<lockPath, lockOld, json, jsonOld, sweep, agings, wiped, raced>>

\* try_lock succeeds.
TryLock(h) ==
  /\ hook[h].at = "opened"
  /\ lockOwner[hook[h].ino] = NoHook
  /\ lockOwner' = [lockOwner EXCEPT ![hook[h].ino] = h]
  /\ hook' = [hook EXCEPT ![h].at = "locked"]
  /\ UNCHANGED <<lockPath, lockOld, json, jsonOld, sweep, agings, wiped, raced>>

\* refresh_lock_age: the held lock gets the age of now.
RefreshAge(h) ==
  /\ hook[h].at = "locked"
  /\ lockOld' = lockOld \ {hook[h].ino}
  /\ hook' = [hook EXCEPT ![h].at = "reading"]
  /\ UNCHANGED <<lockPath, lockOwner, json, jsonOld, sweep, agings, wiped, raced>>

Released(h) == [i \in Inodes |-> IF lockOwner[i] = h THEN NoHook ELSE lockOwner[i]]

\* The lock file cannot be opened, stays held by another hook for LOCK_ATTEMPTS
\* polls, or its age cannot be refreshed: the update is skipped, or goes on
\* without the lock.
GiveUpLock(h) ==
  /\ \/ hook[h].at \in {"idle", "locked"}
     \/ hook[h].at = "opened" /\ lockOwner[hook[h].ino] # NoHook
  /\ hook' = [hook EXCEPT ![h].at = IF h \in Strict THEN "skipped" ELSE "reading",
                          ![h].ino = NoInode]
  /\ lockOwner' = Released(h)
  /\ raced' = (raced \/ h \in Lenient)
  /\ UNCHANGED <<lockPath, lockOld, json, jsonOld, sweep, agings, wiped>>

\* The state is read; an absent file is an empty state.
ReadState(h) ==
  /\ hook[h].at = "reading"
  /\ hook' = [hook EXCEPT ![h].at = "writing", ![h].read = IF json = NoJson THEN {} ELSE json]
  /\ UNCHANGED <<lockPath, lockOld, lockOwner, json, jsonOld, sweep, agings, wiped, raced>>

\* The state is written in one step (atomic rename), and the lock is released.
WriteState(h) ==
  /\ hook[h].at = "writing"
  /\ json' = hook[h].read \cup {h}
  /\ jsonOld' = FALSE
  /\ wiped' = wiped \ (hook[h].read \cup {h})
  /\ lockOwner' = Released(h)
  /\ hook' = [hook EXCEPT ![h].at = "done", ![h].ino = NoInode]
  /\ UNCHANGED <<lockPath, lockOld, sweep, agings, raced>>

\* The hook is killed, or its read or save fails: no update, and no lock.
FailHook(h) ==
  /\ hook[h].at \in {"opened", "locked", "reading", "writing"}
  /\ hook' = [hook EXCEPT ![h].at = "skipped", ![h].ino = NoInode]
  /\ lockOwner' = Released(h)
  /\ UNCHANGED <<lockPath, lockOld, json, jsonOld, sweep, agings, wiped, raced>>

\* reset_read_state and stop_dedupe::forget remove the state without the lock.
ResetState ==
  /\ json # NoJson
  /\ wiped' = wiped \cup json
  /\ json' = NoJson
  /\ jsonOld' = FALSE
  /\ UNCHANGED <<lockPath, lockOld, lockOwner, hook, sweep, agings, raced>>

-----------------------------------------------------------------------------
(* prune_stale_json_files and prune_orphan_locks of another session.       *)

\* The age of the state file is read, and then the file is removed by its name,
\* even when a hook wrote it again in between.
PruneAgeJson ==
  /\ sweep.at = "idle"
  /\ json # NoJson /\ jsonOld
  /\ sweep' = [sweep EXCEPT !.at = "jsonAged"]
  /\ UNCHANGED <<lockPath, lockOld, lockOwner, json, jsonOld, hook, agings, wiped, raced>>

PruneJson ==
  /\ sweep.at = "jsonAged"
  /\ sweep' = [sweep EXCEPT !.at = "idle"]
  /\ json' = NoJson
  /\ jsonOld' = FALSE
  /\ IF jsonOld THEN wiped' = wiped \cup json /\ UNCHANGED raced
                ELSE raced' = (raced \/ json # NoJson) /\ UNCHANGED wiped
  /\ UNCHANGED <<lockPath, lockOld, lockOwner, hook, agings>>

\* A lock is in use once its holder has refreshed its age.
InUse(i) == \E h \in Hooks : hook[h].ino = i /\ hook[h].at \in {"reading", "writing"}

\* The age of the lock file is read.
SweepAge ==
  /\ sweep.at = "idle"
  /\ lockPath \in lockOld
  /\ sweep' = [at |-> "aged", sawHeld |-> InUse(lockPath)]
  /\ UNCHANGED <<lockPath, lockOld, lockOwner, json, jsonOld, hook, agings, wiped, raced>>

\* json_entry_is_absent: a lock with a state file is kept.
SweepJson ==
  /\ sweep.at = "aged"
  /\ sweep' = [sweep EXCEPT !.at = IF json = NoJson THEN "absent" ELSE "idle"]
  /\ UNCHANGED <<lockPath, lockOld, lockOwner, json, jsonOld, hook, agings, wiped, raced>>

\* The lock file is removed by its name, whatever inode has it by now.
SweepRemove ==
  /\ sweep.at = "absent"
  /\ lockPath' = NoInode
  /\ raced' = (raced \/ \E h \in Hooks : hook[h].ino = lockPath /\ lockPath # NoInode)
  /\ sweep' = [at |-> "idle", sawHeld |-> FALSE]
  /\ UNCHANGED <<lockOld, lockOwner, json, jsonOld, hook, agings, wiped>>

\* More than STALE_DAYS pass, with no hook running.
Age ==
  /\ agings < MaxAgings
  /\ \A h \in Hooks : hook[h].at \in {"idle", "done", "skipped"}
  /\ sweep.at = "idle"
  /\ agings' = agings + 1
  /\ lockOld' = Inodes
  /\ jsonOld' = (json # NoJson)
  /\ UNCHANGED <<lockPath, lockOwner, json, hook, sweep, wiped, raced>>

StateNext ==
  \/ \E h \in Hooks : \/ OpenLock(h) \/ TryLock(h) \/ RefreshAge(h) \/ GiveUpLock(h)
                      \/ ReadState(h) \/ WriteState(h) \/ FailHook(h)
  \/ ResetState \/ PruneAgeJson \/ PruneJson \/ SweepAge \/ SweepJson \/ SweepRemove \/ Age

StateSpec == StateInit /\ [][StateNext]_stateVars

-----------------------------------------------------------------------------
\* An update that was saved stays in the state until a reset or a prune of the
\* old file removes it, unless a hook ran without the lock, or a prune removed a
\* file that got young after its age was read.
SavedStaysSaved ==
  raced \/ \A h \in Hooks : hook[h].at = "done" => h \in wiped \/ (json # NoJson /\ h \in json)

\* prune_orphan_locks: "removing that lock would let a second writer lock a new
\* file and lose an update, so only old locks go" (session_state.rs): a lock
\* that was in use when its age was read is never removed.
UsedLockIsKept == sweep.at # "idle" => ~sweep.sawHeld

\* The lock keeps the updates: none is lost, and the prune leaves a lock in use alone.
UpdatesKept == SavedStaysSaved /\ UsedLockIsKept
=============================================================================
