----------------------------- MODULE CommitGate -----------------------------
(***************************************************************************)
(* The commit gate and the edit nudge of the task tracker, which keep one  *)
(* state file per session (src/src/hook_run/task_nudge.rs, .../state.rs).  *)
(* Tool calls of one session run in parallel, and so do their hooks: the   *)
(* PreToolUse hook of a commit and the PostToolUse hook of an edit read,   *)
(* change and save the same file.                                          *)
(***************************************************************************)
EXTENDS Integers, FiniteSets

CONSTANTS Commits,   \* PreToolUse hooks of a commit or a pull request
          Edits,     \* PostToolUse hooks of an edit
          NudgeAfter, NudgeEvery, \* edits before the first and the later nudges
          MaxEdits   \* bound on the edits that one session counts

GateHooks == Commits \cup Edits
NobodyHolds == "nobody"

ASSUME CommitGateAssumption ==
  /\ Commits \cap Edits = {} /\ NobodyHolds \notin GateHooks
  /\ NudgeAfter \in Nat /\ NudgeEvery \in Nat /\ MaxEdits \in Nat

FreshState == [denied |-> FALSE, calls |-> 0, nudgedAt |-> 0]
HookAt(step) == [at |-> step, saw |-> "unknown", mem |-> FreshState, maySave |-> FALSE]

VARIABLES tracking,  \* what the task store says of the project
          dirThere,  \* the folder of the state files exists
          nudges,    \* the state file; an absent file is the fresh state
          gateLock,  \* the hook that holds the lock of the state file
          gateHook,  \* hook -> where it stands, and what it read
          owed,      \* history: a saved deny that no tracked commit has cleared
          loose      \* history: an edit went on without the lock

gateVars == <<tracking, dirThere, nudges, gateLock, gateHook, owed, loose>>

Trackings == {"untracked", "queued", "wip", "unknown"}
States == [denied : BOOLEAN, calls : 0 .. MaxEdits, nudgedAt : 0 .. MaxEdits]
GateSteps == {"idle", "waits", "reads", "saves", "passed", "denied"}

GateTypeOK ==
  /\ tracking \in Trackings
  /\ dirThere \in BOOLEAN
  /\ nudges \in States
  /\ gateLock \in GateHooks \cup {NobodyHolds}
  /\ gateHook \in [GateHooks -> [at : GateSteps, saw : Trackings, mem : States, maySave : BOOLEAN]]
  /\ owed \in BOOLEAN /\ loose \in BOOLEAN

GateInit ==
  /\ tracking \in Trackings
  /\ dirThere = FALSE
  /\ nudges = FreshState
  /\ gateLock = NobodyHolds
  /\ gateHook = [h \in GateHooks |-> HookAt("idle")]
  /\ owed = FALSE /\ loose = FALSE

FreeLock(h) == IF gateLock = h THEN NobodyHolds ELSE gateLock

-----------------------------------------------------------------------------
(* The PreToolUse hook of a commit.                                        *)

\* The lock is waited for; taking it creates the folder.
AskCommit(c) ==
  /\ gateHook[c].at = "idle"
  /\ gateHook' = [gateHook EXCEPT ![c].at = "waits"]
  /\ UNCHANGED <<tracking, dirThere, nudges, gateLock, owed, loose>>

\* Without the lock the commit is denied.
CommitUnlocked(c) ==
  /\ gateHook[c].at = "waits"
  /\ gateLock # NobodyHolds
  /\ gateHook' = [gateHook EXCEPT ![c] = HookAt("denied")]
  /\ UNCHANGED <<tracking, dirThere, nudges, gateLock, owed, loose>>

\* With it, the task store and then the state file are read.
LockCommit(c) ==
  /\ gateHook[c].at = "waits"
  /\ gateLock = NobodyHolds
  /\ gateLock' = c
  /\ dirThere' = TRUE
  /\ gateHook' = [gateHook EXCEPT ![c].at = "reads", ![c].saw = tracking]
  /\ UNCHANGED <<tracking, nudges, owed, loose>>

ReadCommit(c) ==
  /\ gateHook[c].at = "reads"
  /\ gateHook' = [gateHook EXCEPT ![c].at = "saves", ![c].mem = nudges]
  /\ UNCHANGED <<tracking, dirThere, nudges, gateLock, owed, loose>>

EndCommit(c, verdict) ==
  /\ gateHook' = [gateHook EXCEPT ![c] = HookAt(verdict)]
  /\ gateLock' = FreeLock(c)

\* A task in progress lets the commit through, and clears the marker first.
TrackedCommit(c) ==
  /\ gateHook[c].at = "saves" /\ gateHook[c].saw = "wip"
  /\ IF gateHook[c].mem.denied
     THEN /\ nudges' = [gateHook[c].mem EXCEPT !.denied = FALSE]
          /\ owed' = FALSE
     ELSE UNCHANGED <<nudges, owed>>
  /\ EndCommit(c, "passed")
  /\ UNCHANGED <<tracking, dirThere, loose>>

\* The retry of a denied commit passes.
RetriedCommit(c) ==
  /\ gateHook[c].at = "saves" /\ gateHook[c].saw \in {"untracked", "queued"}
  /\ gateHook[c].mem.denied
  /\ EndCommit(c, "passed")
  /\ UNCHANGED <<tracking, dirThere, nudges, owed, loose>>

\* The first commit without a task in progress is denied, and marked.
DenyCommit(c) ==
  /\ gateHook[c].at = "saves" /\ gateHook[c].saw \in {"untracked", "queued"}
  /\ ~gateHook[c].mem.denied
  /\ nudges' = [gateHook[c].mem EXCEPT !.denied = TRUE]
  /\ owed' = TRUE
  /\ EndCommit(c, "denied")
  /\ UNCHANGED <<tracking, dirThere, loose>>

\* A task store or a state file that cannot be read, and a state that cannot be
\* saved, deny the commit and change nothing.
RefuseCommit(c) ==
  /\ \/ gateHook[c].at = "reads"
     \/ gateHook[c].at = "saves" /\ (gateHook[c].saw \in {"wip", "unknown"} \/ ~gateHook[c].mem.denied)
  /\ EndCommit(c, "denied")
  /\ UNCHANGED <<tracking, dirThere, nudges, owed, loose>>

-----------------------------------------------------------------------------
(* The PostToolUse hook of an edit.                                        *)

\* The task store is read. Without a folder there is no lock to take.
StartEdit(e) ==
  /\ gateHook[e].at = "idle"
  /\ gateHook' = [gateHook EXCEPT ![e].at = IF dirThere THEN "waits" ELSE "reads",
                                  ![e].saw = tracking, ![e].maySave = TRUE]
  /\ loose' = (loose \/ ~dirThere)
  /\ UNCHANGED <<tracking, dirThere, nudges, gateLock, owed>>

LockEdit(e) ==
  /\ gateHook[e].at = "waits"
  /\ gateLock = NobodyHolds
  /\ gateLock' = e
  /\ gateHook' = [gateHook EXCEPT ![e].at = "reads"]
  /\ UNCHANGED <<tracking, dirThere, nudges, owed, loose>>

\* Mutant: without the lock the hook still saves.
EditUnlockedSaves(e) ==
  /\ gateHook[e].at = "waits"
  /\ gateLock # NobodyHolds
  /\ gateHook' = [gateHook EXCEPT ![e].at = "reads"]
  /\ UNCHANGED <<tracking, dirThere, nudges, gateLock, owed, loose>>

\* A lock that stays busy lets the nudge show, but not save.
EditUnlocked(e) ==
  /\ gateHook[e].at = "waits"
  /\ gateLock # NobodyHolds
  /\ gateHook' = [gateHook EXCEPT ![e].at = "reads", ![e].maySave = FALSE]
  /\ UNCHANGED <<tracking, dirThere, nudges, gateLock, owed, loose>>

ReadEdit(e) ==
  /\ gateHook[e].at = "reads"
  /\ gateHook' = [gateHook EXCEPT ![e].at = "saves", ![e].mem = nudges]
  /\ UNCHANGED <<tracking, dirThere, nudges, gateLock, owed, loose>>

NudgeIsDue(calls, nudgedAt) ==
  IF nudgedAt = 0 THEN calls >= NudgeAfter ELSE calls - nudgedAt >= NudgeEvery

\* work_nudge counts an untracked edit; settle restarts the count otherwise.
Counted(saw, s) ==
  CASE saw = "untracked" ->
         LET calls == IF s.calls < MaxEdits THEN s.calls + 1 ELSE MaxEdits
         IN [s EXCEPT !.calls = calls,
                      !.nudgedAt = IF NudgeIsDue(calls, s.nudgedAt) THEN calls ELSE @]
    [] saw \in {"wip", "queued"} -> [s EXCEPT !.calls = 0, !.nudgedAt = 0]
    [] OTHER -> s

\* The changed state is saved when the hook may save and the write succeeds.
SaveEdit(e) ==
  /\ gateHook[e].at = "saves"
  /\ LET next == Counted(gateHook[e].saw, gateHook[e].mem)
     IN \/ /\ next # gateHook[e].mem /\ gateHook[e].maySave
           /\ nudges' = next
           /\ dirThere' = TRUE
        \/ UNCHANGED <<nudges, dirThere>>
  /\ gateHook' = [gateHook EXCEPT ![e] = HookAt("idle")]
  /\ gateLock' = FreeLock(e)
  /\ UNCHANGED <<tracking, owed, loose>>

-----------------------------------------------------------------------------
\* The agent tries a commit again.
NextCommit(c) ==
  /\ gateHook[c].at \in {"passed", "denied"}
  /\ gateHook' = [gateHook EXCEPT ![c] = HookAt("idle")]
  /\ UNCHANGED <<tracking, dirThere, nudges, gateLock, owed, loose>>

\* The agent or another session changes the tasks.
ChangeTracking ==
  /\ tracking' \in Trackings \ {tracking}
  /\ UNCHANGED <<dirThere, nudges, gateLock, gateHook, owed, loose>>

GateNext ==
  \/ \E c \in Commits : \/ AskCommit(c) \/ CommitUnlocked(c) \/ LockCommit(c) \/ ReadCommit(c)
                        \/ TrackedCommit(c) \/ RetriedCommit(c) \/ DenyCommit(c) \/ RefuseCommit(c)
                        \/ NextCommit(c)
  \/ \E e \in Edits : StartEdit(e) \/ LockEdit(e) \/ EditUnlocked(e) \/ ReadEdit(e) \/ SaveEdit(e)
  \/ ChangeTracking

GateSpec == GateInit /\ [][GateNext]_gateVars

-----------------------------------------------------------------------------

\* "Held from the load to the save, so a concurrent hook cannot overwrite a deny
\* marker" (task_nudge.rs): among the hooks that take the lock, the marker is
\* exactly the deny in force: no save loses it, and none brings back one that was
\* cleared.
MarkerMatchesDeny == loose \/ (nudges.denied <=> owed)

\* A commit without a task in progress passes only when an earlier one was
\* denied, and that deny is still in force when the commit passes.
PassNeedsDeny ==
  \A c \in Commits :
    gateHook[c].at # "passed" /\ gateHook'[c].at = "passed" =>
      gateHook[c].saw = "wip" \/ owed \/ loose

\* The gate follows its denies: the marker is the deny in force, and only that lets an
\* untracked commit pass.
GateFollowsDeny == [][MarkerMatchesDeny' /\ PassNeedsDeny]_gateVars
=============================================================================
