-------------------------- MODULE CommitGateProofs --------------------------
(***************************************************************************)
(* The deny marker of the commit gate survives every interleaving of the   *)
(* hooks that take the lock, for any number of hooks and edits. The        *)
(* strengthening says who holds the lock, and that its holder's copy of    *)
(* the state file is the state file.                                       *)
(***************************************************************************)
EXTENDS CommitGate, TLAPS

\* A hook that may save holds the lock from its read to its save.
SaverHolds ==
  \A h \in GateHooks :
    gateHook[h].at \in {"reads", "saves"} /\ (h \in Commits \/ gateHook[h].maySave)
      => gateLock = h

\* What the holder read is still what the file holds.
HolderIsCurrent ==
  \A h \in GateHooks : gateHook[h].at = "saves" /\ gateLock = h => gateHook[h].mem = nudges

GateInv ==
  /\ GateTypeOK
  /\ loose \/ (SaverHolds /\ HolderIsCurrent)
  /\ MarkerMatchesDeny

\* The count of an edit leaves the deny marker alone, and stays a state.
LEMMA CountedKeepsMarker ==
  ASSUME NEW saw \in Trackings, NEW s \in States
  PROVE  Counted(saw, s) \in States /\ Counted(saw, s).denied = s.denied
<1>1. CASE saw = "untracked"
  <2> DEFINE calls == IF s.calls < MaxEdits THEN s.calls + 1 ELSE MaxEdits
             nudgedAt == IF NudgeIsDue(calls, s.nudgedAt) THEN calls ELSE s.nudgedAt
  <2>1. calls \in 0 .. MaxEdits /\ nudgedAt \in 0 .. MaxEdits
    BY CommitGateAssumption DEF States
  <2>2. Counted(saw, s) = [s EXCEPT !.calls = calls, !.nudgedAt = nudgedAt]
    BY <1>1 DEF Counted
  <2> QED
    BY <2>1, <2>2 DEF States
<1>2. CASE saw \in {"wip", "queued"}
  <2>1. Counted(saw, s) = [s EXCEPT !.calls = 0, !.nudgedAt = 0]
    BY <1>2 DEF Counted
  <2>2. 0 \in 0 .. MaxEdits
    BY CommitGateAssumption
  <2> QED
    BY <2>1, <2>2 DEF States
<1>3. CASE saw = "unknown"
  BY <1>3 DEF Counted
<1> QED
  BY <1>1, <1>2, <1>3 DEF Trackings

LEMMA HookAtType ==
  ASSUME NEW step \in GateSteps
  PROVE  HookAt(step) \in [at : GateSteps, saw : Trackings, mem : States, maySave : BOOLEAN]
BY CommitGateAssumption DEF HookAt, FreshState, States, Trackings

\* Every step keeps the types.
LEMMA GateTypes ==
  ASSUME GateTypeOK, [GateNext]_gateVars
  PROVE  GateTypeOK'
<1> USE DEF GateTypeOK
<1>1. ASSUME NEW c \in Commits, \/ AskCommit(c) \/ CommitUnlocked(c) \/ LockCommit(c)
                                \/ ReadCommit(c) \/ NextCommit(c)
      PROVE  GateTypeOK'
  <2>1. CASE AskCommit(c)
    BY <2>1 DEF AskCommit, GateSteps
  <2>2. CASE CommitUnlocked(c) \/ NextCommit(c)
    BY <2>2, HookAtType DEF CommitUnlocked, NextCommit, GateSteps
  <2>3. CASE LockCommit(c)
    BY <2>3 DEF LockCommit, GateHooks, GateSteps
  <2>4. CASE ReadCommit(c)
    BY <2>4 DEF ReadCommit, GateSteps
  <2> QED
    BY <1>1, <2>1, <2>2, <2>3, <2>4
<1>2. ASSUME NEW c \in Commits, \/ TrackedCommit(c) \/ RetriedCommit(c)
                                \/ DenyCommit(c) \/ RefuseCommit(c)
      PROVE  GateTypeOK'
  <2>1. gateHook[c].mem \in States /\ c \in GateHooks
    BY <1>2 DEF GateHooks
  <2>2. nudges' \in States /\ owed' \in BOOLEAN /\ UNCHANGED <<tracking, dirThere, loose>>
    BY <1>2, <2>1 DEF TrackedCommit, RetriedCommit, DenyCommit, RefuseCommit, States
  <2>3. \E v \in GateSteps : EndCommit(c, v)
    BY <1>2 DEF TrackedCommit, RetriedCommit, DenyCommit, RefuseCommit, GateSteps
  <2> QED
    BY <2>1, <2>2, <2>3, HookAtType DEF EndCommit, FreeLock
<1>3. ASSUME NEW e \in Edits, StartEdit(e) \/ LockEdit(e) \/ EditUnlocked(e) \/ ReadEdit(e)
      PROVE  GateTypeOK'
  BY <1>3 DEF StartEdit, LockEdit, EditUnlocked, ReadEdit, GateHooks, GateSteps
<1>4. ASSUME NEW e \in Edits, SaveEdit(e) PROVE GateTypeOK'
  <2>1. e \in GateHooks /\ Counted(gateHook[e].saw, gateHook[e].mem) \in States
    BY <1>4, CountedKeepsMarker DEF GateHooks
  <2> QED
    BY <1>4, <2>1, HookAtType DEF SaveEdit, FreeLock, GateSteps
<1>5. CASE ChangeTracking
  BY <1>5 DEF ChangeTracking
<1>6. CASE UNCHANGED gateVars
  BY <1>6 DEF gateVars
<1> QED
  BY <1>1, <1>2, <1>3, <1>4, <1>5, <1>6 DEF GateNext

\* Every step keeps the marker equal to the deny in force.
LEMMA GateStep ==
  ASSUME GateInv, [GateNext]_gateVars
  PROVE  GateInv'
<1>0. GateTypeOK /\ GateTypeOK'
  BY GateTypes DEF GateInv
<1> USE DEF GateInv
<1>1. ASSUME NEW c \in Commits, \/ AskCommit(c) \/ CommitUnlocked(c) \/ LockCommit(c)
                                \/ ReadCommit(c) \/ NextCommit(c)
      PROVE  GateInv'
  BY <1>0, <1>1, CommitGateAssumption
     DEF AskCommit, CommitUnlocked, LockCommit, ReadCommit, NextCommit, HookAt, GateTypeOK,
         GateHooks, SaverHolds, HolderIsCurrent, MarkerMatchesDeny
<1>2. ASSUME NEW c \in Commits, \/ TrackedCommit(c) \/ RetriedCommit(c)
                                \/ DenyCommit(c) \/ RefuseCommit(c)
      PROVE  GateInv'
  <2> SUFFICES ASSUME ~loose
               PROVE  SaverHolds' /\ HolderIsCurrent' /\ MarkerMatchesDeny'
    BY <1>0, <1>2 DEF TrackedCommit, RetriedCommit, DenyCommit, RefuseCommit, MarkerMatchesDeny
  <2>1. c \in GateHooks /\ gateLock = c /\ (gateHook[c].at = "saves" => gateHook[c].mem = nudges)
    BY <1>2 DEF TrackedCommit, RetriedCommit, DenyCommit, RefuseCommit, SaverHolds, HolderIsCurrent, GateHooks
  <2>2. PICK v \in {"passed", "denied"} : EndCommit(c, v)
    BY <1>2 DEF TrackedCommit, RetriedCommit, DenyCommit, RefuseCommit
  <2>3. \A h \in GateHooks \ {c} : gateHook'[h] = gateHook[h]
    BY <1>0, <2>1, <2>2 DEF EndCommit, GateTypeOK
  <2>4. gateHook'[c].at \in {"passed", "denied"} /\ gateLock' = NobodyHolds
    BY <1>0, <2>1, <2>2 DEF EndCommit, FreeLock, HookAt, GateTypeOK
  <2>5. SaverHolds' /\ HolderIsCurrent'
    BY <2>1, <2>3, <2>4, CommitGateAssumption DEF SaverHolds, HolderIsCurrent
  <2>6. MarkerMatchesDeny'
    BY <1>0, <1>2, <2>1 DEF TrackedCommit, RetriedCommit, DenyCommit, RefuseCommit, MarkerMatchesDeny, GateTypeOK, States
  <2> QED
    BY <2>5, <2>6
<1>3. ASSUME NEW e \in Edits, StartEdit(e) \/ LockEdit(e) \/ EditUnlocked(e) \/ ReadEdit(e)
      PROVE  GateInv'
  BY <1>0, <1>3, CommitGateAssumption
     DEF StartEdit, LockEdit, EditUnlocked, ReadEdit, GateTypeOK, GateHooks,
         SaverHolds, HolderIsCurrent, MarkerMatchesDeny
<1>4. ASSUME NEW e \in Edits, SaveEdit(e) PROVE GateInv'
  <2> SUFFICES ASSUME ~loose
               PROVE  SaverHolds' /\ HolderIsCurrent' /\ MarkerMatchesDeny'
    BY <1>0, <1>4 DEF SaveEdit, MarkerMatchesDeny
  <2>1. e \in GateHooks /\ gateHook[e].saw \in Trackings /\ gateHook[e].mem \in States
    BY <1>0 DEF GateHooks, GateTypeOK
  <2>2. \/ UNCHANGED nudges
        \/ /\ gateLock = e /\ nudges' = Counted(gateHook[e].saw, nudges)
    BY <1>4, <2>1 DEF SaveEdit, SaverHolds, HolderIsCurrent
  <2>3. \A h \in GateHooks \ {e} : gateHook'[h] = gateHook[h]
    BY <1>0, <1>4, <2>1 DEF SaveEdit, GateTypeOK
  <2>4. gateHook'[e].at = "idle"
    BY <1>0, <1>4, <2>1 DEF SaveEdit, GateTypeOK, HookAt
  <2>5. SaverHolds' /\ HolderIsCurrent'
    BY <1>4, <2>1, <2>2, <2>3, <2>4, CommitGateAssumption DEF SaveEdit, FreeLock, SaverHolds, HolderIsCurrent
  <2>6. MarkerMatchesDeny'
    BY <1>0, <1>4, <2>1, <2>2, CountedKeepsMarker DEF SaveEdit, MarkerMatchesDeny, GateTypeOK
  <2> QED
    BY <2>5, <2>6
<1>5. CASE ChangeTracking
  BY <1>0, <1>5 DEF ChangeTracking, SaverHolds, HolderIsCurrent, MarkerMatchesDeny
<1>6. CASE UNCHANGED gateVars
  BY <1>0, <1>6 DEF gateVars, SaverHolds, HolderIsCurrent, MarkerMatchesDeny
<1> QED
  BY <1>1, <1>2, <1>3, <1>4, <1>5, <1>6 DEF GateNext

\* The strengthened invariant holds in every state of the gate.
THEOREM GateInvariance == GateSpec => []GateInv
<1>1. GateInit => GateInv
  <2> SUFFICES ASSUME GateInit PROVE GateInv
    OBVIOUS
  <2>1. GateTypeOK
    <3>1. nudges \in States
      BY CommitGateAssumption DEF GateInit, FreshState, States
    <3>2. "idle" \in GateSteps
      BY DEF GateSteps
    <3> QED
      BY <3>1, <3>2, HookAtType DEF GateInit, GateTypeOK
  <2>2. SaverHolds /\ HolderIsCurrent
    BY DEF GateInit, SaverHolds, HolderIsCurrent, HookAt
  <2>3. MarkerMatchesDeny
    BY DEF GateInit, MarkerMatchesDeny, FreshState
  <2> QED
    BY <2>1, <2>2, <2>3 DEF GateInv
<1>2. GateInv /\ [GateNext]_gateVars => GateInv'
  BY GateStep
<1> QED
  BY <1>1, <1>2, PTL DEF GateSpec

\* No save of a hook under the lock loses the deny marker, or brings one back.
THEOREM MarkerAlwaysMatches == GateSpec => []MarkerMatchesDeny
<1>1. GateInv => MarkerMatchesDeny
  BY DEF GateInv
<1> QED
  BY <1>1, GateInvariance, PTL

\* The gate follows its denies, for any number of hooks and any nudge settings.
THEOREM GateAlwaysFollows == GateSpec => GateFollowsDeny
<1>1. GateInv /\ [GateNext]_gateVars => [PassNeedsDeny]_gateVars
  <2> SUFFICES ASSUME GateInv, GateNext, ~loose, NEW c \in Commits,
                      gateHook[c].at # "passed", gateHook'[c].at = "passed"
               PROVE  gateHook[c].saw = "wip" \/ owed
    BY DEF PassNeedsDeny
  <2>0. GateTypeOK /\ c \in GateHooks
    BY DEF GateInv, GateHooks
  <2>1. ASSUME NEW d \in Commits, \/ AskCommit(d) \/ CommitUnlocked(d) \/ LockCommit(d)
                                  \/ ReadCommit(d) \/ NextCommit(d)
        PROVE  FALSE
    BY <2>0, <2>1 DEF AskCommit, CommitUnlocked, LockCommit, ReadCommit, NextCommit, HookAt, GateTypeOK
  <2>2. ASSUME NEW d \in Commits, DenyCommit(d) \/ RefuseCommit(d) PROVE FALSE
    BY <2>0, <2>2 DEF DenyCommit, RefuseCommit, EndCommit, HookAt, GateTypeOK
  <2>3. ASSUME NEW d \in Commits, TrackedCommit(d) \/ RetriedCommit(d)
        PROVE  gateHook[c].saw = "wip" \/ owed
    <3>1. c = d
      BY <2>0, <2>3 DEF TrackedCommit, RetriedCommit, EndCommit, HookAt, GateTypeOK
    <3>2. RetriedCommit(c) => owed
      BY <2>0 DEF RetriedCommit, GateInv, SaverHolds, HolderIsCurrent, MarkerMatchesDeny
    <3> QED
      BY <2>3, <3>1, <3>2 DEF TrackedCommit
  <2>4. ASSUME NEW e \in Edits, StartEdit(e) \/ LockEdit(e) \/ EditUnlocked(e) \/ ReadEdit(e) \/ SaveEdit(e)
        PROVE  FALSE
    <3>1. e # c
      BY CommitGateAssumption
    <3> QED
      BY <2>0, <2>4, <3>1 DEF StartEdit, LockEdit, EditUnlocked, ReadEdit, SaveEdit, GateTypeOK
  <2>5. CASE ChangeTracking
    BY <2>5 DEF ChangeTracking
  <2> QED
    BY <2>1, <2>2, <2>3, <2>4, <2>5 DEF GateNext
<1>2. GateInv /\ GateInv' /\ [GateNext]_gateVars => [MarkerMatchesDeny' /\ PassNeedsDeny]_gateVars
  BY <1>1 DEF GateInv
<1> QED
  BY <1>2, GateInvariance, PTL DEF GateSpec, GateFollowsDeny
=============================================================================
