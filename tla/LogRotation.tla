----------------------------- MODULE LogRotation -----------------------------
(***************************************************************************)
(* The session log file: appends of concurrent hooks, the rotation at its  *)
(* size limit, the prune of old rotations and the reaper of the active     *)
(* file (src/src/session_log/file_sink.rs, rotation.rs, prune.rs,          *)
(* reaper.rs). Appends take no lock; a rotation and a prune hold the       *)
(* rotation lock; the reaper holds none.                                   *)
(*                                                                         *)
(* A file is an inode, numbered in order of creation; its length is the    *)
(* number of its lines.                                                    *)
(***************************************************************************)
EXTENDS Integers, FiniteSets

CONSTANTS Appenders,
          KeptRotations,  \* KEPT_ROTATIONS
          FullAt,         \* MAX_BYTES
          MaxFiles, MaxLines, MaxAgeings, MaxHalts

NobodyLocks == "nobody"
Pruner == "prune"

ASSUME RotationAssumption ==
  /\ {NobodyLocks, Pruner} \cap Appenders = {}
  /\ KeptRotations \in Nat \ {0} /\ FullAt \in Nat \ {0}
  /\ MaxFiles \in Nat /\ MaxLines \in Nat /\ MaxAgeings \in Nat /\ MaxHalts \in Nat

Files == 1 .. MaxFiles
NoLog == 0
Generations == 1 .. KeptRotations

VARIABLES active,      \* the file with the log's name
          rotated,     \* generation -> its file
          length,      \* file -> its lines
          aged,        \* files past the retention
          rotationOf,  \* file -> number of the rotation that moved it from the log's name
          rotations,   \* completed rotations
          lockBy,      \* holder of the rotation lock
          appender,    \* appender -> where it stands
          prune,       \* the prune: its step and the generations it judged old
          reaper,      \* whether the reaper judged the active file old
          nextFile, lines, ageings, halts,
          upset,       \* history: a rotation was cut off, or the reaper took a file in use
          lostEarly    \* history: lines were removed before their time

logVars == <<active, rotated, length, aged, rotationOf, rotations, lockBy, appender, prune, reaper,
             nextFile, lines, ageings, halts, upset, lostEarly>>

AppendIdle == [at |-> "idle", n |-> 0, file |-> NoLog]
AppendSteps == {"idle", "lock", "drop", "shift", "first", "open", "write"}
Rotating(a) == appender[a].at \in {"drop", "shift", "first"}

RotationTypeOK ==
  /\ active \in Files \cup {NoLog}
  /\ rotated \in [Generations -> Files \cup {NoLog}]
  /\ length \in [Files -> 0 .. MaxLines]
  /\ aged \subseteq Files
  /\ rotationOf \in [Files -> 0 .. MaxFiles]
  /\ lockBy \in Appenders \cup {NobodyLocks, Pruner}
  /\ appender \in [Appenders -> [at : AppendSteps, n : 0 .. KeptRotations, file : Files \cup {NoLog}]]
  /\ \A a \in Appenders : Rotating(a) => lockBy = a
  /\ prune \in [at : {"idle", "judged", "removing"}, old : SUBSET Generations]
  /\ {reaper, upset, lostEarly} \subseteq BOOLEAN

RotationInit ==
  /\ active = NoLog
  /\ rotated = [n \in Generations |-> NoLog]
  /\ length = [f \in Files |-> 0]
  /\ aged = {}
  /\ rotationOf = [f \in Files |-> 0]
  /\ rotations = 0
  /\ lockBy = NobodyLocks
  /\ appender = [a \in Appenders |-> AppendIdle]
  /\ prune = [at |-> "idle", old |-> {}]
  /\ reaper = FALSE
  /\ nextFile = 1 /\ lines = 0 /\ ageings = 0 /\ halts = 0
  /\ upset = FALSE /\ lostEarly = FALSE

IsFull(f) == f # NoLog /\ length[f] >= FullAt

-----------------------------------------------------------------------------
(* try_append, with rotate_if_full in it.                                  *)

StartAppend(a) ==
  /\ appender[a].at = "idle" /\ lines < MaxLines
  /\ appender' = [appender EXCEPT ![a].at = IF IsFull(active) THEN "lock" ELSE "open"]
  /\ UNCHANGED <<active, rotated, length, aged, rotationOf, rotations, lockBy, prune, reaper,
                 nextFile, lines, ageings, halts, upset, lostEarly>>

\* Mutant: the length is not read again.
LockRotationBlind(a) ==
  /\ appender[a].at = "lock" /\ lockBy = NobodyLocks
  /\ lockBy' = a
  /\ appender' = [appender EXCEPT ![a].at = "drop"]
  /\ UNCHANGED <<active, rotated, length, aged, rotationOf, rotations, prune, reaper,
                 nextFile, lines, ageings, halts, upset, lostEarly>>

\* The length is read again under the lock.
LockRotation(a) ==
  /\ appender[a].at = "lock" /\ lockBy = NobodyLocks
  /\ IF IsFull(active)
     THEN lockBy' = a /\ appender' = [appender EXCEPT ![a].at = "drop"]
     ELSE appender' = [appender EXCEPT ![a].at = "open"] /\ UNCHANGED lockBy
  /\ UNCHANGED <<active, rotated, length, aged, rotationOf, rotations, prune, reaper,
                 nextFile, lines, ageings, halts, upset, lostEarly>>

\* The lock stays busy: the line goes to the active file.
GiveUpRotation(a) ==
  /\ appender[a].at = "lock" /\ lockBy # NobodyLocks
  /\ appender' = [appender EXCEPT ![a].at = "open"]
  /\ UNCHANGED <<active, rotated, length, aged, rotationOf, rotations, lockBy, prune, reaper,
                 nextFile, lines, ageings, halts, upset, lostEarly>>

\* A file has had its time when KEPT_ROTATIONS rotations came after its own, with
\* the one in progress, or when it is past the retention.
HadItsTime(f) == f \in aged \/ rotations + 1 - rotationOf[f] >= KeptRotations
Lose(f) == lostEarly' = (lostEarly \/ (f # NoLog /\ length[f] > 0 /\ ~HadItsTime(f)))

DropOldest(a) ==
  /\ appender[a].at = "drop"
  /\ rotated' = [rotated EXCEPT ![KeptRotations] = NoLog]
  /\ Lose(rotated[KeptRotations])
  /\ appender' = [appender EXCEPT ![a].at = IF KeptRotations = 1 THEN "first" ELSE "shift",
                                  ![a].n = KeptRotations - 1]
  /\ UNCHANGED <<active, length, aged, rotationOf, rotations, lockBy, prune, reaper,
                 nextFile, lines, ageings, halts, upset>>

\* Mutant: the generation is copied and its old name stays.
ShiftUpCopies(a) ==
  LET n == appender[a].n IN
  /\ appender[a].at = "shift"
  /\ rotated' = IF rotated[n] = NoLog THEN rotated ELSE [rotated EXCEPT ![n + 1] = rotated[n]]
  /\ appender' = [appender EXCEPT ![a].at = IF n = 1 THEN "first" ELSE "shift", ![a].n = n - 1]
  /\ UNCHANGED <<active, length, aged, rotationOf, rotations, lockBy, prune, reaper,
                 nextFile, lines, ageings, halts, upset, lostEarly>>

\* A rename gives the file a new change time; a missing generation is skipped.
ShiftUp(a) ==
  LET n == appender[a].n IN
  /\ appender[a].at = "shift"
  /\ rotated' = IF rotated[n] = NoLog THEN rotated
                ELSE [rotated EXCEPT ![n + 1] = rotated[n], ![n] = NoLog]
  /\ IF rotated[n] = NoLog THEN UNCHANGED lostEarly ELSE Lose(rotated[n + 1])
  /\ aged' = aged \ {rotated[n]}
  /\ appender' = [appender EXCEPT ![a].at = IF n = 1 THEN "first" ELSE "shift", ![a].n = n - 1]
  /\ UNCHANGED <<active, length, rotationOf, rotations, lockBy, prune, reaper,
                 nextFile, lines, ageings, halts, upset>>

\* The active file becomes generation 1; the rotation fails when the reaper took it.
MoveActive(a) ==
  /\ appender[a].at = "first"
  /\ IF active = NoLog
     THEN UNCHANGED <<rotated, active, aged, rotationOf, rotations, lostEarly>>
     ELSE /\ rotated' = [rotated EXCEPT ![1] = active]
          /\ Lose(rotated[1])
          /\ active' = NoLog
          /\ aged' = aged \ {active}
          /\ rotations' = rotations + 1
          /\ rotationOf' = [rotationOf EXCEPT ![active] = rotations + 1]
  /\ lockBy' = NobodyLocks
  /\ appender' = [appender EXCEPT ![a].at = "open"]
  /\ UNCHANGED <<length, prune, reaper, nextFile, lines, ageings, halts, upset>>

\* The file is opened for append, created when missing, and its mode is set.
OpenLog(a) ==
  /\ appender[a].at = "open"
  /\ IF active # NoLog
     THEN /\ appender' = [appender EXCEPT ![a].at = "write", ![a].file = active]
          /\ aged' = aged \ {active}
          /\ UNCHANGED <<active, nextFile>>
     ELSE /\ nextFile <= MaxFiles
          /\ active' = nextFile
          /\ nextFile' = nextFile + 1
          /\ appender' = [appender EXCEPT ![a].at = "write", ![a].file = nextFile]
          /\ UNCHANGED aged
  /\ UNCHANGED <<rotated, length, rotationOf, rotations, lockBy, prune, reaper,
                 lines, ageings, halts, upset, lostEarly>>

\* The line goes to the open file, which a rotation may have moved since.
WriteLine(a) ==
  /\ appender[a].at = "write" /\ lines < MaxLines
  /\ length' = [length EXCEPT ![appender[a].file] = @ + 1]
  /\ aged' = aged \ {appender[a].file}
  /\ lines' = lines + 1
  /\ appender' = [appender EXCEPT ![a] = AppendIdle]
  /\ UNCHANGED <<active, rotated, rotationOf, rotations, lockBy, prune, reaper,
                 nextFile, ageings, halts, upset, lostEarly>>

\* The hook is killed, or a rename fails: the lock goes with it.
HaltAppend(a) ==
  /\ Rotating(a) /\ halts < MaxHalts
  /\ halts' = halts + 1
  /\ upset' = TRUE
  /\ lockBy' = NobodyLocks
  /\ appender' = [appender EXCEPT ![a] = AppendIdle]
  /\ UNCHANGED <<active, rotated, length, aged, rotationOf, rotations, prune, reaper,
                 nextFile, lines, ageings, lostEarly>>

-----------------------------------------------------------------------------
(* prune_rotations_at and remove_under_lock; reap_session_log_with.        *)

OldGenerations == {n \in Generations : rotated[n] \in aged}

JudgeRotations ==
  /\ prune.at = "idle" /\ OldGenerations # {}
  /\ prune' = [at |-> "judged", old |-> OldGenerations]
  /\ UNCHANGED <<active, rotated, length, aged, rotationOf, rotations, lockBy, appender, reaper,
                 nextFile, lines, ageings, halts, upset, lostEarly>>

\* Without the lock nothing is removed.
LockPrune ==
  /\ prune.at = "judged"
  /\ IF lockBy = NobodyLocks
     THEN lockBy' = Pruner /\ prune' = [prune EXCEPT !.at = "removing"]
     ELSE prune' = [at |-> "idle", old |-> {}] /\ UNCHANGED lockBy
  /\ UNCHANGED <<active, rotated, length, aged, rotationOf, rotations, appender, reaper,
                 nextFile, lines, ageings, halts, upset, lostEarly>>

\* Each name is judged again before its file goes.
RemoveRotation(n) ==
  /\ prune.at = "removing" /\ n \in prune.old
  /\ IF rotated[n] \in aged
     THEN rotated' = [rotated EXCEPT ![n] = NoLog] /\ Lose(rotated[n])
     ELSE UNCHANGED <<rotated, lostEarly>>
  /\ prune' = IF prune.old = {n} THEN [at |-> "idle", old |-> {}]
                                 ELSE [prune EXCEPT !.old = @ \ {n}]
  /\ lockBy' = IF prune.old = {n} THEN NobodyLocks ELSE lockBy
  /\ UNCHANGED <<active, length, aged, rotationOf, rotations, appender, reaper,
                 nextFile, lines, ageings, halts, upset>>

ReadLogAge ==
  /\ ~reaper /\ active \in aged
  /\ reaper' = TRUE
  /\ UNCHANGED <<active, rotated, length, aged, rotationOf, rotations, lockBy, appender, prune,
                 nextFile, lines, ageings, halts, upset, lostEarly>>

\* The file that has the log's name by now is removed.
ReapLog ==
  /\ reaper
  /\ reaper' = FALSE
  /\ active' = NoLog
  /\ upset' = (upset \/ active \notin aged \/ lockBy # NobodyLocks)
  /\ lostEarly' = (lostEarly \/ (active # NoLog /\ active \notin aged /\ length[active] > 0))
  /\ UNCHANGED <<rotated, length, aged, rotationOf, rotations, lockBy, appender, prune,
                 nextFile, lines, ageings, halts>>

\* More than the retention passes while nothing runs.
AgeLog ==
  /\ ageings < MaxAgeings
  /\ \A a \in Appenders : appender[a] = AppendIdle
  /\ prune.at = "idle" /\ ~reaper
  /\ ageings' = ageings + 1
  /\ aged' = {f \in Files : f < nextFile}
  /\ UNCHANGED <<active, rotated, length, rotationOf, rotations, lockBy, appender, prune, reaper,
                 nextFile, lines, halts, upset, lostEarly>>

RotationNext ==
  \/ \E a \in Appenders : \/ StartAppend(a) \/ LockRotation(a) \/ GiveUpRotation(a) \/ DropOldest(a)
                          \/ ShiftUp(a) \/ MoveActive(a) \/ OpenLog(a) \/ WriteLine(a) \/ HaltAppend(a)
  \/ JudgeRotations \/ LockPrune \/ \E n \in Generations : RemoveRotation(n)
  \/ ReadLogAge \/ ReapLog \/ AgeLog

RotationSpec == RotationInit /\ [][RotationNext]_logVars

-----------------------------------------------------------------------------
\* rotation.rs: "<name>.1 holds the newest rotated lines": a file in a later
\* generation was made before each file in an earlier one, and the active file last,
\* also while a rotation runs and after one was cut off.
GenerationsInOrder ==
  /\ \A n, m \in Generations :
       n < m /\ rotated[n] # NoLog /\ rotated[m] # NoLog => rotated[n] > rotated[m]
  /\ \A n \in Generations : active # NoLog /\ rotated[n] # NoLog => active > rotated[n]

\* rotation.rs: the lock and the second check keep a hook from moving another's new
\* active file into generation 1: every rotated file had reached the limit, unless the
\* reaper removed the file the rotation had measured.
RotatedWasFull ==
  \A n \in Generations : rotated[n] # NoLog => IsFull(rotated[n]) \/ upset

\* A file with lines leaves the folder only past the retention, or when
\* KEPT_ROTATIONS rotations followed its own; it leaves sooner only after a rotation
\* was cut off between two renames, or the reaper removed a file in use.
EarlyLossNeedsUpset == lostEarly => upset

\* Without an upset the log keeps its lines: only full files are rotated, and none goes
\* before its time.
CalmLogKeepsLines == RotatedWasFull /\ EarlyLossNeedsUpset
=============================================================================
